----------------------------- MODULE CanvasViews -----------------------------
(* What the browser remembers of every architecture view the reader has looked at:   *)
(* the camera, dragged nodes, the selection, the reading direction and the folded     *)
(* containers.  The URL names the view that is shown (routes/pages/WorkspacePage.tsx); *)
(* the store holds the state of the active view and that of each view that was left   *)
(* (state/uiStore.ts), and a canvas is mounted per view                                *)
(* (views/CanvasViewBoundary.tsx, components/workspace/ArchitecturePane.tsx).          *)
(*                                                                                    *)
(* A view is the key of a project and a saved view or its overview; its camera is None *)
(* until it is set.  Dragged nodes and unfolded bundles are kept exactly as the folded  *)
(* containers are, and are left to them.                                               *)
EXTENDS Missing, Integers, FiniteSets

CONSTANTS ViewKeys,    \* keys, canvasViewKey
          Overviews,   \* those without a saved definition
          Cameras, Selections, ReadingDirections,
          Foldings,    \* sets of folded containers
          Defaults,    \* what the definition of a saved view folds
          MaxCanvases  \* bound: canvases with a transition to finish, the mounted one included

ASSUME ViewsAssumption == None \notin ViewKeys \cup Nat

VARIABLES address,     \* [view, selected, orientation]; view is None outside the workspace
          active,      \* activeCanvasViewKey
          canvasViews, \* what was saved of the views that were left
          view,        \* the state of the active view, in the store
          loaded,      \* views whose definition the browser has
          mirror,      \* the passive effects of the page that have not run yet
          mountedCanvas, \* by its number, or None
          moves        \* viewport transitions React Flow has not finished: [canvas, camera]

viewVars == <<address, active, canvasViews, view, loaded, mirror, mountedCanvas, moves>>

-----------------------------------------------------------------------------
(* The store.                                                                     *)

Fresh(folded) ==
    [orientation |-> None, camera |-> None, selected |-> None, collapsed |-> folded]

DefaultsOf(key) == IF key \in loaded \ Overviews THEN Defaults[key] ELSE None

\* Mutant: the state that is left is put down for the view that comes.
SavedForNext(key) ==
    IF active = None THEN canvasViews
    ELSE [k \in DOMAIN canvasViews \cup {key} |-> IF k = key THEN view ELSE canvasViews[k]]

\* The departing view's state, under its own key.
SavedOnLeave(key) ==
    IF active = None THEN canvasViews
    ELSE [k \in DOMAIN canvasViews \cup {active} |-> IF k = active THEN view ELSE canvasViews[k]]

\* activateCanvasView.
Activate(key, folded) ==
    IF active = key
    THEN /\ view' = [view EXCEPT !.collapsed = IF @ = None THEN folded ELSE @]
         /\ UNCHANGED <<active, canvasViews>>
    ELSE /\ active' = key
         /\ canvasViews' = SavedOnLeave(key)
         /\ view' = IF key \in DOMAIN canvasViews' THEN canvasViews'[key]
                    ELSE IF active = None /\ key \in Overviews THEN view
                    ELSE Fresh(folded)

\* setCamera of the store.
WithCamera(camera) == [view EXCEPT !.camera = camera]

-----------------------------------------------------------------------------
(* The page and the canvas of the view the URL names.                              *)

\* CanvasViewBoundary and ArchitecturePane: which view may have a canvas.
MayMount(key, state) ==
    /\ key \in loaded
    /\ key \in Overviews \/ state.collapsed # None

\* A navigation is committed: the canvas of the view that is left is taken away, the
\* layout effects activate the view, and the effects that mirror the URL wait.
CommitNavigation(target) ==
    /\ address' = target
    /\ mirror' = TRUE
    /\ mountedCanvas' = None
    /\ IF target.view = None THEN UNCHANGED <<active, canvasViews, view>>
       ELSE Activate(target.view, DefaultsOf(target.view))
    /\ UNCHANGED <<loaded, moves>>

\* setView: the URL is made of what is remembered of the view.
SetView(key) ==
    LET remembered == IF key \in DOMAIN canvasViews THEN canvasViews[key] ELSE Fresh(None)
    IN  /\ ~mirror /\ address.view \notin {None, key}
        /\ CommitNavigation([view |-> key, selected |-> remembered.selected,
                   orientation |-> remembered.orientation])

\* A link, the back button, another project, or leaving the workspace.
Follow(target) ==
    /\ ~mirror /\ target.view # address.view
    /\ CommitNavigation(target)

\* setSelectedComponent, setSelectedRelationship: only the URL.
SetSelected(selected) ==
    /\ ~mirror /\ address.view # None /\ selected # address.selected
    /\ address' = [address EXCEPT !.selected = selected]
    /\ mirror' = TRUE
    /\ UNCHANGED <<active, canvasViews, view, loaded, mountedCanvas, moves>>

\* setGraphOrientation: the store and the URL.
SetGraphOrientation(orientation) ==
    /\ ~mirror /\ address.view # None
    /\ view' = [view EXCEPT !.orientation = orientation]
    /\ address' = [address EXCEPT !.orientation = orientation]
    /\ mirror' = TRUE
    /\ UNCHANGED <<active, canvasViews, loaded, mountedCanvas, moves>>

\* The passive effects: the URL is mirrored into the store.
Mirror ==
    /\ mirror
    /\ mirror' = FALSE
    /\ view' = IF address.view = None THEN view
               ELSE [view EXCEPT !.selected = address.selected, !.orientation = address.orientation]
    /\ UNCHANGED <<address, active, canvasViews, loaded, mountedCanvas, moves>>

\* The model of a view, and its definition if it is a saved one, has arrived.
Load(key) ==
    /\ key \notin loaded
    /\ loaded' = loaded \cup {key}
    /\ UNCHANGED <<address, active, canvasViews, view, mirror, mountedCanvas, moves>>

\* The boundary is rendered: its layout effect fills in what the definition folds.
Enclose ==
    /\ address.view \in loaded /\ view.collapsed = None /\ address.view \notin Overviews
    /\ Activate(address.view, DefaultsOf(address.view))
    /\ UNCHANGED <<address, loaded, mirror, mountedCanvas, moves>>

\* The canvas is mounted under the first number no transition still bears.
Mount ==
    /\ mountedCanvas = None /\ address.view # None /\ active = address.view
    /\ MayMount(address.view, view)
    /\ \E n \in 1..MaxCanvases :
           /\ \A m \in moves : m.canvas # n
           /\ \A k \in 1..(n - 1) : \E m \in moves : m.canvas = k
           /\ mountedCanvas' = n
    /\ UNCHANGED <<address, active, canvasViews, view, loaded, mirror, moves>>

\* The first fit, and each later move of the camera by the canvas itself: the store has
\* it at once, React Flow ends its transition later.
MoveCamera(camera) ==
    /\ mountedCanvas # None
    /\ view' = WithCamera(camera)
    /\ moves' = {m \in moves : m.canvas # mountedCanvas}
                  \cup {[canvas |-> mountedCanvas, camera |-> camera]}
    /\ UNCHANGED <<address, active, canvasViews, loaded, mirror, mountedCanvas>>

\* mountedRef.
StillMounted(move) == move.canvas = mountedCanvas

\* onMoveEnd, maybe after the canvas has gone.
EndMove(move) ==
    /\ moves' = moves \ {move}
    /\ view' = IF StillMounted(move) THEN WithCamera(move.camera) ELSE view
    /\ UNCHANGED <<address, active, canvasViews, loaded, mirror, mountedCanvas>>

\* setCollapsedComponentIds, setComponentCollapsed, setNodePosition, toggleEdgeExpanded.
Fold(folded) ==
    /\ mountedCanvas # None
    /\ view' = [view EXCEPT !.collapsed = folded]
    /\ UNCHANGED <<address, active, canvasViews, loaded, mirror, mountedCanvas, moves>>

ViewsInit ==
    /\ address = [view |-> None, selected |-> None, orientation |-> None]
    /\ active = None /\ canvasViews = <<>> /\ view = Fresh(None)
    /\ loaded = {} /\ mirror = FALSE /\ mountedCanvas = None /\ moves = {}

ViewsNext ==
    \/ \E key \in ViewKeys : SetView(key) \/ Load(key)
    \/ \E key \in ViewKeys \cup {None}, selected \in Selections \cup {None} :
           Follow([view |-> key, selected |-> selected, orientation |-> None])
    \/ \E selected \in Selections \cup {None} : SetSelected(selected)
    \/ \E orientation \in ReadingDirections : SetGraphOrientation(orientation)
    \/ Mirror \/ Enclose \/ Mount
    \/ \E camera \in Cameras : MoveCamera(camera)
    \/ \E move \in moves : EndMove(move)
    \/ \E folded \in Foldings : Fold(folded)

ViewsSpec == ViewsInit /\ [][ViewsNext]_viewVars

-----------------------------------------------------------------------------
(* Properties.                                                                    *)

\* What is kept of a view, whether it is shown or was left.
MemoryOf(key) ==
    IF key = active THEN view ELSE IF key \in DOMAIN canvasViews THEN canvasViews[key] ELSE None

\* However the reader goes from view to view, and whatever transition, effect or
\* definition comes late: switching views changes nothing of what any view remembers, and
\* a view is only ever changed while it is the one that is shown, its camera only by the
\* canvas that shows it (uiStore.ts:300-308, WorkspacePage.tsx:40-47,
\* ArchitectureCanvas.tsx:277-281).
MemoriesAreKept ==
    \A key \in ViewKeys :
        /\ MemoryOf(key) # None /\ MemoryOf(key)' # MemoryOf(key)
           => key = active /\ active' = active /\ address'.view = key
        /\ key = active /\ active' = active /\ MemoryOf(key)'.camera # MemoryOf(key).camera
           => mountedCanvas # None /\ address.view = key
              /\ \A move \in moves \ moves' : move.canvas = mountedCanvas

ViewsKeepTheirOwn == [][MemoriesAreKept]_viewVars
=============================================================================
