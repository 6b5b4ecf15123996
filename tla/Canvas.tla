-------------------------------- MODULE Canvas --------------------------------
(* One mounted architecture canvas: which containers it draws closed, the solver  *)
(* runs it starts (canvas/useArchitectureGraph.ts), and everything that may move  *)
(* its camera (canvas/ArchitectureCanvas.tsx, canvas/cameraPolicy.ts).  A step is *)
(* one callback and the effects React runs after it, in their order.               *)
(*                                                                                 *)
(* Coordinates are left out: a camera movement is what matters, not where to.      *)
(* A surface is mounted with size 0, which is too small to be fitted.             *)
EXTENDS Missing, Integers, FiniteSets

CONSTANTS Components,   \* the components there can be
          Unknown,      \* an id a link may name that no model has
          Parent,       \* of each component, None of a root
          Models,       \* the sets of components a live update may bring
          Sizes,        \* the sizes a resize may give the surface
          Failed        \* of a solver run that ended without a picture

ASSUME CanvasAssumption ==
    /\ Models \subseteq SUBSET Components
    /\ None # Failed
    /\ {None, Failed} \cap ((SUBSET Components) \X (SUBSET Components) \X BOOLEAN) = {}

VARIABLE canvas

canvasVars == <<canvas>>

-----------------------------------------------------------------------------
(* What is drawn (projection, collapse.ts), from the whole path down to the root. *)

Above[c \in Components] ==
    IF Parent[c] = None THEN {} ELSE {Parent[c]} \cup Above[Parent[c]]

AncestorsOf(model, id) == IF id \in model THEN Above[id] ELSE {}
Containers(model) == {c \in model : \E child \in model : Parent[child] = c}

\* initialCollapsedIds: containers at INITIAL_EXPANDED_DEPTH, which is one, or below.
InitialCollapsed(model) == {c \in Containers(model) : Above[c] # {}}

Requested(c) == IF c.collapsed = None THEN InitialCollapsed(c.model) ELSE c.collapsed
CollapsedKey(c) == Requested(c) \ AncestorsOf(c.model, c.selected)
Visible(model, key) == {node \in model : Above[node] \cap key = {}}

\* collapseGraph: of the closed containers, those that are drawn are noted.
Collapse(c, key, visible) ==
    [c EXCEPT !.key = key, !.visible = visible, !.closed = key \cap Containers(c.model) \cap visible]

\* What a callback made of the state is drawn anew; key is the memoised collapsedKey.
Drawn(c) ==
    LET key == CollapsedKey(c)
    IN  Collapse(c, key, Visible(c.model, key))

Signature(c) == <<c.visible, c.closed, c.turned>>
Relayouting(c) == c.visible # {} /\ c.laidOut # Signature(c)
Nodes(c) == IF c.laidOut = None THEN {} ELSE c.visible

-----------------------------------------------------------------------------
(* The camera.  asked holds the requests the user made that were not answered     *)
(* yet; unasked, that a camera the user had taken was moved by none of them.       *)

Asked(c, request) ==
    [c EXCEPT !.asked = (IF request = "frame" THEN @ ELSE @ \ {"reveal"}) \cup {request}]

Moved(c, request) ==
    [c EXCEPT !.unasked = @ \/ (c.userMoved /\ c.fitted /\ request \notin c.asked), !.asked = @ \ {request}]

\* fitView: nothing happens on a surface that is too small.
CanFit(c) == c.surface > 0 /\ Nodes(c) # {}
FitView(c, request) ==
    IF CanFit(c) THEN Moved(c, request) ELSE [c EXCEPT !.asked = @ \ {request}]

\* focusComponentInView.
FocusInView(c, id) ==
    LET now == [c EXCEPT !.pendingFocus = None]
    IN  IF id \in Nodes(c) THEN [Moved(now, "reveal") EXCEPT !.userMoved = TRUE]
        ELSE [now EXCEPT !.asked = @ \ {"reveal"}]

\* requestFit.
RequestFit(c, afterRelayout) ==
    LET now == [c EXCEPT !.pendingFocus = None]
    IN  IF afterRelayout THEN [Asked(now, "fit") EXCEPT !.pendingFit = TRUE]
        ELSE FitView(Asked(now, "now"), "now")

-----------------------------------------------------------------------------
(* The effects, in the order in which they run.                                   *)

\* What is there to solve: an empty graph needs no run.
RunFor(c) == IF c.visible = {} THEN None ELSE Signature(c)

\* Mutant: a turn of the direction starts no run.
StartUnlessTurned(old, c, replaced) ==
    IF replaced \/ c.key # old.key
    THEN [c EXCEPT !.run = RunFor(c)] ELSE c

\* A solver run starts when the drawn graph was computed anew.  The run before it
\* is cancelled, and ignored whenever it ends: only the newest is kept.
StartLayout(old, c, replaced) ==
    IF replaced \/ c.key # old.key \/ c.turned # old.turned
    THEN [c EXCEPT !.run = RunFor(c)] ELSE c

\* Architecture focus was entered or left: one fit is parked until the surface
\* has its new size, and the camera is claimed for it.
FrameOnFocus(old, c) ==
    IF c.architectureFocus = old.architectureFocus THEN c
    ELSE [Asked(c, "frame") EXCEPT !.pendingFrame = c.surface, !.userMoved = TRUE]

\* Only a direction that the URL names asks for a fit.
FitOnTurn(old, c) ==
    IF c.turned = old.turned \/ ~c.oriented THEN c
    ELSE [Asked(c, "fit") EXCEPT !.pendingFocus = None, !.pendingFit = TRUE]

\* Mutant: the policy does not ask whether the user has moved the camera.
SettleAlways(old, c) ==
    IF (Nodes(c) = Nodes(old) /\ c.surface = old.surface /\ c.selected = old.selected)
       \/ c.pendingFrame # None \/ Nodes(c) = {} \/ c.surface = 0
    THEN c
    ELSE IF ~c.fitted THEN [FitView(c, "auto") EXCEPT !.fitted = TRUE, !.size = c.surface]
    ELSE IF c.size \notin {None, c.surface}
         THEN FitView([c EXCEPT !.size = c.surface], "auto")
    ELSE c

\* onLayoutReady, the only movement nobody asks for: the first picture, and a
\* surface that still settles.
Settle(old, c) ==
    IF (Nodes(c) = Nodes(old) /\ c.surface = old.surface /\ c.selected = old.selected)
       \/ c.pendingFrame # None \/ Nodes(c) = {} \/ c.surface = 0
    THEN c
    ELSE IF ~c.fitted THEN [FitView(c, "auto") EXCEPT !.fitted = TRUE, !.size = c.surface]
    ELSE IF ~c.userMoved /\ c.size \notin {None, c.surface}
         THEN FitView([c EXCEPT !.size = c.surface], "auto")
    ELSE c

\* The initial disclosure is written down once it was drawn.
Materialise(c) ==
    IF c.collapsed # None \/ Nodes(c) = {} THEN c ELSE [c EXCEPT !.collapsed = Requested(c)]

Landed(old, c) ==
    /\ ~Relayouting(c) /\ Nodes(c) # {}
    /\ Relayouting(old) \/ Nodes(c) # Nodes(old) \/ Signature(c) # Signature(old)

RedeemFit(old, c) ==
    IF c.pendingFit /\ Landed(old, c) THEN FitView([c EXCEPT !.pendingFit = FALSE], "fit") ELSE c

RedeemFocus(old, c) ==
    IF c.pendingFocus # None /\ Landed(old, c) THEN FocusInView(c, c.pendingFocus) ELSE c

Effects(old, c, replaced) ==
    LET started == FitOnTurn(old, FrameOnFocus(old, StartLayout(old, c, replaced)))
        settled == Materialise(Settle(old, started))
    IN  RedeemFocus(old, RedeemFit(old, settled))

Render(next) == canvas' = Effects(canvas, Drawn(next), FALSE)

-----------------------------------------------------------------------------
(* Live data, the solver and the surface.                                         *)

\* A live update replaces the model, with the same components or with others.
ReplaceModel(model) == canvas' = Effects(canvas, Drawn([canvas EXCEPT !.model = model]), TRUE)

\* The newest run lands, or fails and leaves the last good picture.
Land ==
    /\ canvas.run \notin {None, Failed}
    /\ Render([canvas EXCEPT !.laidOut = canvas.run, !.run = None])

Fail ==
    /\ canvas.run \notin {None, Failed}
    /\ Render([canvas EXCEPT !.run = Failed])

Resize(size) ==
    /\ size # canvas.surface
    /\ Render([canvas EXCEPT !.surface = size])

\* The settling loop of a parked architecture focus: it waits for a surface of
\* another size, and for a picture that is current.
CheckFrame ==
    /\ canvas.pendingFrame \notin {None, canvas.surface}
    /\ CanFit(canvas) /\ ~Relayouting(canvas)
    /\ Render([FitView(canvas, "frame") EXCEPT !.pendingFrame = None, !.fitted = TRUE,
                                               !.size = canvas.surface])

-----------------------------------------------------------------------------
(* The user.                                                                      *)

\* A click or a key on a node, or a link: the selection opens its containers.
Select(id) == id # canvas.selected /\ Render([canvas EXCEPT !.selected = id])

\* A container is opened or closed; closing one takes the selection along.
Toggle(id) ==
    /\ id \in Nodes(canvas) \cap Containers(canvas.model)
    /\ LET closing == id \notin canvas.closed
           now == IF canvas.collapsed = None THEN {} ELSE canvas.collapsed
       IN  Render([canvas EXCEPT
               !.selected = IF closing /\ id \in AncestorsOf(canvas.model, @) THEN id ELSE @,
               !.collapsed = IF closing THEN now \cup {id} ELSE now \ {id}])

ShowWholeModel ==
    LET willRelayout == canvas.closed # {}
    IN  Render(RequestFit(IF willRelayout THEN [canvas EXCEPT !.collapsed = {}] ELSE canvas,
                          willRelayout))

\* Compares the containers to be closed with the closed ones that are drawn.
BackToOverview ==
    LET target == InitialCollapsed(canvas.model)
        willRelayout == target # canvas.closed
    IN  Render(RequestFit(IF willRelayout THEN [canvas EXCEPT !.collapsed = target] ELSE canvas,
                          willRelayout))

SelectSearchResult(id) ==
    LET next == Requested(canvas) \ AncestorsOf(canvas.model, id)
        nextVisible == {c \in next : AncestorsOf(canvas.model, c) \cap next = {}}
        selected == [Asked(canvas, "reveal") EXCEPT !.selected = id]
    IN  /\ id \in canvas.model
        /\ IF nextVisible # canvas.closed
           THEN Render([selected EXCEPT !.pendingFocus = id, !.collapsed = next])
           ELSE Render(FocusInView(selected, id))

\* An arrow key, or the jump to the selection.
Reveal(id) ==
    /\ id \in Nodes(canvas)
    /\ Render(FocusInView(Asked(canvas, "reveal"), id))

Turn == Render([canvas EXCEPT !.turned = ~@, !.oriented = TRUE])

\* The saved view that is shown has another direction; the URL names none.
TurnOfView ==
    /\ ~canvas.oriented
    /\ Render([canvas EXCEPT !.turned = ~@])

ArchitectureFocusChanges == Render([canvas EXCEPT !.architectureFocus = ~@])

\* onMoveStart to onMoveEnd of a pan or zoom.
Pan ==
    Render([canvas EXCEPT !.userMoved = TRUE, !.pendingFocus = None,
                          !.asked = @ \ {"reveal"}])

-----------------------------------------------------------------------------

\* Mounted on a project, or on a view whose camera is remembered; architecture
\* focus entered before is entered anew.
Mounted(model, remembered, focus) ==
    LET c == [model |-> model, collapsed |-> None, key |-> {}, visible |-> {}, closed |-> {},
              selected |-> None, turned |-> FALSE, oriented |-> FALSE,
              laidOut |-> None, run |-> None,
              surface |-> 0, architectureFocus |-> focus, fitted |-> remembered, size |-> None,
              userMoved |-> remembered \/ focus,
              pendingFit |-> FALSE, pendingFocus |-> None,
              pendingFrame |-> IF focus THEN 0 ELSE None,
              asked |-> IF focus THEN {"frame"} ELSE {}, unasked |-> FALSE]
    IN  [Drawn(c) EXCEPT !.run = RunFor(Drawn(c))]

CanvasInit ==
    \E model \in Models, remembered \in BOOLEAN, focus \in BOOLEAN :
        canvas = Mounted(model, remembered, focus)

CanvasNext ==
    \/ \E model \in Models : ReplaceModel(model)
    \/ Land
    \/ Fail
    \/ \E size \in Sizes : Resize(size)
    \/ CheckFrame
    \/ \E id \in Components \cup {Unknown, None} : Select(id)
    \/ \E id \in Components : Toggle(id) \/ SelectSearchResult(id) \/ Reveal(id)
    \/ ShowWholeModel
    \/ BackToOverview
    \/ Turn
    \/ TurnOfView
    \/ ArchitectureFocusChanges
    \/ Pan

CanvasSpec == CanvasInit /\ [][CanvasNext]_canvasVars

-----------------------------------------------------------------------------
(* Properties.                                                                    *)

\* Whatever order solver runs finish in while the model, the disclosure and the
\* direction change, the picture is solved for the graph that is drawn once no run
\* is under way and the last one did not fail (useArchitectureGraph.ts:169-208).
NewestLayoutIsDrawn == canvas.run = None => ~Relayouting(canvas)

\* Once the user has taken the camera of a picture, it moves only to answer a
\* request they made and have not taken back: no live update, resize, selection or
\* late layout moves it, and no request is answered twice (cameraPolicy.ts:9-23).
CameraIsTheUsers == ~canvas.unasked

\* A camera request that is parked waits for a layout that is to come: "Never leave
\* a ref behind that a later model update could interpret as a new camera request"
\* (ArchitectureCanvas.tsx:1023-1025).
ParkedRequestIsAwaited ==
    canvas.pendingFit \/ canvas.pendingFocus # None => Relayouting(canvas)
=============================================================================
