---------------------------- MODULE CanvasKeyboard ----------------------------
(* The graph as one tab stop: arrow keys move the focus over the drawn boxes, and *)
(* the focus outlives what live events do to them (canvas/spatialNavigation.ts,    *)
(* canvas/ArchitectureCanvas.tsx, reconcileLayoutNodes of useArchitectureGraph.ts). *)
(*                                                                                 *)
(* Boxes are 1..N, compared as the code compares its ids.  The layout solver is    *)
(* external: it may put the boxes in any of the Placements, or never answer.  The  *)
(* zoom stays 1, dragged boxes and edges are left out, and the fits of the toolbar *)
(* (Canvas) are among what Look may do to the camera.                              *)
EXTENDS Integers, SequencesExt

CONSTANTS
    None,
    Nowhere, Tools, Outside, \* where the DOM focus is when it is on no box
    Models,                  \* projections: [nodes: the boxes in their order, parents]
    Placements,              \* [box -> [x, y, w, h]], relative to the parent
    Cameras,                 \* what a drag or a fit makes of the camera
    SurfaceSize, Gap,        \* of the square surface, and the padding of a fit
    MaxChanges               \* of the drawn graph and, by hand, of the camera

VARIABLE keyboard            \* the record that KeyboardInit describes

Graph == INSTANCE ArchitectureGraph WITH None <- None, Boundless <- None

Orientations == {"left-right", "top-down"}
Directions == {"ArrowUp", "ArrowDown", "ArrowLeft", "ArrowRight"}

-----------------------------------------------------------------------------
(* What is drawn, and where.                                                      *)

Containers(model) == {box \in DOMAIN model.parents : Graph!IsCompound(model.parents, box)}

\* initialCollapsedIds: the containers below another.
InitialCollapsed(model) == {box \in Containers(model) : model.parents[box] # None}

\* collapseGraph, as ArchitectureGraph has it: the boxes in their order.
Visible(model, closed) ==
    LET hidden == Graph!Classify(model.nodes, model.parents, closed).hidden
    IN  SelectSeq(model.nodes, LAMBDA box : box \notin hidden)

IsOpen(k, box) == Graph!IsCompound(k.model.parents, box) /\ box \notin k.closed
LayoutSignature(k) ==
    <<k.orientation, [box \in ToSet(k.visible) |-> <<k.model.parents[box], IsOpen(k, box)>>]>>
IsRelayouting(k) ==
    k.visible # <<>> /\ ~(k.laid # None /\ k.laid.signature = LayoutSignature(k))

\* Nothing is drawn before the first layout.
Nodes(k) == IF k.laid = None THEN <<>> ELSE k.visible
NodeSet(k) == ToSet(Nodes(k))

LeafSize == [w |-> 228, h |-> 96]
CompoundSize == [w |-> 260, h |-> 120]

\* reconcileLayoutNodes: the place of the last layout, unless the box is new or has
\* another parent; the grid is provisional.
PlaceOf(k, box, index) ==
    LET size == IF IsOpen(k, box) THEN CompoundSize ELSE LeafSize
    IN  IF box \in DOMAIN k.laid.at /\ k.laid.at[box].parent = k.model.parents[box]
        THEN k.laid.at[box].place
        ELSE [x |-> 32 + (index % 4) * 280, y |-> 64 + (index \div 4) * 180,
              w |-> size.w, h |-> size.h]

SpatialNode(spatial, box) == SelectSeq(spatial, LAMBDA node : node.id = box)[1]

\* toSpatialNodes: in the coordinates of the picture, parents first.
SpatialNodes(k) ==
    LET place(spatial, box) ==
            LET own == PlaceOf(k, box, Len(spatial))
                origin == IF k.model.parents[box] = None THEN [x |-> 0, y |-> 0]
                          ELSE SpatialNode(spatial, k.model.parents[box])
            IN  Append(spatial, [id |-> box, x |-> origin.x + own.x, y |-> origin.y + own.y,
                                 w |-> own.w, h |-> own.h])
    IN  FoldLeft(place, <<>>, Nodes(k))

-----------------------------------------------------------------------------
(* spatialNeighbor, spatialNavigationEntry.                                       *)

Abs(n) == IF n < 0 THEN -n ELSE n

\* Twice the centre of a box.
CenterOf(node) == [x |-> 2 * node.x + node.w, y |-> 2 * node.y + node.h]

IsBackward(direction) == direction \in {"ArrowUp", "ArrowLeft"}
IsVertical(direction) == direction \in {"ArrowUp", "ArrowDown"}

\* How far a point lies from another one along a direction, and beside it.
Ahead(direction, from, c) ==
    LET along == IF IsVertical(direction) THEN c.y - from.y ELSE c.x - from.x
    IN  IF IsBackward(direction) THEN -along ELSE along
Aside(direction, from, c) ==
    IF IsVertical(direction) THEN Abs(c.x - from.x) ELSE Abs(c.y - from.y)

SortKey(id, c, ahead, aside, orientation) ==
    <<ahead + 2 * aside, ahead, aside, IF orientation = "top-down" THEN c.x ELSE c.y, id>>

\* The boxes that lie that way, each with what it is sorted by.
Candidates(spatial, current, direction, orientation, from) ==
    LET keyOf(node, c) ==
            SortKey(node.id, c, Ahead(direction, from, c), Aside(direction, from, c), orientation)
        isAhead(node) == node.id # current /\ Ahead(direction, from, CenterOf(node)) > 0
    IN  {keyOf(node, CenterOf(node)) : node \in {n \in ToSet(spatial) : isAhead(n)}}

\* Lexicographic, and never a tie: the ids differ.
Before(left, right) ==
    \E n \in DOMAIN left : left[n] < right[n] /\ \A m \in 1..(n - 1) : left[m] = right[m]

Nearest(found) ==
    IF found = {} THEN None ELSE (CHOOSE c \in found : \A d \in found \ {c} : Before(c, d))[5]

SpatialNeighbor(spatial, current, direction, orientation) ==
    Nearest(Candidates(spatial, current, direction, orientation, CenterOf(SpatialNode(spatial, current))))

\* Every press of an arrow key that leads somewhere.
Presses(spatial, orientation) ==
    {<<node.id, SpatialNeighbor(spatial, node.id, direction, orientation)>>
        : node \in ToSet(spatial), direction \in Directions}

\* What they reach from a box, in as many presses as there are boxes.
Reached(spatial, presses, source) ==
    LET step(found, node) == found \cup ({p[2] : p \in {q \in presses : q[1] \in found}} \ {None})
    IN  FoldLeft(step, {source}, spatial)

ReachedCounts(spatial, presses) ==
    LET counted(counts, node) == Append(counts, Cardinality(Reached(spatial, presses, node.id)))
    IN  FoldLeft(counted, <<>>, spatial)

FirstLargest(counts) ==
    CHOOSE i \in DOMAIN counts :
        \A j \in DOMAIN counts : counts[j] < counts[i] \/ (counts[j] = counts[i] /\ i <= j)

\* The first box, in the order of the projection, of those that reach the most.
SpatialEntry(spatial, orientation) ==
    IF spatial = <<>> THEN None
    ELSE spatial[FirstLargest(ReachedCounts(spatial, Presses(spatial, orientation)))].id

Entry(k) == SpatialEntry(k.spatial, k.orientation)

\* The one box of the graph that Tab enters.
Roving(k) == IF k.focused \in NodeSet(k) THEN k.focused ELSE Entry(k)

-----------------------------------------------------------------------------
(* The camera.                                                                    *)

\* panIntoView: the least movement that shows the box with a margin, or its start.
PanIntoView(offset, start, size) ==
    LET shownAt == start + offset
        pulled == offset - (shownAt + size - (SurfaceSize - Gap))
    IN  IF shownAt + size > SurfaceSize - Gap
        THEN IF start + pulled < Gap THEN Gap - start ELSE pulled
        ELSE IF shownAt < Gap THEN Gap - start ELSE offset

ViewportForFocus(camera, node) ==
    [x |-> PanIntoView(camera.x, node.x, node.w), y |-> PanIntoView(camera.y, node.y, node.h)]

Centred(node) ==
    [x |-> (SurfaceSize - node.w) \div 2 - node.x, y |-> (SurfaceSize - node.h) \div 2 - node.y]
OnScreen(camera, node) ==
    /\ node.x + camera.x < SurfaceSize /\ node.x + node.w + camera.x > 0
    /\ node.y + camera.y < SurfaceSize /\ node.y + node.h + camera.y > 0

\* autoPanOnNodeFocus of the drawing library: a box that gets the keyboard's focus
\* outside of the surface may be centred.
AutoPanned(k, box) ==
    LET node == SpatialNode(k.spatial, box)
    IN  {k.camera} \cup (IF OnScreen(k.camera, node) THEN {} ELSE {Centred(node)})

-----------------------------------------------------------------------------
(* Focus.                                                                         *)

\* onSurfaceFocusCapture, with the DOM focus on a box or on a control in it.
FocusOn(k, box) == [k EXCEPT !.focused = box, !.within = TRUE, !.dom = box]

\* The nearest visible ancestor of what was focused, of the containment as it now is.
Fallback(k) ==
    LET nodes == Nodes(k)
        above == IF k.focused \in DOMAIN k.model.parents
                 THEN {i \in DOMAIN nodes : nodes[i] \in Graph!Chain(k.model.parents, k.focused)}
                 ELSE {}
    IN  IF k.focused \in NodeSet(k) THEN k.focused
        ELSE IF above = {} THEN Entry(k)
        ELSE nodes[CHOOSE i \in above : \A j \in above : j <= i]

\* Mutant: the focus follows the tab stop wherever the reader is.
TakesFocusAlways(k, target) == k.within /\ target # None

\* The DOM focus comes along only from the page's body or from the box it was on.
TakesFocus(k, target) == k.within /\ k.dom \in {Nowhere, k.focused} /\ target # None

TabStopAt(k, target) ==
    IF target = k.focused THEN k
    ELSE IF TakesFocus(k, target) THEN FocusOn(k, target)
    ELSE [k EXCEPT !.focused = target]

\* The effect that moves the tab stop once a layout is drawn.
Synchronised(k) == IF IsRelayouting(k) THEN k ELSE TabStopAt(k, Fallback(k))

\* A box that is drawn no more leaves the DOM focus on the body; then the effect runs.
\* returned: what was focused left, and came back before a layout was drawn.
Rendered(k) ==
    LET lost == k.dom \notin NodeSet(k) \cup {Nowhere, Tools, Outside}
    IN  Synchronised([k EXCEPT !.spatial = SpatialNodes(k), !.dom = IF lost THEN Nowhere ELSE k.dom,
                               !.returned = IF k.dom \in {Tools, Outside} THEN FALSE
                                            ELSE k.returned
                                                 \/ (k.dom = Nowhere /\ k.focused \in NodeSet(k))])

-----------------------------------------------------------------------------

KeyboardInit ==
    \E model \in Models :
        keyboard = [model |-> model, closed |-> InitialCollapsed(model), orientation |-> "top-down",
                    laid |-> None, visible |-> Visible(model, InitialCollapsed(model)),
                    spatial |-> <<>>, camera |-> [x |-> 0, y |-> 0],
                    focused |-> None, within |-> FALSE, dom |-> Outside, returned |-> FALSE, changes |-> 0]

\* Changes of the graph that is drawn are counted, to bound them.
Changed(k) ==
    /\ keyboard.changes < MaxChanges
    /\ keyboard' = Rendered([k EXCEPT !.visible = Visible(k.model, k.closed), !.changes = @ + 1])

\* A live update or a saved view brings other components or another containment.
Report(model) ==
    /\ model # keyboard.model
    /\ Changed([keyboard EXCEPT !.model = model])

\* The solver answers for the newest graph; the focus that moves may pan.
Solve(placement) ==
    /\ IsRelayouting(keyboard)
    /\ LET at == [box \in ToSet(keyboard.visible) |->
                     [parent |-> keyboard.model.parents[box],
                      place |-> IF IsOpen(keyboard, box) THEN placement[box]
                                ELSE [placement[box] EXCEPT !.w = LeafSize.w, !.h = LeafSize.h]]]
           solved == [keyboard EXCEPT !.laid = [signature |-> LayoutSignature(keyboard), at |-> at]]
       IN  \E next \in {Rendered(solved)} :
               \E camera \in IF next.dom # keyboard.dom THEN AutoPanned(next, next.dom) ELSE {next.camera} :
                   keyboard' = [next EXCEPT !.camera = camera]

\* The disclosure control of a container is inside of its box.
Toggle(container) ==
    /\ container \in NodeSet(keyboard) \cap Containers(keyboard.model)
    /\ OnScreen(keyboard.camera, SpatialNode(keyboard.spatial, container))
    /\ LET closed == IF container \in keyboard.closed THEN keyboard.closed \ {container}
                     ELSE keyboard.closed \cup {container}
       IN  Changed([FocusOn(keyboard, container) EXCEPT !.closed = closed, !.returned = FALSE])

\* The toolbar: everything open, the first picture again, the other orientation.
ShowWholeModel ==
    /\ keyboard.closed # {}
    /\ Changed([keyboard EXCEPT !.dom = Tools, !.closed = {}])
BackToOverview ==
    /\ InitialCollapsed(keyboard.model) \notin {{}, keyboard.closed}
    /\ Changed([keyboard EXCEPT !.dom = Tools, !.closed = InitialCollapsed(keyboard.model)])
Turn(orientation) ==
    /\ orientation # keyboard.orientation
    /\ Changed([keyboard EXCEPT !.dom = Tools, !.orientation = orientation])

\* focusSpatialNode
Arrow(direction) ==
    /\ keyboard.dom \in NodeSet(keyboard)
    /\ \E next \in {SpatialNeighbor(keyboard.spatial, keyboard.dom, direction, keyboard.orientation)} :
           /\ next # None
           /\ keyboard' = [FocusOn(keyboard, next) EXCEPT
                              !.camera = ViewportForFocus(@, SpatialNode(keyboard.spatial, next))]

TabIn ==
    /\ keyboard.dom \in {Tools, Outside, Nowhere} /\ NodeSet(keyboard) # {}
    /\ \E entry \in {Roving(keyboard)} : \E camera \in AutoPanned(keyboard, entry) :
           keyboard' = [FocusOn(keyboard, entry) EXCEPT !.returned = FALSE, !.camera = camera]

Click(box) ==
    /\ box \in NodeSet(keyboard) /\ OnScreen(keyboard.camera, SpatialNode(keyboard.spatial, box))
    /\ keyboard' = [FocusOn(keyboard, box) EXCEPT !.returned = FALSE]

\* onSurfaceBlurCapture: the surface hears only of a focus that was inside of it.
Leave(place) ==
    /\ keyboard.dom # place
    /\ keyboard' = [keyboard EXCEPT !.dom = place, !.returned = FALSE,
                                    !.within = @ /\ (place = Tools \/ keyboard.dom \in {Nowhere, Outside})]

Look(camera) ==
    /\ keyboard.changes < MaxChanges /\ keyboard.laid # None /\ camera # keyboard.camera
    /\ keyboard' = [keyboard EXCEPT !.camera = camera, !.changes = @ + 1]

KeyboardNext ==
    \/ \E model \in Models : Report(model)
    \/ \E placement \in Placements : Solve(placement)
    \/ \E container \in NodeSet(keyboard) : Toggle(container)
    \/ ShowWholeModel
    \/ BackToOverview
    \/ \E orientation \in Orientations : Turn(orientation)
    \/ \E direction \in Directions : Arrow(direction)
    \/ TabIn
    \/ \E box \in NodeSet(keyboard) : Click(box)
    \/ \E place \in {Nowhere, Tools, Outside} : Leave(place)
    \/ \E camera \in Cameras : Look(camera)

-----------------------------------------------------------------------------
(* What the reader of the graph can rely on.                                      *)

\* Comfortably shown: with the margin, or from its start where it is too large.
Shown(camera, node) ==
    LET axis(offset, start, size) ==
            \/ start + offset >= Gap /\ start + size + offset <= SurfaceSize - Gap
            \/ size > SurfaceSize - 2 * Gap /\ start + offset = Gap
    IN  axis(camera.x, node.x, node.w) /\ axis(camera.y, node.y, node.h)

\* No event takes the DOM focus from where it still can be.
FocusStays ==
    (keyboard'.model # keyboard.model \/ keyboard'.laid # keyboard.laid) =>
        (keyboard.dom \in NodeSet(keyboard') \cup {Tools, Outside} => keyboard'.dom = keyboard.dom)

\* Who lost a box under the focus is on one again once a layout is drawn.
FocusReturns ==
    (/\ keyboard.within /\ keyboard.dom = Nowhere /\ ~keyboard'.returned
     /\ IsRelayouting(keyboard) /\ ~IsRelayouting(keyboard')) =>
        (NodeSet(keyboard') # {} => keyboard'.dom # Nowhere)

\* A tab stop that is hidden goes to the closed container it is in, wherever the reader is.
FocusRises ==
    keyboard'.focused # keyboard.focused /\ keyboard'.laid # keyboard.laid
    /\ keyboard.focused \in DOMAIN keyboard'.model.parents =>
        keyboard'.focused \in keyboard'.closed
            \cap Graph!Chain(keyboard'.model.parents, keyboard.focused)

\* The camera moves for the box that the focus goes to, and not for one that is shown.
CameraFollows ==
    keyboard'.dom # keyboard.dom /\ keyboard'.dom \in NodeSet(keyboard') =>
        LET node == SpatialNode(keyboard'.spatial, keyboard'.dom)
        IN  /\ Shown(keyboard.camera, node) => keyboard'.camera = keyboard.camera
            /\ OnScreen(keyboard'.camera, node) \/ keyboard'.camera = keyboard.camera

PlaceIsKept == FocusStays /\ FocusReturns /\ FocusRises /\ CameraFollows
=============================================================================
