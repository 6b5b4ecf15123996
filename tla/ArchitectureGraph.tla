-------------------------- MODULE ArchitectureGraph --------------------------
(* What the canvas draws of a snapshot: a saved view resolves its part of it      *)
(* (views/resolveArchitectureView.ts), the projection makes a forest and edges of *)
(* it and names every defect (canvas/graphProjection.ts), and closed containers   *)
(* take in what is below them (canvas/collapse.ts); what is shown is told apart by *)
(* names for those who cannot see it (canvas/canvasAccessibility.ts).             *)
(*                                                                                 *)
(* Ids are numbers, compared as the code compares its strings.  Rows of components *)
(* are [id, parent], of relationships [id, source, target]; the same id may come   *)
(* twice.  What is only proposed is in extras and extraLinks.                     *)
EXTENDS Integers, SequencesExt

CONSTANTS None, Boundless    \* Boundless: the selection of mode "all"

ByOrder(S) == SetToSortSeq(S, <)
IdsOf(rows) == {row.id : row \in rows}
RowOf(rows, id) == CHOOSE row \in rows : row.id = id

\* The first of the rows that share an id, which the stable sort keeps first.
Distinct(rows) == {rows[i] : i \in {n \in DOMAIN rows : \A m \in 1..(n - 1) : rows[m].id # rows[n].id}}

\* The last of them, which is what a Map made of the rows keeps.
Latest(rows) == {rows[i] : i \in {n \in DOMAIN rows : \A m \in (n + 1)..Len(rows) : rows[m].id # rows[n].id}}

-----------------------------------------------------------------------------
(* resolveArchitectureView.                                                       *)

\* The id and what contains it, as far as the model has it.
Path(rows, id) ==
    LET up[k \in 0..Cardinality(rows)] ==
            IF k = 0 THEN {id}
            ELSE {row.parent : row \in {r \in rows : r.id \in up[k - 1]}} \cap IdsOf(rows)
    IN  UNION {up[k] : k \in DOMAIN up}

Selected(rows, view) == IF view.components = Boundless THEN IdsOf(rows) ELSE view.components \cap IdsOf(rows)

Included(rows, view) == UNION {Path(rows, id) : id \in Selected(rows, view)}

InView(rows, view, link) ==
    /\ view.relationships = Boundless \/ link.id \in view.relationships
    /\ {link.source, link.target} \subseteq Selected(rows, view)

\* The model of the view, and the references the model no longer has.
Resolved(model, view) ==
    LET rows == Latest(model.components)
        links == Latest(model.relationships)
    IN  [components |-> {row \in rows : row.id \in Included(rows, view)},
         relationships |-> {link \in links : InView(rows, view, link)}]
Missing(model, view) ==
    (IF view.components = Boundless THEN {} ELSE view.components \ IdsOf(Latest(model.components)))
        \cup (view.collapsed \ IdsOf(Latest(model.components)))
BoundaryRelationships(model, view) ==
    {link.id : link \in {l \in Latest(model.relationships) :
        /\ view.relationships = Boundless \/ l.id \in view.relationships
        /\ ~InView(Latest(model.components), view, l)}}

\* filterViewOverlays: of what is only proposed, a view draws what it selects.
ExtraComponents(model, view) ==
    {e \in model.extras : view = None \/ view.components = Boundless \/ e.id \in view.components}
ExtraRelationships(model, view) ==
    {e \in model.extraLinks :
        \/ view = None \/ view.components = Boundless
        \/ e.id \in view.relationships /\ {e.source, e.target} \subseteq view.components}

\* What is reported wins over what is proposed under its id.
WithProposed(rows, proposed) == rows \cup {e \in proposed : e.id \notin IdsOf(rows)}

\* What is handed to the projection, with a view and without one.
Base(model, view) ==
    IF view = None
    THEN [components |-> Distinct(model.components), relationships |-> Distinct(model.relationships)]
    ELSE Resolved(model, view)

-----------------------------------------------------------------------------
(* projectArchitecture.                                                           *)

\* A component whose parent is unknown becomes a root.
ReportedParents(rows) ==
    [id \in IdsOf(rows) |-> LET parent == RowOf(rows, id).parent
                            IN  IF parent \in IdsOf(rows) THEN parent ELSE None]
Orphaned(rows) == {row.id : row \in {r \in rows : r.parent \notin IdsOf(rows) \cup {None}}}

\* The way up from a component, for as many steps as show whether it ends.
WayUp(parents, id) ==
    LET above(at) == IF at = None THEN None ELSE parents[at]
        up[k \in 0..(2 * Cardinality(DOMAIN parents))] == IF k = 0 THEN id ELSE above(up[k - 1])
    IN  up
Cycle(parents, id) ==
    LET n == Cardinality(DOMAIN parents)
    IN  {WayUp(parents, id)[k] : k \in n..(2 * n)} \ {None}

\* A cycle on the way up is reported and cut at its smallest member.
CutLoose(hierarchy, id) ==
    LET cycle == Cycle(hierarchy.parents, id)
    IN  IF cycle = {} THEN hierarchy
        ELSE [parents |-> [hierarchy.parents EXCEPT ![Min(cycle)] = None],
              cycles |-> Append(hierarchy.cycles, cycle)]

Hierarchy(rows) ==
    FoldLeft(CutLoose, [parents |-> ReportedParents(rows), cycles |-> <<>>], ByOrder(IdsOf(rows)))

ChildrenOf(parents, id) == {child \in DOMAIN parents : parents[child] = id}
IsCompound(parents, id) == ChildrenOf(parents, id) # {}

\* The stack of the walk: roots, and below each its children, in the given order.
Preorder(parents, order) ==
    LET below(id) == SelectSeq(order, LAMBDA child : parents[child] = id)
        visit(walk, id, rest) == [stack |-> below(id) \o rest, out |-> Append(walk.out, id)]
        step(walk, n) ==
            IF walk.stack = <<>> THEN walk ELSE visit(walk, Head(walk.stack), Tail(walk.stack))
    IN  FoldLeft(step, [stack |-> below(None), out |-> <<>>], order).out

Dangling(rows, links) == {link \in links : ~({link.source, link.target} \subseteq IdsOf(rows))}

\* One edge for each ordered pair of components, one more for what is only planned.
EdgeOf(source, target, applied) == [source |-> source, target |-> target, applied |-> applied]
Edges(rows, links, applied) ==
    LET drawn == links \ Dangling(rows, links)
        key(link) == EdgeOf(link.source, link.target, link.id \in applied)
    IN  {[edge |-> e, relationships |-> {l.id : l \in {k \in drawn : key(k) = e}}]
            : e \in {key(l) : l \in drawn}}

\* The ids that come more than once in what the projection is given; a resolved view
\* has each of its rows once.
Repeated(rows, view) ==
    {rows[n].id : n \in {k \in DOMAIN rows : view = None /\ \E m \in 1..(k - 1) : rows[m].id = rows[k].id}}

\* ProjectionDiagnostics, and how many problems the canvas says there are: a
\* relationship of a component with itself is named but is no problem.
Diagnostics(model, view, rows, links, cycles) ==
    [orphaned |-> Orphaned(rows), cycles |-> cycles,
     dangling |-> Dangling(rows, links),
     duplicateComponents |-> Repeated(model.components, view),
     duplicateRelationships |-> Repeated(model.relationships, view),
     selfReferences |-> {l.id : l \in {k \in links \ Dangling(rows, links) : k.source = k.target}}]
DiagnosticsCount(found) ==
    Cardinality(found.orphaned) + Len(found.cycles) + Cardinality(found.dangling)
        + Cardinality(found.duplicateComponents) + Cardinality(found.duplicateRelationships)

-----------------------------------------------------------------------------
(* collapseGraph.                                                                 *)

\* The pass over the nodes, parents before children: what is hidden, and which
\* containers are closed and shown.
Classify(nodes, parents, requested) ==
    LET step(state, id) ==
            LET hides == parents[id] \in state.hidden \cup state.closed
                closes == IsCompound(parents, id) /\ id \in requested /\ ~hides
            IN  [hidden |-> IF hides THEN state.hidden \cup {id} ELSE state.hidden,
                 closed |-> IF closes THEN state.closed \cup {id} ELSE state.closed]
    IN  FoldLeft(step, [hidden |-> {}, closed |-> {}], nodes)

Chain(parents, id) == {WayUp(parents, id)[k] : k \in 1..Cardinality(DOMAIN parents)} \ {None}
HiddenBelow(state, parents, container) ==
    {id \in state.hidden : container \in Chain(parents, id)}

\* The first ancestor that is not hidden.
Lift(hidden, parents, id) ==
    LET up == WayUp(parents, id)
        n == CHOOSE k \in DOMAIN up : up[k] \notin hidden /\ \A j \in 0..(k - 1) : up[j] \in hidden
    IN  up[n]

\* Mutant: an edge that ends in a closed container is left out.
DropHidden(edges, hidden, parents) ==
    {e \in edges : {e.edge.source, e.edge.target} \cap hidden = {}}

\* Edges are lifted onto what is shown and bundled anew; one that stays inside of
\* one box is not drawn.
LiftedEdges(edges, hidden, parents) ==
    LET lifted(e) == EdgeOf(Lift(hidden, parents, e.edge.source),
                            Lift(hidden, parents, e.edge.target), e.edge.applied)
        shown == {e \in edges : lifted(e).source # lifted(e).target}
    IN  IF hidden = {} THEN edges
        ELSE {[edge |-> key, relationships |-> UNION {e.relationships : e \in {s \in shown : lifted(s) = key}}]
                  : key \in {lifted(e) : e \in shown}}

\* STATE_PRECEDENCE; dominantOverlay.
Precedence == <<"removed", "active", "planned", "recently_applied">>
Dominant(states) == Precedence[Min({i \in DOMAIN Precedence : Precedence[i] \in states})]

\* rollUpOverlay: a closed container carries the most urgent of the states below it.
RolledUp(states, below, id) ==
    LET marks == {states[c] : c \in below \cup {id}} \ {None}
    IN  IF marks = {} THEN None ELSE Dominant(marks)

Marks(state, parents, states) ==
    [id \in state.closed |-> RolledUp(states, HiddenBelow(state, parents, id), id)]

-----------------------------------------------------------------------------
(* identifyingNames, for the nodes that are shown.  A base is what is said of a      *)
(* node itself: the name it was reported with, its kind, and how many it contains.   *)

MaxQualifierDepth == 16

\* The containers of a node, nearest first, as many as a name may mention.
Qualifiers(parents, id) ==
    LET up == WayUp(parents, id)
        depth == Min({MaxQualifierDepth, Cardinality(Chain(parents, id))})
    IN  SubSeq([k \in 1..depth |-> up[k]], 1, depth)

\* qualified: the base and the names of the nearest containers.
Qualified(node, depth) == <<node.base>> \o SubSeq(node.containers, 1, depth)

\* One round for each depth: a node that nothing else is called like has its name; a
\* group goes one container deeper together, or is told apart by id.
IdentifyingNames(nodes) ==
    LET step(state, depth) ==
            LET group(node) == {n \in state.pending : Qualified(n, depth) = Qualified(node, depth)}
                deeper == {node \in state.pending :
                              /\ group(node) # {node} /\ depth < MaxQualifierDepth
                              /\ \A n \in group(node) : Len(n.containers) > depth}
                named == {[id |-> node.id, label |-> Qualified(node, depth),
                           byId |-> group(node) # {node}] : node \in state.pending \ deeper}
            IN  [pending |-> deeper, named |-> state.named \cup named]
    IN  FoldLeft(step, [pending |-> nodes, named |-> {}],
                 [n \in 1..(Cardinality(nodes) + 1) |-> n - 1]).named

-----------------------------------------------------------------------------
(* The whole of it, for one snapshot, view and disclosure.                        *)

Drawn(model, view, collapsed) ==
    LET base == Base(model, view)
        rows == WithProposed(base.components, ExtraComponents(model, view))
        links == WithProposed(base.relationships, ExtraRelationships(model, view))
        hierarchy == Hierarchy(rows)
        parents == hierarchy.parents
        nodes == Preorder(parents, ByOrder(IdsOf(base.components)) \o ByOrder(IdsOf(rows \ base.components)))
        state == Classify(nodes, parents, collapsed)
    IN  [rows |-> rows, links |-> links, parents |-> parents, nodes |-> nodes, state |-> state,
         diagnostics |-> Diagnostics(model, view, rows, links, hierarchy.cycles),
         edges |-> LiftedEdges(Edges(rows, links, IdsOf(base.relationships)), state.hidden, parents),
         marks |-> Marks(state, parents, model.states)]

-----------------------------------------------------------------------------
(* What it promises, against the containment itself.                              *)

\* Everything below a component, by the containment that is drawn.
Below(parents, id) == {c \in DOMAIN parents : id \in Chain(parents, c)}

\* The containment is the reported one, but for one cut in each cycle.
CyclesAreCutOnce(d) ==
    LET reported == ReportedParents(d.rows)
    IN  \A id \in IdsOf(d.rows) :
            d.parents[id] = IF id \in Chain(reported, id) /\ id = Min(Cycle(reported, id))
                            THEN None ELSE reported[id]

\* Whatever the snapshot reports, cycles, orphans and duplicates included, every
\* component is drawn once, below what contains it, or hidden below exactly one
\* closed container that is drawn; and a closed container shows the most urgent
\* thing that happens anywhere below it (graphProjection.ts:372-441,
\* collapse.ts:136-222).
ComponentsAreAccountedFor(d) ==
    /\ ToSet(d.nodes) = IdsOf(d.rows) /\ Len(d.nodes) = Cardinality(IdsOf(d.rows))
    /\ \A i, j \in DOMAIN d.nodes : d.parents[d.nodes[j]] = d.nodes[i] => i < j
    /\ d.state.closed \cap d.state.hidden = {}
    /\ \A id \in IdsOf(d.rows) :
           Cardinality({c \in d.state.closed : c \in Chain(d.parents, id)})
               = IF id \in d.state.hidden THEN 1 ELSE 0

MarksAreDominant(d, states) ==
    \A id \in d.state.closed : \A c \in Below(d.parents, id) \cup {id} :
        states[c] # None =>
            /\ d.marks[id] # None
            /\ \A i, j \in DOMAIN Precedence :
                   Precedence[i] = d.marks[id] /\ Precedence[j] = states[c] => i <= j

\* Every relationship is drawn on exactly one edge, between what is shown of its
\* two ends, or reported as dangling, or inside of one closed container; one from a
\* component to itself is drawn as long as nothing is closed
\* (graphProjection.ts:471-552, collapse.ts:224-300).
RelationshipsAreAccountedFor(d) ==
    \A link \in d.links :
        LET on == {e \in d.edges : link.id \in e.relationships}
            shownOf(id) == IF id \in d.state.hidden
                           THEN d.state.closed \cap Chain(d.parents, id) ELSE {id}
        IN  IF link \in Dangling(d.rows, d.links) THEN on = {}
            ELSE IF shownOf(link.source) = shownOf(link.target)
                 THEN on = {} \/ (link.source = link.target /\ d.state.hidden = {})
                 ELSE /\ Cardinality(on) = 1
                      /\ \A e \in on : /\ shownOf(link.source) = {e.edge.source}
                                       /\ shownOf(link.target) = {e.edge.target}

\* What is shown has a name of its own, qualified no further than another name forces
\* it to be; the id is spoken only of a node whose containers do not tell it from
\* another one (canvasAccessibility.ts:208-312).
ShownNodes(d, titles) ==
    LET base(id) == <<titles[id], Cardinality(ChildrenOf(d.parents, id))>>
        above(id) == Qualifiers(d.parents, id)
    IN  {[id |-> id, base |-> base(id), containers |-> [k \in DOMAIN above(id) |-> titles[above(id)[k]]]]
            : id \in ToSet(d.nodes) \ d.state.hidden}
NamesIdentify(nodes) ==
    LET names == IdentifyingNames(nodes)
        node(name) == CHOOSE n \in nodes : n.id = name.id
        depth(name) == Len(name.label) - 1
        alike(m, n, k) == Len(m.containers) >= k /\ Qualified(m, k) = Qualified(n, k)
    IN  /\ {name.id : name \in names} = {n.id : n \in nodes}
        /\ Cardinality(names) = Cardinality(nodes)
        /\ \A x, y \in names : x # y => x.label # y.label \/ (x.byId /\ y.byId)
        /\ \A x \in names : LET others == nodes \ {node(x)}
                            IN  /\ depth(x) > 0 =>
                                       \E m \in others : alike(m, node(x), depth(x) - 1)
                                /\ x.byId => \E m, n \in nodes :
                                       /\ m # n /\ node(x) \in {m, n}
                                       /\ alike(n, m, Len(m.containers))

\* The canvas says how many repairs it made, each once: it says none exactly when what it
\* draws is what was reported (graphProjection.ts:214-256, ArchitectureCanvas.tsx:1369).
DefectsAreSaid(model, view, d) ==
    LET reported == ReportedParents(d.rows)
        cycles == {Cycle(reported, id) : id \in IdsOf(d.rows)} \ {{}}
        asGiven(rows, given) == view # None \/ Cardinality(ToSet(given) \cap rows) = Len(given)
    IN  /\ ToSet(d.diagnostics.cycles) = cycles /\ Len(d.diagnostics.cycles) = Cardinality(cycles)
        /\ DiagnosticsCount(d.diagnostics) = 0 <=>
               /\ \A row \in d.rows : d.parents[row.id] = row.parent
               /\ \A link \in d.links : {link.source, link.target} \subseteq IdsOf(d.rows)
               /\ asGiven(d.rows, model.components) /\ asGiven(d.links, model.relationships)

GraphIsWhole(model, view, collapsed) ==
    LET d == Drawn(model, view, collapsed)
    IN  /\ DefectsAreSaid(model, view, d)
        /\ NamesIdentify(ShownNodes(d, model.titles))
        /\ CyclesAreCutOnce(d)
        /\ ComponentsAreAccountedFor(d)
        /\ MarksAreDominant(d, model.states)
        /\ RelationshipsAreAccountedFor(d)

\* A view shows what it selects as the whole model does: of what it includes nothing
\* is orphaned or dangling that was not in the model, and what it names is included,
\* missing, or said to reach over its boundary (resolveArchitectureView.ts:30-72).
ViewStandsAlone(model, view) ==
    LET rows == Latest(model.components)
        v == Resolved(model, view)
    IN  /\ Orphaned(v.components) \subseteq Orphaned(rows)
        /\ Dangling(v.components, v.relationships) = {}
        /\ view.components # Boundless =>
               view.components \subseteq IdsOf(v.components) \cup Missing(model, view)
        /\ \A link \in Latest(model.relationships) :
               (view.relationships = Boundless \/ link.id \in view.relationships) =>
                   link.id \in IdsOf(v.relationships) \cup BoundaryRelationships(model, view)
=============================================================================
