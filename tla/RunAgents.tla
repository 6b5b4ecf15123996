------------------------------ MODULE RunAgents ------------------------------
(* The agents of a run as the left pane lists them: the tree that is made of what *)
(* was reported (runAgents/agentHierarchy.ts), the branches the reader folds, the  *)
(* rows whose details are open, and the filter (runAgents/AgentTree.tsx), while    *)
(* live events bring new reports.                                                   *)
(*                                                                                  *)
(* A report of an agent is [id, parent, work]; the word of its status and its       *)
(* outcome are only told apart by reportedWorkState.  A filter is the set of the    *)
(* agents whose texts contain it, None while it is empty.  work is "ongoing",          *)
(* "settled" or "unreported".                                                         *)
EXTENDS Missing, Listing

CONSTANTS Reports,     \* the answers of the agents query that are explored
          Later,       \* bound: those of them a live event may bring
          Filters,     \* sets of agents
          MaxTouched   \* bound: rows whose details the reader opens or closes

\* An answer is a list of reports, each with an id (api/generated/contract.ts, RunAgent);
\* nothing is assumed of the parents they name, nor that an id is reported once.  A run
\* is opened by an agent (store/projector.go:174), so that none is empty.
ASSUME ReportsAssumption ==
    \A answer \in Reports \cup Later :
        answer # <<>> /\ answer \in Seq(ToSet(answer)) /\ \A r \in ToSet(answer) : r.id # None

VARIABLES agents,       \* the tree of the last answer
          list,         \* what AsyncState renders: "shown", "pending" or "failed"
          folded,       \* collapsedAgentIds of the store, kept over runs and reloads
          overrides,    \* detailOverrides: what the reader opened or closed
          filter

agentVars == <<agents, list, folded, overrides, filter>>

-----------------------------------------------------------------------------
(* buildAgentTree.                                                                *)

\* The first report of every agent; repeated ones are only listed.
FirstReports(reports) ==
    LET isFirst(i) == \A j \in 1..(i - 1) : reports[j].id # reports[i].id
        first == Picked([i \in DOMAIN reports |-> i], {i \in DOMAIN reports : isFirst(i)})
    IN  [i \in DOMAIN first |-> reports[first[i]]]
ReportOf(reports, id) == CHOOSE r \in ToSet(reports) : r.id = id

\* The agents in their order, with the parent and the work they were reported with.
AsReported(reports) ==
    LET ids == {r.id : r \in ToSet(reports)}
    IN  [order |-> [i \in DOMAIN reports |-> reports[i].id],
         reported |-> [id \in ids |-> ReportOf(reports, id).parent],
         work |-> [id \in ids |-> ReportOf(reports, id).work]]

AgentIds(tree) == DOMAIN tree.reported

\* The way up from an agent, n parents far.
Way(above, id, n) ==
    LET way[k \in 0..n] == IF k = 0 THEN id ELSE above[way[k - 1]]
    IN  [k \in 0..n |-> way[k]]

\* The parents that were reported, as far as this run has them.
Upward(tree) ==
    [at \in AgentIds(tree) \cup {None} |->
        IF at # None /\ tree.reported[at] \in AgentIds(tree) THEN tree.reported[at] ELSE None]
WayFrom(tree, id) == Way(Upward(tree), id, Len(tree.order))
StopOf(way, resolved) ==
    Min({k \in DOMAIN way : way[k] \in resolved \cup {None} \/ \E j \in 0..(k - 1) : way[j] = way[k]})

\* Mutant: the walk cuts where it began.
CutStart(way, stop, resolved) ==
    IF way[stop] \in resolved \cup {None} THEN {} ELSE {way[0]}

\* A walk that comes back to a node it is on cuts that node loose.
CutOf(way, stop, resolved) ==
    IF way[stop] \in resolved \cup {None} THEN {} ELSE {way[stop]}

\* findCycleCuts: one walk from each agent that no earlier walk came by.
CycleCuts(tree) ==
    LET walked(state, way, stop) ==
            [cuts |-> state.cuts \cup CutOf(way, stop, state.resolved),
             resolved |-> state.resolved \cup {way[k] : k \in 0..(stop - 1)}]
        walk(state, way) == walked(state, way, StopOf(way, state.resolved))
    IN  FoldLeft(LAMBDA state, start : walk(state, WayFrom(tree, start)),
                 [cuts |-> {}, resolved |-> {}], tree.order).cuts

\* classify.
Attachment(tree, cuts, id) ==
    CASE id \in cuts -> "cycle_broken"
      [] id \notin cuts /\ tree.reported[id] = None -> "root"
      [] id \notin cuts /\ tree.reported[id] \notin AgentIds(tree) \cup {None} -> "orphaned"
      [] OTHER -> "child"

Attached(tree, attachment) ==
    [order |-> tree.order, reported |-> tree.reported, work |-> tree.work, attachment |-> attachment,
     parent |-> [id \in AgentIds(tree) |->
                    IF attachment[id] = "child" THEN tree.reported[id] ELSE None]]
Built(tree, cuts) == Attached(tree, [id \in AgentIds(tree) |-> Attachment(tree, cuts, id)])
Rooted(tree) == Built(tree, CycleCuts(tree))
Tree(reports) == Rooted(AsReported(FirstReports(reports)))

ChildrenIn(tree, id) == {child \in DOMAIN tree.parent : tree.parent[child] = id}

DescendantCount(tree) ==
    LET count[id \in DOMAIN tree.parent] == Counted(count, ChildrenIn(tree, id))
    IN  count

\* What an agent hangs below, up to its root.
AncestorsIn(tree, id) ==
    LET above == [at \in AgentIds(tree) \cup {None} |-> IF at = None THEN None ELSE tree.parent[at]]
        way == Way(above, id, Len(tree.order))
    IN  {way[k] : k \in 1..Len(tree.order)} \ {None}
DepthOf(tree, id) == Cardinality(AncestorsIn(tree, id))

\* branchAgentIds.
Branches(tree) == {id \in DOMAIN tree.parent : ChildrenIn(tree, id) # {}}

\* filterAgentTree: a match, and what it hangs below.
Filtered(tree, matching) ==
    IF matching = None THEN DOMAIN tree.parent
    ELSE {id \in DOMAIN tree.parent :
             id \in matching \/ \E m \in matching \cap DOMAIN tree.parent : id \in AncestorsIn(tree, m)}

\* visibleAgentRows.
VisibleRows(tree, kept, closed) ==
    LET below(id) == Picked(tree.order, kept \cap ChildrenIn(tree, id))
        visit(walk, id, rest) ==
            [stack |-> IF id \in closed THEN rest ELSE below(id) \o rest, rows |-> Append(walk.rows, id)]
        step(walk, n) ==
            IF walk.stack = <<>> THEN walk ELSE visit(walk, Head(walk.stack), Tail(walk.stack))
    IN  FoldLeft(step, [stack |-> below(None), rows |-> <<>>], tree.order).rows

-----------------------------------------------------------------------------
(* AgentTree and its rows.                                                        *)

KeptRows == Filtered(agents, filter)

\* Folding applies to the full tree only.
ClosedIn(tree) == IF filter = None THEN folded \cap Branches(tree) ELSE {}
Closed == ClosedIn(agents)
ShownOf(tree) == VisibleRows(tree, Filtered(tree, filter), ClosedIn(tree))
Shown == ShownOf(agents)

ByReport(tree, id) == tree.work[id] = "ongoing"
DetailOpen(id) == IF id \in DOMAIN overrides THEN overrides[id] ELSE ByReport(agents, id)

\* AgentTreeItem: the indent, the notes of a broken report, and on a folded row how
\* many agents it stands for.
Row(id) ==
    [depth |-> DepthOf(agents, id), attachment |-> agents.attachment[id],
     hidden |-> IF id \in Closed THEN DescendantCount(agents)[id] ELSE 0,
     open |-> DetailOpen(id)]

\* The button of a row that has children.
ToggleCollapsed(id) ==
    /\ list = "shown" /\ id \in ToSet(Shown)
    /\ ChildrenIn(agents, id) \cap KeptRows # {}
    /\ folded' = IF id \in folded THEN folded \ {id} ELSE folded \cup {id}
    /\ UNCHANGED <<agents, list, overrides, filter>>

\* All branches of the tree, whatever the filter shows of them.
ToggleAll ==
    LET branches == Branches(agents)
    IN  /\ list = "shown" /\ branches # {}
        /\ folded' = IF branches \subseteq folded THEN folded \ branches ELSE folded \cup branches
        /\ UNCHANGED <<agents, list, overrides, filter>>

ToggleDetail(id) ==
    /\ list = "shown" /\ id \in ToSet(Shown)
    /\ Cardinality(DOMAIN overrides \cup {id}) <= MaxTouched
    /\ overrides' = [a \in DOMAIN overrides \cup {id} |-> IF a = id THEN ~DetailOpen(id) ELSE overrides[a]]
    /\ UNCHANGED <<agents, list, folded, filter>>

SetFilter(matching) ==
    /\ list = "shown"
    /\ filter' = matching
    /\ UNCHANGED <<agents, list, folded, overrides>>

\* Mutant: the list is mounted anew for every answer.
Remount(answer) ==
    /\ agents' = Tree(answer) /\ list' = "shown"
    /\ overrides' = <<>> /\ filter' = None
    /\ UNCHANGED folded

\* The agents were read: after a live event, for a run that has just been chosen, or
\* once more after a read that failed.
Refetch(answer) ==
    /\ agents' = Tree(answer) /\ list' = "shown"
    /\ UNCHANGED <<folded, overrides, filter>>

\* AsyncState renders no list, and what AgentTree keeps goes with it.
Unmount(state) ==
    /\ list' = state /\ overrides' = <<>> /\ filter' = None
    /\ UNCHANGED folded

\* A read fails, also one a live event made: the cache keeps its last answer, but the
\* list makes room for the error.
RefetchFails ==
    /\ list # "failed"
    /\ Unmount("failed")
    /\ UNCHANGED agents

\* Another run: its agents are cached, or are to be read first.
ShowRun ==
    \/ \E answer \in Later : Refetch(answer)
    \/ Unmount("pending") /\ UNCHANGED agents

AgentsInit ==
    /\ agents \in {Tree(answer) : answer \in Reports} /\ list = "shown"
    /\ folded = {} /\ overrides = <<>> /\ filter = None

AgentsNext ==
    \/ \E id \in AgentIds(agents) : ToggleCollapsed(id) \/ ToggleDetail(id)
    \/ ToggleAll
    \/ \E matching \in Filters \cup {None} : SetFilter(matching)
    \/ \E answer \in Later : Refetch(answer)
    \/ RefetchFails
    \/ ShowRun

AgentsSpec == AgentsInit /\ [][AgentsNext]_agentVars

-----------------------------------------------------------------------------
(* Properties.                                                                    *)

\* Every row stands below its parent; who has none is counted by one folded row.
RowsAreWhole(rows, rowOf) ==
    /\ \A i, j \in DOMAIN rows : i # j => rows[i] # rows[j]
    /\ \A i \in DOMAIN rows : rowOf[i].attachment = "child" =>
           \E j \in 1..(i - 1) : /\ rows[j] = agents.reported[rows[i]]
                                 /\ rowOf[i].depth = rowOf[j].depth + 1
    /\ \A id \in AgentIds(agents) :
           LET standsFor == {i \in DOMAIN rows : rows[i] \in Closed \cap AncestorsIn(agents, id)}
           IN  IF filter = None
               THEN Cardinality(standsFor) = (IF id \in ToSet(rows) THEN 0 ELSE 1)
               ELSE id \in ToSet(rows) <=>
                        \E m \in filter \cap AgentIds(agents) : id \in AncestorsIn(agents, m) \cup {m}
    /\ filter = None => Counted([i \in DOMAIN rows |-> rowOf[i].hidden], DOMAIN rows) = Cardinality(AgentIds(agents))

\* Who stands above themselves stands on a cycle.
CyclesAreCut(above) ==
    \A cycle \in {c \in Range(above) : None \notin c /\ \A m \in c : above[m] = c} :
        Cardinality({m \in cycle : agents.attachment[m] = "cycle_broken"}) = 1

\* Whatever was reported, cycles, unknown parents and repeated ids included, and
\* whatever is folded: every agent has one row, below its parent, or is counted by
\* exactly one folded row that is shown; a filter shows the matches, each below all
\* of its parents; and a cycle of parents is cut at one of its members
\* (agentHierarchy.ts:66-298, AgentTree.tsx:62-73).
AgentsAreAccountedFor ==
    /\ \A rows \in {Shown} : RowsAreWhole(rows, [i \in DOMAIN rows |-> Row(rows[i])])
    /\ CyclesAreCut([id \in AgentIds(agents) |-> Range(WayFrom(agents, id))])

\* One row, which opens or closes and stays as its reader has it.
ClickedOn(id) ==
    /\ agents = agents' /\ id \in DOMAIN overrides'
    /\ \A row \in AgentIds(agents) : DetailOpen(row)' # DetailOpen(row) <=> row = id

\* A new report of an agent whose row nobody has touched.
ReportedAnew(id) == id \notin DOMAIN overrides \cup DOMAIN overrides' /\ ByReport(agents, id) # ByReport(agents', id)

\* A row that can be seen is still there, as far as it hangs below whom it did.
StaysVisible ==
    \A id \in ToSet(Shown) \cap AgentIds(agents') :
        AncestorsIn(agents, id) = AncestorsIn(agents', id) => id \in ToSet(ShownOf(agents'))

RowFollows ==
    /\ agents # agents' \/ list # list' => folded = folded'
    /\ list = "shown" /\ list' = "shown" =>
           /\ DOMAIN overrides \subseteq DOMAIN overrides'
           /\ overrides # overrides' => \E id \in ToSet(Shown) : ClickedOn(id)
           /\ \A id \in AgentIds(agents) \cap AgentIds(agents') :
                  DetailOpen(id)' # DetailOpen(id) => ClickedOn(id) \/ ReportedAnew(id)
           /\ agents # agents' => filter = filter' /\ (filter = None => StaysVisible)

\* While the list is rendered, whatever is read meanwhile and whichever run it is of: the
\* details of a row open and close when its reader says so and at no other row, or to
\* follow a new report of an agent nobody has touched; what the reader has touched stays
\* touched; and an answer takes no row away that can be seen, unless its agent or whom it
\* hangs below has changed (AgentTree.tsx:33-50).  A read that fails ends that: it
\* unmounts the list, with what was opened in it and the filter (AsyncState.tsx:68).
RowsFollowTheirReader == [][RowFollows]_agentVars
=============================================================================
