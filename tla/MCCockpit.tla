------------------------------ MODULE MCCockpit ------------------------------
(* The parts of the cockpit that share no state, one after the other: each behaviour *)
(* takes one part, whose variables alone change.  The panes, the canvas, the read cache,*)
(* the canvas views, the agents and the simulator are modules this one extends, since   *)
(* theorems are proved of them; the others are its instances.                           *)
EXTENDS Panes, Canvas, QueryCache, CanvasViews, RunAgents, Inspector, Simulator, TLC

CONSTANTS Boundless, Nowhere, Tools, Outside, a, b

VARIABLES part, keyboard, input

-----------------------------------------------------------------------------
(* The values the parts are explored with.                                         *)

MCEvent(type) == [type |-> type, run |-> "r"]
MCNamed(type, names) == MCEvent(type) @@ [names |-> names]
MCEvents ==
    {MCEvent(t) : t \in {"model.mutation_applied", "run.finished"}}
        \cup {MCNamed("work.step_started", {"c1", "c2"}),
              MCEvent("correction.issued")
                  @@ [corrected |-> MCNamed("relationship.change_planned", {"c1", "c2"})]}

\* Live updates on a surface that is mounted once, and a surface that goes on settling.
MCParent == a :> None @@ b :> a
MCModels == {{a}, {a, b}}
Settling == INSTANCE Canvas WITH
    Components <- {a}, Unknown <- b, Parent <- a :> None, Models <- {{}, {a}}, Sizes <- {1, 2}

MCDefaults == "saved" :> {"c"}
MCFoldings == {{}}

\* Boxes 1 to 4: three nested ones and another, one of them moved, and one alone.
MCProjection(nodes, parents) == [nodes |-> nodes, parents |-> parents]
MCProjections ==
    {MCProjection(<<1, 2, 3, 4>>, <<None, 1, 2, None>>), MCProjection(<<1, 2, 4, 3>>, <<None, 1, 4, None>>),
     MCProjection(<<4>>, 4 :> None)}
MCBox(x, y, w, h) == [x |-> x, y |-> y, w |-> w, h |-> h]
\* What fits the surface, and what does not: a container wider than it, and one below it.
MCPlacements ==
    {<<MCBox(0, 0, 308, 300), MCBox(40, 60, 260, 200), MCBox(16, 50, 228, 96), MCBox(700, 0, 260, 176)>>,
     <<MCBox(0, 900, 1300, 300), MCBox(40, 60, 260, 200), MCBox(16, 50, 228, 96), MCBox(0, 0, 260, 176)>>}
Keyboard == INSTANCE CanvasKeyboard WITH
    Models <- MCProjections, Placements <- MCPlacements, Cameras <- {},
    SurfaceSize <- 880, Gap <- 40, MaxChanges <- 2

\* Their calls may stay unanswered at the first steps, at one in the middle, and at the
\* last ones of each script (Fragile in the configuration).
MCExecution(scenario, name, seed, finish) ==
    [scenario |-> scenario, run |-> name, seed |-> seed, finish |-> finish]
MCExecutions ==
    {MCExecution(s, s, 1, FALSE) : s \in {"full", "self", "retry", "conflict"}}
        \cup {MCExecution("full", "full", 1, TRUE), MCExecution("full", "full", 2, FALSE),
              MCExecution("full", "again", 1, FALSE)}

MCReport(id, parent, work) == [id |-> id, parent |-> parent, work |-> work]
MCLater ==
    {<<MCReport("a", None, "ongoing"), MCReport("b", "a", "settled")>>,
     <<MCReport("a", None, "settled"), MCReport("b", "c", "ongoing"), MCReport("c", "b", "unreported")>>}
\* Every way in which three agents may name each other, nobody or a stranger.
MCReports ==
    {<<MCReport("a", f["a"], "settled"), MCReport("b", f["b"], "settled"), MCReport("c", f["c"], "ongoing")>> :
         f \in [{"a", "b", "c"} -> {None, "a", "b", "c", "x"}]}
    \cup MCLater
    \cup {<<MCReport("a", None, "ongoing"), MCReport("b", "a", "unreported"),
            MCReport("a", "b", "settled"), MCReport("c", "b", "ongoing")>>}
MCFilters == {{"c"}}

MCItem(kind, id, agent, change) ==
    [kind |-> kind, id |-> id, agent |-> agent, change |-> change, target |-> None, names |-> TRUE]
MCReported == {<<MCItem("diff", 1, "a", "c"), MCItem("diff", 2, "b", "c"), MCItem("feedback", 3, "a", None)>>}

Graph == INSTANCE ArchitectureGraph
MCRow(id, parent) == [id |-> id, parent |-> parent]
MCLink(id, source, target) == [id |-> id, source |-> source, target |-> target]
MCView(components, relationships) ==
    [components |-> components, relationships |-> relationships, collapsed |-> {2, 7}]
\* Three components under every assignment of parents, one that nobody reported among
\* them, and a component that was reported twice.
MCRows ==
    {<<MCRow(1, f[1]), MCRow(2, f[2]), MCRow(3, f[3])>> : f \in [1..3 -> {None, 1, 2, 3, 7}]}
        \cup {<<MCRow(2, 1), MCRow(1, p), MCRow(3, 1), MCRow(1, 3)>> : p \in {None, 3}}
MCLinks ==
    {<<MCLink(11, 1, 2), MCLink(12, 3, 2), MCLink(13, 2, 1), MCLink(14, 3, 7), MCLink(12, 2, 3)>>,
     <<MCLink(11, 2, 2), MCLink(12, 3, 1), MCLink(13, 3, 1)>>}
MCViews == {None, MCView(Boundless, Boundless), MCView({3}, {11, 12}), MCView({2, 3, 4, 7}, {12, 21})}
MCOverlays ==
    {[extras |-> {}, extraLinks |-> {}, states |-> <<None, "planned", "active", None>>,
      titles |-> <<1, 1, 1, 1>>],
     [extras |-> {MCRow(4, 3), MCRow(1, 2)}, titles |-> <<1, 2, 1, 2>>,
      extraLinks |-> {MCLink(21, 3, 4), MCLink(22, 1, 3), MCLink(11, 3, 3)},
      states |-> <<"recently_applied", None, "planned", "removed">>]}
MCCollapsed == {{}, {1}, {3}, {1, 2}, {2, 3}}

Diffs == INSTANCE UnifiedDiff
\* Hunks of up to two lines of every kind, and one that leaves out what stays.
MCHunks(old, new) == {Diffs!Hunk(old, new, lines) : lines \in Diffs!SeqOf(Diffs!EditLines, 2)}
MCPaths == {<<"f", "f">>, <<"/dev/null", "f">>, <<"f", "/dev/null">>}

-----------------------------------------------------------------------------
(* The variables of every part, where its module leaves them while another part    *)
(* is explored.                                                                     *)

CanvasRests == canvas = Mounted({}, FALSE, FALSE)
CacheRests == CacheInit /\ read = ProjectDetail
KeyboardRests == keyboard = None
GraphRests == input = None
AgentsRest == agents = Tree(<<>>) /\ list = "shown" /\ folded = {} /\ overrides = <<>> /\ filter = None
InspectorRests == Opened(<<>>)

\* A graph is drawn of what was reported, in every view, disclosure and overlay.
Draw ==
    /\ input.stage = "reported"
    /\ \E links \in MCLinks, seen \in MCViews, overlay \in MCOverlays, collapsed \in MCCollapsed :
           input' = [stage |-> "drawn", view |-> seen, collapsed |-> collapsed,
                     model |-> [components |-> input.rows, relationships |-> links] @@ overlay]

\* A diff of two hunks is read.
ReadDiff ==
    /\ input.stage = "hunk"
    /\ \E hunk \in MCHunks(7, 8), paths \in MCPaths, trailer \in {<<>>, <<Diffs!Text("index ")>>} :
           input' = [stage |-> "read", old |-> paths[1], new |-> paths[2], trailer |-> trailer,
                     hunks |-> <<input.hunk, hunk>>]

-----------------------------------------------------------------------------

Parts ==
    {"panes", "canvas", "surface", "keyboard", "simulation", "graph", "diff", "agents", "cache",
     "inspector", "views"}

Init ==
    /\ part \in Parts
    /\ PanesInit /\ ViewsInit /\ SimulationInit
    /\ IF part = "canvas" THEN CanvasInit
       ELSE IF part = "surface" THEN Settling!CanvasInit ELSE CanvasRests
    /\ IF part = "keyboard" THEN Keyboard!KeyboardInit ELSE KeyboardRests
    /\ IF part = "graph" THEN input \in {[stage |-> "reported", rows |-> rows] : rows \in MCRows}
       ELSE IF part = "diff" THEN input \in {[stage |-> "hunk", hunk |-> hunk] : hunk \in MCHunks(1, 1)}
       ELSE GraphRests
    /\ IF part = "agents" THEN AgentsInit ELSE AgentsRest
    /\ IF part = "cache" THEN CacheInit ELSE CacheRests
    /\ IF part = "inspector" THEN InspectorInit ELSE InspectorRests

\* The part that is explored makes its steps; the variables of the others rest.
Only(p) ==
    /\ part = p /\ UNCHANGED part
    /\ IF p = "panes" THEN TRUE ELSE UNCHANGED paneVars
    /\ IF p \in {"canvas", "surface"} THEN TRUE ELSE UNCHANGED canvasVars
    /\ IF p = "keyboard" THEN TRUE ELSE UNCHANGED keyboard
    /\ IF p = "simulation" THEN TRUE ELSE UNCHANGED simulation
    /\ IF p \in {"graph", "diff"} THEN TRUE ELSE UNCHANGED input
    /\ IF p = "agents" THEN TRUE ELSE UNCHANGED agentVars
    /\ IF p = "cache" THEN TRUE ELSE UNCHANGED cacheVars
    /\ IF p = "inspector" THEN TRUE ELSE UNCHANGED inspectorVars
    /\ IF p = "views" THEN TRUE ELSE UNCHANGED viewVars

Next ==
    \/ Only("panes") /\ PanesNext
    \/ Only("canvas") /\ CanvasNext
    \/ Only("surface") /\ Settling!CanvasNext
    \/ Only("keyboard") /\ Keyboard!KeyboardNext
    \/ Only("simulation") /\ SimulationNext
    \/ Only("graph") /\ Draw
    \/ Only("diff") /\ ReadDiff
    \/ Only("agents") /\ AgentsNext
    \/ Only("cache") /\ CacheNext
    \/ Only("inspector") /\ InspectorNext
    \/ Only("views") /\ ViewsNext

vars == <<part, paneVars, canvasVars, cacheVars, viewVars, agentVars, inspectorVars, keyboard,
          simulation, input>>

Spec == Init /\ [][Next]_vars

-----------------------------------------------------------------------------
(* The properties of each part, where that part is explored.  Those of the modules  *)
(* that are extended hold of a part that rests, too.                                 *)

\* CanvasKeyboard: what live events do to the graph takes the focus from nobody and
\* leaves nobody nowhere (ArchitectureCanvas.tsx:852-905, cameraPolicy.ts:223-241).
KeyboardKeepsItsPlace == [][part = "keyboard" => Keyboard!PlaceIsKept]_vars

\* ArchitectureGraph: every reported component and relationship is drawn or counted
\* once, what is drawn has a name of its own, a view shows what it would if nothing else
\* were reported, and every repair of the hierarchy is said
\* (graphProjection.ts:214-625, collapse.ts:136-368, canvasAccessibility.ts:208-312,
\* resolveArchitectureView.ts:19-72, ArchitectureCanvas.tsx:1369).  UnifiedDiff: a diff
\* shows what was edited (unifiedDiff.ts:2-10).
InputIsShownWhole ==
    /\ part = "graph" /\ input.stage = "drawn" =>
           /\ Graph!GraphIsWhole(input.model, input.view, input.collapsed)
           /\ input.view # None => Graph!ViewStandsAlone(input.model, input.view)
    /\ part = "diff" /\ input.stage = "read" =>
           Diffs!ShowsTheEdit(input.old, input.new, input.hunks, input.trailer)
=============================================================================
