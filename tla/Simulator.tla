------------------------------ MODULE Simulator ------------------------------
(* The simulator (simulator/src/runner.ts): it posts the steps of a scenario one  *)
(* by one, compares every answer with what the scenario expects, and stops at the *)
(* first that differs.  The server it talks to takes an event in by the rules of  *)
(* RunLifecycle and of ArchitectureModel, and recognises a repeated event by its  *)
(* id and content (EventLog).  Executions follow one another in one project.      *)
EXTENDS Missing, ScenarioFull, ScenarioSelf, FiniteSets

CONSTANTS Executions,      \* [scenario, run, seed, finish]: what may be launched
          MaxExecutions,   \* bound: executions in all
          Fragile          \* bound: the steps whose call may stay unanswered

Actors == DOMAIN FullAgents \cup DOMAIN SelfAgents

\* The null of an event names no agent (sequence.ts:18); an execution is of one of
\* the scenarios (scenarios/index.ts:13-57).
ASSUME SimulatorAssumption ==
    /\ Nobody \notin Actors
    /\ \A execution \in Executions : execution.scenario \in {"full", "self", "retry", "conflict"}

VARIABLE simulation

simulationVars == <<simulation>>

-----------------------------------------------------------------------------
(* What can be sent (scenarios/index.ts, retry.ts, conflict.ts).                  *)

Probe == <<StartedRoot("root"), Status("root")>>
ProbeAgents == [root |-> Nobody]
RetrySteps(execution) == EmitRetryOf(Emit(execution, ProbeAgents, Probe), 2)
ConflictSteps(execution) ==
    EmitConflictWith(Emit(execution, ProbeAgents, Probe), 2, Status("root") @@ [status |-> "blocked"])

OpenScript == FullScript(FALSE)
FinishedScript == FullScript(TRUE)

StepsOf(execution) ==
    CASE execution.scenario = "full" ->
             Emit(execution, FullAgents, IF execution.finish THEN FinishedScript ELSE OpenScript)
      [] execution.scenario = "self" -> Emit(execution, SelfAgents, SelfScript)
      [] execution.scenario = "retry" -> RetrySteps(execution)
      [] execution.scenario = "conflict" -> ConflictSteps(execution)

-----------------------------------------------------------------------------
(* The server, by the rows its log stands for.                                    *)

Log == simulation.log
Events(run, type) == {e \in {Log[i].event : i \in DOMAIN Log} : e.run = run /\ e.body.type = type}
RunIds == {execution.run : execution \in Executions}
Works == {"map", "extract", "review", "tests", "contract", "platform", "store", "shell", "backendApi",
          "simulator", "canvas", "panes", "types", "docs", "acceptance", "align"}

RowOf(run, agent) ==
    LET rows == {e \in Events(run, "agent.started") : e.body.agent = agent}
    IN  IF rows = {} THEN None ELSE CHOOSE row \in rows : TRUE
RootOf(run) ==
    LET roots == {e \in Events(run, "agent.started") : e.parent = Nobody}
    IN  IF roots = {} THEN Nobody ELSE (CHOOSE e \in roots : TRUE).body.agent
OwnerOf(run, work) ==
    LET rows == {e \in Events(run, "work.step_started") : e.body.work = work}
    IN  IF rows = {} THEN Nobody ELSE (CHOOSE e \in rows : TRUE).body.agent

\* Only what the guards of the lifecycle read; its history plays no part.
Lifecycle == INSTANCE RunLifecycle WITH
    Runs <- RunIds, Agents <- Actors, Steps <- Works, NoRun <- None, MaxEvents <- 0,
    head <- Len(Log), currentRun <- None,
    root <- [r \in RunIds |-> RootOf(r)],
    open <- [r \in RunIds |-> Events(r, "run.finished") = {}],
    started <- [r \in RunIds |-> {e.body.agent : e \in Events(r, "agent.started")}],
    parent <- [r \in RunIds |-> [a \in Actors |->
                  IF RowOf(r, a) = None THEN Nobody ELSE RowOf(r, a).parent]],
    role <- [r \in RunIds |-> [a \in Actors |->
                  IF RowOf(r, a) = None THEN "worker" ELSE RowOf(r, a).body.role]],
    owner <- [r \in RunIds |-> [w \in Works |-> OwnerOf(r, w)]],
    done <- [r \in RunIds |-> {e.body.work : e \in Events(r, "work.step_completed")}],
    reported <- None, since <- None, lastOpened <- None, closer <- None, completer <- None

Places(first, second, third, fourth) == first @@ second @@ third @@ fourth
ComponentIds == DOMAIN Places(FullComponents, FullExtraComponents, SelfComponents, SelfExtraComponents)
RelationshipIds ==
    DOMAIN Places(FullRelationships, FullExtraRelationships, SelfRelationships, SelfExtraRelationships)
Rows(ids, rows) == [id \in ids |-> IF id \in DOMAIN rows THEN rows[id] ELSE None]

Model == INSTANCE ArchitectureModel WITH
    Components <- ComponentIds, Relationships <- RelationshipIds, Agents <- {}, Absent <- None,
    NoAgent <- None, MaxRevision <- 0,
    parent <- Rows(ComponentIds, simulation.parents), ends <- Rows(RelationshipIds, simulation.ends),
    identities <- simulation.identities,
    revision <- 0, readAt <- <<>>, used <- {}, behind <- {}, writer <- None

Placed(rows, body) ==
    IF body.operation = "remove" THEN [id \in DOMAIN rows \ {body.target} |-> rows[id]]
    ELSE (body.target :> body.place) @@ rows
ParentsAfter(body) ==
    CASE body.type = "architecture.snapshot_published" -> body.parents
      [] body.type = "component.change_applied" -> Placed(simulation.parents, body)
      [] OTHER -> simulation.parents
EndsAfter(body) ==
    CASE body.type = "architecture.snapshot_published" -> body.ends
      [] body.type = "relationship.change_applied" -> Placed(simulation.ends, body)
      [] OTHER -> simulation.ends

\* A write of the model leaves no defect and brings no removed id back.
ModelAccepts(body) ==
    LET parents == Rows(ComponentIds, ParentsAfter(body))
        ends == Rows(RelationshipIds, EndsAfter(body))
    IN  /\ Model!NoDiagnostics(parents, ends)
        /\ Model!Live(parents, ends)
               \cap Model!Retired(Rows(ComponentIds, simulation.parents),
                                  Rows(RelationshipIds, simulation.ends)) = {}

\* checkLifecycle, by the type of the event.
Admitted(event) ==
    LET run == event.run
        agent == event.body.agent
    IN  CASE event.body.type = "agent.started" ->
                 IF event.body.role = "orchestrator" /\ event.parent = Nobody
                 THEN ~Lifecycle!Opened(run)
                 ELSE /\ Lifecycle!AcceptsWork(run)
                      /\ RowOf(run, agent) = None
                      /\ Lifecycle!KnownParent(run, event.parent)
          [] OTHER ->
                 /\ Lifecycle!Registered(run, agent)
                 /\ RowOf(run, agent).parent = event.parent
                 /\ event.body.type \in {"correction.issued", "retraction.issued"} =>
                        \E i \in DOMAIN Log : Log[i].event.body = event.body.about
                 /\ event.body.type \in {"correction.issued", "retraction.issued"}
                        \/ Lifecycle!AcceptsWork(run)
                 /\ event.body.type = "work.step_started" => OwnerOf(run, event.body.work) = Nobody
                 /\ event.body.type = "work.step_completed" =>
                        /\ Lifecycle!Owns(run, agent, event.body.work)
                        /\ event.body.work \notin
                               {e.body.work : e \in Events(run, "work.step_completed")}
                 /\ event.body.type = "run.finished" => Lifecycle!IsRunOrchestrator(run, agent)
                 /\ event.body.type \in {"architecture.snapshot_published", "component.change_applied",
                                         "relationship.change_applied"} => ModelAccepts(event.body)

Reply(event) ==
    LET known == {i \in DOMAIN Log : Log[i].event.id = event.id}
    IN  IF known # {} THEN IF \A i \in known : Log[i].event = event THEN 200 ELSE 409
        ELSE IF Admitted(event) THEN 201 ELSE 422

Stored(event) ==
    IF Reply(event) # 201 THEN simulation
    ELSE [simulation EXCEPT
            !.log = Append(@, [event |-> event, by |-> simulation.number]),
            !.parents = ParentsAfter(event.body), !.ends = EndsAfter(event.body),
            !.identities = @ \cup DOMAIN ParentsAfter(event.body) \cup DOMAIN EndsAfter(event.body)]

-----------------------------------------------------------------------------
(* runScenario.                                                                   *)

Running == simulation.outcome = "running"
NextStep == simulation.steps[simulation.at]

\* Mutant: an accepted delivery is as good as a first one.
AnySuccess(step, answer) == answer = step.expect \/ {answer, step.expect} \subseteq {200, 201}

\* assertStatus and assertIdempotency.
AsExpected(step, answer) == answer = step.expect

Launch(execution) ==
    /\ ~Running
    /\ simulation.number < MaxExecutions
    /\ simulation' = [simulation EXCEPT !.execution = execution, !.steps = StepsOf(execution), !.at = 1,
                                        !.number = @ + 1, !.outcome = "running"]

Post ==
    /\ Running
    /\ LET last == simulation.at = Len(simulation.steps)
           expected == AsExpected(NextStep, Reply(NextStep.event))
       IN  simulation' = [Stored(NextStep.event) EXCEPT
               !.at = IF expected /\ ~last THEN @ + 1 ELSE @,
               !.outcome = IF ~expected THEN "refused" ELSE IF last THEN "completed" ELSE @]

\* The call fails before the request arrived, or after its event was stored.
Unanswered ==
    /\ Running
    /\ simulation.at \in Fragile
    /\ \E after \in {simulation, Stored(NextStep.event)} :
           simulation' = [after EXCEPT !.outcome = "unanswered"]

SimulationInit ==
    simulation = [log |-> <<>>, parents |-> <<>>, ends |-> <<>>, identities |-> {},
                  execution |-> None, steps |-> <<>>, at |-> 0, number |-> 0, outcome |-> "none"]

SimulationNext ==
    \/ \E execution \in Executions : Launch(execution)
    \/ Post
    \/ Unanswered

SimulationSpec == SimulationInit /\ [][SimulationNext]_simulationVars

-----------------------------------------------------------------------------
(* Properties.                                                                    *)

\* Sent to an empty project, every event of every scenario is answered as the
\* scenario expects: the scripts are "a runnable order" for the lifecycle and for
\* the model, which refuses every write that leaves a defect (full.ts:4-9).
AnswersAreExpected == simulation.number = 1 => simulation.outcome # "refused"

\* Whatever was interrupted, repeated, seeded or named differently before, the
\* events of a run come from one execution: none is continued, doubled or mixed by
\* another (README.md of the simulator, "All four expect an empty project").
RunIsOneExecution ==
    Cardinality({<<Log[i].event.run, Log[i].by>> : i \in DOMAIN Log})
        = Cardinality({Log[i].event.run : i \in DOMAIN Log})

\* The bodies of a run in their order.
BodiesOf(run) ==
    LET own == SelectSeq(Log, LAMBDA stored : stored.event.run = run)
    IN  [i \in DOMAIN own |-> own[i].event.body]
Indexes(told, types) == {i \in DOMAIN told : told[i].type \in types}

AgentsFinish(told) ==
    LET ends == Indexes(told, {"agent.finished"})
    IN  /\ \A i \in Indexes(told, {"agent.started"}) :
               told[i].role = "worker" => \E j \in ends : told[j].agent = told[i].agent
        /\ \A j \in ends, i \in DOMAIN told : told[i].agent = told[j].agent => i <= j

WorkIsDone(told, plan) ==
    \A i \in Indexes(told, {"work.step_started"}) :
        /\ \E j \in Indexes(told, {"work.step_completed"}) : j > i /\ told[j].work = told[i].work
        /\ told[i].step \in {plan.steps[k][1] : k \in DOMAIN plan.steps} \cup {""}

\* By the last revision, and the updates that came after it.
PlanIsDone(told, plan, published) ==
    \A k \in DOMAIN plan.steps :
        LET updates == {i \in Indexes(told, {"plan.step_updated"}) :
                            i > published /\ told[i].step = plan.steps[k][1]}
        IN  (IF updates = {} THEN plan.steps[k][2] ELSE told[Max(updates)].state) \in {"done", "skipped"}

ChangesAreResolved(told) ==
    LET planned == Indexes(told, {"component.change_planned", "relationship.change_planned"})
        applied == Indexes(told, {"component.change_applied", "relationship.change_applied"})
        withdrawn == {told[i].about : i \in Indexes(told, {"retraction.issued"})}
        appliesOf(i) == {j \in applied : told[j].change = told[i].change /\ told[j].target = told[i].target}
    IN  /\ \A j \in applied : \E i \in planned :
               i < j /\ j \in appliesOf(i) /\ told[i].operation = told[j].operation
                     /\ told[i].place = told[j].place /\ told[i] \notin withdrawn
        /\ \E i \in planned : appliesOf(i) = {} /\ told[i] \notin withdrawn
        /\ Cardinality(withdrawn) = 1

NamedComponents(told) == UNION {told[i].components : i \in {k \in DOMAIN told : "components" \in DOMAIN told[k]}}

\* A completed demonstration tells its story to the end, as its last notes say:
\* every subagent has finished and reported nothing after that, every step of work
\* and of the plan is done, changes are applied as planned, one is withdrawn and at
\* least one left open, and whatever is named was once part of the model or
\* proposed (full.ts:480-530, self.ts:893-920).
StoryIsWhole ==
    simulation.outcome = "completed" /\ simulation.execution.scenario \in {"full", "self"} =>
        LET told == BodiesOf(simulation.execution.run)
            published == Max(Indexes(told, {"plan.published"}))
        IN  /\ AgentsFinish(told)
            /\ WorkIsDone(told, told[published])
            /\ PlanIsDone(told, told[published], published)
            /\ ChangesAreResolved(told)
            /\ NamedComponents(told) \subseteq
                   simulation.identities \cup
                   {told[i].target : i \in Indexes(told, {"component.change_planned"})}

\* The server accepts every step the way its scenario expects, and a completed
\* demonstration leaves no agent, step or plan open and has resolved its changes as it
\* says (runner.ts:103-214, full.ts:480-530, self.ts:893-920).
ScenariosRun == AnswersAreExpected /\ StoryIsWhole
=============================================================================
