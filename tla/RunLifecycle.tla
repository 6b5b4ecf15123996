----------------------------- MODULE RunLifecycle -----------------------------
(* The runs of one project, their agents and their work steps: which event the  *)
(* ingestion accepts (backend/internal/ingest/lifecycle.go checkLifecycle and   *)
(* backend/internal/store/work.go ValidateWork) and what the projector makes of *)
(* it (backend/internal/store/projector.go).  The guard and the projection run  *)
(* inside one append transaction under the project row lock (EventLog), so an   *)
(* accepted event is one step here; a rejected one changes nothing.             *)
EXTENDS Integers

CONSTANTS
    Runs,          \* run ids
    Agents,        \* agent ids
    Steps,         \* work step ids
    Nobody,        \* no agent: the parent of a root, the root of a run not opened
    NoRun,         \* the project has no current run
    MaxEvents      \* bound: events accepted in all

ASSUME LifecycleAssumption ==
    /\ Nobody \notin Agents
    /\ NoRun \notin Runs
    /\ MaxEvents \in Nat

Roles == {"orchestrator", "worker"}

\* What an agent reports about itself, each in a column of its own.
Columns == {"status", "progress", "outcome"}

VARIABLES
    head,          \* Project.LastPosition
    currentRun,    \* Project.CurrentRunID
    root,          \* Run.RootAgentID, Nobody while the run was not opened
    open,          \* Run.IsOpen
    started,       \* the agents of each run: those that have a row
    parent,        \* Agent.ParentAgentID
    role,          \* Agent.Role
    reported,      \* the columns of an agent that were written
    owner,         \* WorkStep.AgentID, Nobody while there is no such step
    done,          \* the steps with a CompletedAt
    \* history
    since,         \* the position of the event an agent was introduced by
    lastOpened,    \* the run that was opened last
    closer,        \* the agent whose event closed the run
    completer      \* the agent whose event completed the step

runVars == <<currentRun, root, open>>
agentVars == <<started, parent, role, reported>>
stepVars == <<owner, done>>
history == <<since, lastOpened, closer, completer>>
vars == <<head, runVars, agentVars, stepVars, history>>

Init ==
    /\ head = 0
    /\ currentRun = NoRun
    /\ root = [r \in Runs |-> Nobody]
    /\ open = [r \in Runs |-> TRUE]
    /\ started = [r \in Runs |-> {}]
    /\ parent = [r \in Runs |-> [a \in Agents |-> Nobody]]
    /\ role = [r \in Runs |-> [a \in Agents |-> "worker"]]
    /\ reported = [r \in Runs |-> [a \in Agents |-> {}]]
    /\ owner = [r \in Runs |-> [s \in Steps |-> Nobody]]
    /\ done = [r \in Runs |-> {}]
    /\ since = [r \in Runs |-> [a \in Agents |-> 0]]
    /\ lastOpened = NoRun
    /\ closer = [r \in Runs |-> Nobody]
    /\ completer = [r \in Runs |-> [s \in Steps |-> Nobody]]

-----------------------------------------------------------------------------
(* The rules an event is checked against.                                       *)

Opened(r) == root[r] # Nobody

\* Mutant: a finished run goes on accepting work.
OpenedOnce(r) == Opened(r)

\* isWorkEvent: only corrections and retractions enter a finished run.
AcceptsWork(r) == Opened(r) /\ open[r]

\* Mutant: an agent may name a parent that never started.
AnyParent(r, p) == p # Nobody

\* A subagent names an agent of its run as its parent.
KnownParent(r, p) == p # Nobody /\ p \in started[r]

\* Every event but an agent.started comes from a registered agent, and names the
\* parent that agent was registered with.
Registered(r, a) ==
    /\ Opened(r)
    /\ a \in started[r]
    /\ parent[r][a] # Nobody => parent[r][a] \in started[r]

IsRunOrchestrator(r, a) == root[r] = a /\ role[r][a] = "orchestrator"

\* Mutant: a correction of agent.started may change the role.
AnyRole(r, a, ro) == TRUE

\* A corrected agent.started changes neither the parent nor the role, and the one
\* of a root comes from the root.
SameIdentity(r, a, ro) ==
    /\ role[r][a] = ro
    /\ parent[r][a] = Nobody => root[r] = a /\ ro = "orchestrator"

\* Mutant: a step is anybody's.
AnyOwner(r, a, s) == owner[r][s] # Nobody

\* A step is completed and corrected by the agent that started it.
Owns(r, a, s) == owner[r][s] = a

-----------------------------------------------------------------------------
(* What the projector makes of a payload: of the event itself, or of the        *)
(* corrected payload of a correction.                                           *)

Accept ==
    /\ head < MaxEvents
    /\ head' = head + 1

\* The current run once the root orchestrator a of r has started.
NextCurrentRun(r, a) == r

\* applyAgentStarted: the agent's row, and for a root orchestrator its run.
ApplyAgentStarted(r, a, p, ro) ==
    /\ started' = [started EXCEPT ![r] = @ \union {a}]
    /\ parent' = [parent EXCEPT ![r][a] = p]
    /\ role' = [role EXCEPT ![r][a] = ro]
    /\ IF ro = "orchestrator" /\ p = Nobody
       THEN /\ root' = [root EXCEPT ![r] = a]
            /\ currentRun' = NextCurrentRun(r, a)
       ELSE UNCHANGED <<root, currentRun>>
    /\ UNCHANGED <<open, reported, stepVars, closer, completer>>

\* applyAgentStatusReported, applyAgentProgressReported, applyAgentFinished.
ApplyReport(r, a, column) ==
    /\ reported' = [reported EXCEPT ![r][a] = @ \union {column}]
    /\ UNCHANGED <<runVars, started, parent, role, stepVars, history>>

\* applyWorkStepStarted.
ApplyStepStarted(r, a, s) ==
    /\ owner' = [owner EXCEPT ![r][s] = a]
    /\ UNCHANGED <<runVars, agentVars, done, history>>

\* applyWorkStepCompleted.
ApplyStepCompleted(r, a, s) ==
    /\ done' = [done EXCEPT ![r] = @ \union {s}]
    /\ completer' = [completer EXCEPT ![r][s] = a]
    /\ UNCHANGED <<runVars, agentVars, owner, since, lastOpened, closer>>

\* applyRunFinished.
ApplyRunFinished(r, a) ==
    /\ open' = [open EXCEPT ![r] = FALSE]
    /\ closer' = [closer EXCEPT ![r] = a]
    /\ UNCHANGED <<currentRun, root, agentVars, stepVars, since, lastOpened, completer>>

-----------------------------------------------------------------------------
(* The accepted events.                                                         *)

\* agent.started of an orchestrator without a parent opens the run.
OpenRun(r, a) ==
    /\ ~Opened(r)
    /\ Accept
    /\ ApplyAgentStarted(r, a, Nobody, "orchestrator")
    /\ since' = [since EXCEPT ![r][a] = head']
    /\ lastOpened' = r

\* agent.started of any other agent.
StartAgent(r, a, p, ro) ==
    /\ AcceptsWork(r)
    /\ a \notin started[r]
    /\ KnownParent(r, p)
    /\ Accept
    /\ ApplyAgentStarted(r, a, p, ro)
    /\ since' = [since EXCEPT ![r][a] = head']
    /\ UNCHANGED lastOpened

Report(r, a, column) ==
    /\ AcceptsWork(r)
    /\ Registered(r, a)
    /\ Accept
    /\ ApplyReport(r, a, column)

\* work.step_started: a step id is used once in a run.
StartStep(r, a, s) ==
    /\ AcceptsWork(r)
    /\ Registered(r, a)
    /\ owner[r][s] = Nobody
    /\ Accept
    /\ ApplyStepStarted(r, a, s)

\* work.step_completed: the step was started by the reporter and is unfinished.
CompleteStep(r, a, s) ==
    /\ AcceptsWork(r)
    /\ Registered(r, a)
    /\ Owns(r, a, s)
    /\ s \notin done[r]
    /\ Accept
    /\ ApplyStepCompleted(r, a, s)

FinishRun(r, a) ==
    /\ AcceptsWork(r)
    /\ Registered(r, a)
    /\ IsRunOrchestrator(r, a)
    /\ Accept
    /\ ApplyRunFinished(r, a)

\* correction.issued, by any registered agent and also after the end of the run.
\* It names an event of the project, which exists as soon as a run was opened; the
\* type of that event is not compared with the corrected type.
CorrectStart(r, a, ro) ==
    /\ Registered(r, a)
    /\ SameIdentity(r, a, ro)
    /\ Accept
    /\ ApplyAgentStarted(r, a, parent[r][a], ro)
    /\ UNCHANGED <<since, lastOpened>>

CorrectReport(r, a, column) ==
    /\ Registered(r, a)
    /\ Accept
    /\ ApplyReport(r, a, column)

\* A corrected step exists and is the reporter's; it may be finished already.
CorrectStepStart(r, a, s) ==
    /\ Registered(r, a)
    /\ Owns(r, a, s)
    /\ Accept
    /\ ApplyStepStarted(r, a, s)

CorrectStepCompletion(r, a, s) ==
    /\ Registered(r, a)
    /\ Owns(r, a, s)
    /\ Accept
    /\ ApplyStepCompleted(r, a, s)

CorrectFinish(r, a) ==
    /\ Registered(r, a)
    /\ IsRunOrchestrator(r, a)
    /\ Accept
    /\ ApplyRunFinished(r, a)

\* Every other event of an agent leaves runs, agents and steps alone: a plan, a
\* feedback, a change of the model, and, in a finished run too, a retraction or a
\* correction of one of these.
Note(r, a) ==
    /\ Registered(r, a)
    /\ Accept
    /\ UNCHANGED <<runVars, agentVars, stepVars, history>>

ByAgent(r, a) ==
    \/ OpenRun(r, a)
    \/ \E p \in Agents, ro \in Roles : StartAgent(r, a, p, ro)
    \/ \E column \in Columns : Report(r, a, column) \/ CorrectReport(r, a, column)
    \/ \E s \in Steps : StartStep(r, a, s) \/ CompleteStep(r, a, s)
    \/ \E s \in Steps : CorrectStepStart(r, a, s) \/ CorrectStepCompletion(r, a, s)
    \/ \E ro \in Roles : CorrectStart(r, a, ro)
    \/ FinishRun(r, a) \/ CorrectFinish(r, a)
    \/ Note(r, a)

Next == \E r \in Runs, a \in Agents : ByAgent(r, a)

Spec == Init /\ [][Next]_vars

-----------------------------------------------------------------------------
(* Properties.                                                                  *)

TypeOK ==
    /\ head \in 0..MaxEvents
    /\ currentRun \in Runs \union {NoRun}
    /\ root \in [Runs -> Agents \union {Nobody}]
    /\ open \in [Runs -> BOOLEAN]
    /\ started \in [Runs -> SUBSET Agents]
    /\ parent \in [Runs -> [Agents -> Agents \union {Nobody}]]
    /\ role \in [Runs -> [Agents -> Roles]]
    /\ reported \in [Runs -> [Agents -> SUBSET Columns]]
    /\ owner \in [Runs -> [Steps -> Agents \union {Nobody}]]
    /\ done \in [Runs -> SUBSET Steps]
    /\ since \in [Runs -> [Agents -> 0..MaxEvents]]
    /\ lastOpened \in Runs \union {NoRun}
    /\ closer \in [Runs -> Agents \union {Nobody}]
    /\ completer \in [Runs -> [Steps -> Agents \union {Nobody}]]

\* The agents of an opened run form one tree below its root orchestrator, whatever
\* was corrected and in whichever order parallel agents joined: the root is the
\* only agent without a parent, every parent belongs to the run, and nobody is its
\* own ancestor (docs/model-view-mcp-contract.md, "each run has one immutable root,
\* each agent one immutable parent").
AgentTree ==
    \A r \in Runs :
        /\ \A a \in started[r] : parent[r][a] = Nobody <=> a = root[r]
        /\ Opened(r) => root[r] \in started[r]
        /\ \A a \in started[r] : parent[r][a] \in started[r] \union {Nobody}
        /\ \A S \in SUBSET started[r] : S # {} => \E a \in S : parent[r][a] \notin S

\* A run is closed only by its root orchestrator, with run.finished or with a
\* correction (lifecycle.go, "Only the agent that opened a run with it may close
\* the run again").
OnlyRootCloses ==
    \A r \in Runs : ~open[r] => closer[r] = root[r] /\ role[r][root[r]] = "orchestrator"

\* A work step is finished by the agent of the run that started it, by no other
\* and not before it was started (work.go, "Step ownership").
StepsFinishedByOwner ==
    \A r \in Runs : \A s \in Steps :
        /\ s \in done[r] => completer[r][s] = owner[r][s]
        /\ owner[r][s] \in started[r] \union {Nobody}
        /\ s \in done[r] => owner[r][s] # Nobody

\* How the tree is kept: an agent joins after its parent, so going up from any
\* agent one meets ever earlier events until the root.
TreeInv(r) ==
    /\ root[r] = Nobody => started[r] = {}
    /\ root[r] # Nobody => /\ root[r] \in started[r]
                           /\ parent[r][root[r]] = Nobody
                           /\ role[r][root[r]] = "orchestrator"
    /\ \A a \in started[r] :
           /\ since[r][a] <= head
           /\ parent[r][a] = Nobody => a = root[r]
           /\ parent[r][a] # Nobody => /\ parent[r][a] \in started[r]
                                       /\ since[r][parent[r][a]] < since[r][a]

CloseInv(r) == ~open[r] => root[r] # Nobody /\ closer[r] = root[r]

StepInv(r) ==
    \A s \in Steps :
        /\ owner[r][s] # Nobody => owner[r][s] \in started[r]
        /\ s \in done[r] => owner[r][s] # Nobody /\ completer[r][s] = owner[r][s]

\* The inductive invariant behind the properties above and below: the tree and the
\* order in which it grew, who closed a run and who finished a step
\* (lifecycle.go checkLifecycle and checkEffectiveCorrection, work.go ValidateWork).
LifecycleInv == TypeOK /\ \A r \in Runs : TreeInv(r) /\ CloseInv(r) /\ StepInv(r)

\* Nothing that is accepted, a correction included, makes an agent disappear,
\* changes its parent or role, replaces the root of a run or the owner of a step
\* (lifecycle.go checkEffectiveCorrection).
IdentitiesStay ==
    [][\A r \in Runs :
          /\ Opened(r) => root'[r] = root[r]
          /\ \A a \in started[r] : /\ a \in started'[r]
                                   /\ parent'[r][a] = parent[r][a]
                                   /\ role'[r][a] = role[r][a]
          /\ \A s \in Steps : owner[r][s] # Nobody => owner'[r][s] = owner[r][s]]_vars

\* A finished run is never reopened, and no agent and no step is added to it
\* (docs/agent-integration.md, "work events are rejected").
FinishedRunGrowsNoMore ==
    [][\A r \in Runs :
          ~open[r] => /\ ~open'[r]
                      /\ started'[r] = started[r]
                      /\ \A s \in Steps : owner'[r][s] = owner[r][s]]_vars

\* The current run of the project is the run that was opened last
\* (api/openapi.yaml, "The run a root orchestrator opened last").
CurrentRunIsLastOpened == currentRun = lastOpened

=============================================================================
