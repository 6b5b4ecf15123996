--------------------------------- MODULE Plans ---------------------------------
(* The plans of the runs: what the projector writes for plan.published and              *)
(* plan.step_updated, and for their corrections (backend/internal/store/projector.go).   *)
(* The ingestion checks such an event for its run and its agent only (RunLifecycle).      *)
(* A plan has a row in every run that published it; its revisions and their steps are     *)
(* kept by the plan's id alone, so runs that use the same id share them.                  *)
EXTENDS RunLifecycle

CONSTANTS PlanIds, PlanStepIds, States, MaxPlanRevision

VARIABLES
    current,      \* Plan.CurrentRevision, 0 while the run has no such plan
    published,    \* the rows of plan_revisions
    planSteps     \* the rows of plan_steps: the run that told the title, and the state

planVars == <<current, published, planSteps>>

Revisions == 1..MaxPlanRevision

PlansInit ==
    /\ Init
    /\ current = [r \in Runs |-> [p \in PlanIds |-> 0]]
    /\ published = {}
    /\ planSteps = [key \in {} |-> key]

-----------------------------------------------------------------------------

\* Steps that are published as told, under keys that may be taken.
Told(r, p, v, told) ==
    [key \in {<<p, v, s>> : s \in DOMAIN told} |-> [run |-> r, state |-> told[key[3]]]]

\* ON CONFLICT DO NOTHING.
FirstRowsWin(old, new) == [key \in DOMAIN old \union DOMAIN new |->
                              IF key \in DOMAIN old THEN old[key] ELSE new[key]]

\* applyPlanPublished
ApplyPlanPublished(r, p, v, told) ==
    /\ current' = [current EXCEPT ![r][p] = v]
    /\ published' = published \union {<<p, v>>}
    /\ planSteps' = FirstRowsWin(planSteps, Told(r, p, v, told))

\* Mutant: the step is looked up by its plan and its id.
InAnyRevision(r, p, s) == {<<p, v, s>> : v \in Revisions}

\* The step of the current revision.
Updated(r, p, s) == {<<p, current[r][p], s>>}

\* applyPlanStepUpdated, which does nothing for a plan or a step that is not there.
ApplyPlanStepUpdated(r, p, s, state) ==
    /\ planSteps' = [key \in DOMAIN planSteps |->
                        IF key \in Updated(r, p, s) THEN [planSteps[key] EXCEPT !.state = state]
                        ELSE planSteps[key]]
    /\ UNCHANGED <<current, published>>

PlanPayload(r) ==
    \E p \in PlanIds :
        \/ \E v \in Revisions, S \in (SUBSET PlanStepIds) \ {{}} :
               \E told \in [S -> States] : ApplyPlanPublished(r, p, v, told)
        \/ \E s \in PlanStepIds, state \in States : ApplyPlanStepUpdated(r, p, s, state)

PlanEvent(r, a) == AcceptsWork(r) /\ Note(r, a) /\ PlanPayload(r)

\* The correction of either, in a finished run too.
CorrectPlan(r, a) == Note(r, a) /\ PlanPayload(r)

PlansNext ==
    \/ Next /\ UNCHANGED planVars
    \/ \E r \in Runs, a \in Agents : PlanEvent(r, a) \/ CorrectPlan(r, a)

PlansSpec == PlansInit /\ [][PlansNext]_<<vars, planVars>>

-----------------------------------------------------------------------------

StepsOf(p, v, rows) == {<<key, rows[key]>> : key \in {k \in DOMAIN rows : k[1] = p /\ k[2] = v}}

\* Every plan of a run shows its current revision, with steps (readapi/runs.go:201-219).
CurrentIsPublished ==
    \A r \in Runs : \A p \in PlanIds : current[r][p] # 0 =>
        <<p, current[r][p]>> \in published /\ StepsOf(p, current[r][p], planSteps) # {}

\* What was published keeps its title, and a revision that is current in no run keeps
\* its steps just as they were last seen (openapi.yaml:575-579, projector.go:280-281).
RevisionRests ==
    /\ \A key \in DOMAIN planSteps :
           key \in DOMAIN planSteps' /\ planSteps'[key].run = planSteps[key].run
    /\ \A pv \in published :
           \/ \E r \in Runs : pv[2] \in {current[r][pv[1]], current'[r][pv[1]]}
           \/ StepsOf(pv[1], pv[2], planSteps') = StepsOf(pv[1], pv[2], planSteps)

\* Revisions of a plan are appended, never rewritten, and the current one is among them
\* (projector.go:260-345).
PublishedPlansStay == []CurrentIsPublished /\ [][RevisionRests]_<<vars, planVars>>
=============================================================================
