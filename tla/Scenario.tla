------------------------------- MODULE Scenario -------------------------------
(* What a scenario of the simulator is written with: the payloads of the event   *)
(* contract (frontend/src/api/generated/contract.ts), the texts left out, and    *)
(* the builder that makes steps of them (simulator/src/sequence.ts).             *)
EXTENDS Integers, SequencesExt

CONSTANTS Nobody, Top    \* no parent agent, no parent component

Body(agent, type) == [agent |-> agent, type |-> type]

StartedRoot(agent) == [agent |-> agent, type |-> "agent.started", role |-> "orchestrator"]
Started(agent) == Body(agent, "agent.started") @@ [role |-> "worker"]
Status(agent) == Body(agent, "agent.status_reported")
Progress(agent) == Body(agent, "agent.progress_reported")
Finished(agent) == Body(agent, "agent.finished")
RunFinished(agent) == Body(agent, "run.finished")

\* A step of a plan is <<id, state, components>>.
PlanPublished(agent, revision, steps) ==
    Body(agent, "plan.published") @@
        [revision |-> revision, steps |-> steps,
         components |-> UNION {steps[i][3] : i \in DOMAIN steps}]
PlanStepUpdated(agent, step, state) ==
    Body(agent, "plan.step_updated") @@ [step |-> step, state |-> state]

WorkStarted(agent, work, planStep, components) ==
    Body(agent, "work.step_started") @@ [work |-> work, step |-> planStep, components |-> components]
WorkCompleted(agent, work) == Body(agent, "work.step_completed") @@ [work |-> work]

Feedback(agent, id, components) ==
    Body(agent, "feedback.published") @@ [id |-> id, components |-> components]
Risk(agent, components) == Body(agent, "risk.reported") @@ [components |-> components]
Problem(agent, components) == Body(agent, "problem.reported") @@ [components |-> components]

\* One file of a change; change is "" of one that names none.
Diff(agent, file, change, components) ==
    Body(agent, "diff.reported") @@ [file |-> file, change |-> change, components |-> components]

\* The model: the parent of each component, the ends of each relationship.
Snapshot(agent, parents, ends) ==
    Body(agent, "architecture.snapshot_published") @@ [parents |-> parents, ends |-> ends]

\* place: the parent of a component, the ends of a relationship.
Change(agent, type, change, operation, target, place) ==
    Body(agent, type) @@ [change |-> change, operation |-> operation, target |-> target, place |-> place]
ComponentPlanned(agent, change, operation, target, place) ==
    Change(agent, "component.change_planned", change, operation, target, place)
ComponentApplied(agent, change, operation, target, place) ==
    Change(agent, "component.change_applied", change, operation, target, place)
RelationshipPlanned(agent, change, operation, target, place) ==
    Change(agent, "relationship.change_planned", change, operation, target, place)
RelationshipApplied(agent, change, operation, target, place) ==
    Change(agent, "relationship.change_applied", change, operation, target, place)

\* Both name the event they are about by its clientEventId; here by its body.
Correction(agent, original, corrected) ==
    Body(agent, "correction.issued") @@ [about |-> original, corrected |-> corrected]
Retraction(agent, original) == Body(agent, "retraction.issued") @@ [about |-> original]

-----------------------------------------------------------------------------
(* SequenceBuilder.  The n-th id of a stream is the number n of the execution    *)
(* that is seeded with its scenario and seed.                                    *)

Envelope(execution, agents, number, body) ==
    [id |-> <<execution.scenario, execution.seed, number>>, run |-> execution.run,
     parent |-> agents[body.agent], body |-> body]

\* emit, for a whole script: every event is expected to be a first delivery.
Emit(execution, agents, script) ==
    [n \in DOMAIN script |-> [event |-> Envelope(execution, agents, n, script[n]), expect |-> 201]]

\* emitRetryOf: the same envelope a second time.
EmitRetryOf(steps, number) == Append(steps, [event |-> steps[number].event, expect |-> 200])

\* emitConflictWith: the id of an earlier event with other content.
EmitConflictWith(steps, number, body) ==
    Append(steps, [event |-> [steps[number].event EXCEPT !.body = body], expect |-> 409])
=============================================================================
