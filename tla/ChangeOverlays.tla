---------------------------- MODULE ChangeOverlays ----------------------------
(* The overlays the canvas draws (canvas/changeOverlays.ts, state/workStates.ts, *)
(* canvas/useChangeOverlays.ts): what the cached architecture read and the ledger *)
(* say about one element, condensed into one work state.                          *)
EXTENDS ChangeLedger

\* The cached read; without one nothing is drawn.
Model == ModelAt(cache)

\* What was reported about target t: pending proposals of the read, the recent
\* applied changes of the ledger, open steps and scopes.
Proposals(t) ==
    {[source |-> "planned_change", agent |-> r.agent, operation |-> r.operation,
      position |-> r.position, descriptor |-> r.descriptor, direct |-> FALSE] :
        r \in {one \in {Model.changes[c] : c \in DOMAIN Model.changes} :
                  one.target = t /\ one.state = "planned"}}

\* A typed change of a position the read has not reached is left for the next one.
AppliedChanges(t) ==
    {[source |-> "applied_change", agent |-> e.agent, operation |-> e.operation,
      position |-> e.position, descriptor |-> e.snapshot, direct |-> e.direct] :
        e \in {one \in {ledger.history[i] : i \in Recent(ledger)} :
                  one.target = t /\ ~(one.direct /\ one.position > cache)}}

IsTerminal(a) == a \in ledger.ended \/ ledger.runEnded

RunningSteps(t) == {s \in DOMAIN ledger.steps :
                        ledger.steps[s].names = t /\ ~IsTerminal(ledger.steps[s].agent)}
RunningScopes(t) == {a \in DOMAIN ledger.scopes :
                        ledger.scopes[a].names = t /\ ~IsTerminal(a) /\ t \in DOMAIN Model.rows}

\* recordChange: the newest statement wins, a later source at the same position.
LatestChange(t) ==
    LET all == Proposals(t) \union AppliedChanges(t)
    IN  IF all = {} THEN None
        ELSE CHOOSE x \in all : \A y \in all :
                \/ x.position > y.position
                \/ x.position = y.position /\ (x.source = "applied_change" \/ y.source = "planned_change")

\* Mutant: a planned removal looks like one that took place.
AnyRemoval(active, change) ==
    IF change # None /\ change.operation = "remove" THEN "removed"
    ELSE IF active THEN "active"
    ELSE IF change = None THEN None
    ELSE IF change.source = "planned_change" THEN "planned" ELSE "recently_applied"

\* resolveWorkState
ResolveWorkState(active, change) ==
    IF change # None /\ change.source = "applied_change" /\ change.operation = "remove" THEN "removed"
    ELSE IF active THEN "active"
    ELSE IF change = None THEN None
    ELSE IF change.source = "planned_change" THEN "planned" ELSE "recently_applied"

\* The overlay of t: drawn on the element, or next to the model when the element
\* is not in it and a descriptor was reported.
Overlay(t) ==
    LET change == LatestChange(t)
        state == ResolveWorkState(RunningSteps(t) \union RunningScopes(t) # {}, change)
        present == t \in DOMAIN Model.rows
        drawn == /\ cache # None
                 /\ state # None
                 /\ ~present => /\ change # None
                                /\ change.direct => change.operation = "remove"
                                /\ change.descriptor # None
    IN  IF ~drawn THEN None
        ELSE [state |-> state, operation |-> IF change = None THEN None ELSE change.operation,
              presence |-> IF present THEN "applied" ELSE IF state = "removed" THEN "ghost" ELSE "proposal"]

-----------------------------------------------------------------------------
(* Properties.                                                                  *)

\* The read and the ledger have both taken in the whole log.
Settled == opened # None /\ cache = Len(log) /\ ledger.last = Len(log)

Withdrawn(p) == MarkedBy(p, "retraction.issued") \/ MarkedBy(p, "correction.issued")

WroteTo(p, t) ==
    LET c == Content(p)
    IN  IF c.type = "model.mutation_applied" THEN \E i \in DOMAIN c.ops : c.ops[i].target = t
        ELSE c.type = "change_applied" /\ c.target = t

\* The last event that wrote element t was withdrawn.
Undone(t) ==
    \E p \in SinceSnapshot :
        /\ Withdrawn(p) /\ WroteTo(p, t)
        /\ \A q \in SinceSnapshot : WroteTo(q, t) => q <= p

\* In a settled picture an element is shown as removed only when it is gone, and
\* what is drawn without being in the model is a pending proposal or a removal:
\* nothing the server dropped stays on the canvas as if it were announced
\* (changeOverlays.ts:408).  Only an element whose last change was withdrawn is an
\* exception: the mark takes that change out of the overlays, and its effect stays
\* in the model.
SettledPictureAgrees ==
    Settled =>
        \A t \in Targets : Overlay(t) # None /\ ~Undone(t) =>
            /\ Overlay(t).state = "removed" => t \notin DOMAIN Model.rows
            /\ Overlay(t).presence = "proposal" => Proposals(t) # {}

\* A settled picture shows work only where an agent that has not ended reported a
\* step that is open, or a scope.  The one exception is a step whose start was
\* corrected after its completion: the correction starts it again in the browser
\* (changeLedger.ts:219) and not on the server.
ActiveMeansRunning ==
    Settled => \A t \in Targets : Overlay(t) # None /\ Overlay(t).state = "active" =>
        \/ RunningScopes(t) # {}
        \/ \E s \in RunningSteps(t) :
              s \in Model.done => log[ledger.steps[s].event].event.type = "correction.issued"

=============================================================================
