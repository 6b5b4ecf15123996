----------------------------- MODULE ChangeLedger -----------------------------
(* The change ledger of the cockpit (state/changeLedger.ts) beside the log it is *)
(* folded from, the read model the server projects from the same log            *)
(* (store/projector.go, model.go), and the cached answer of GET /architecture.   *)
(*                                                                               *)
(* One project, one run.  A descriptor is the position that reported it whole    *)
(* and the position that patched it last; an event is named by its position, as  *)
(* the client event id of the code names it.                                     *)
EXTENDS Integers, FiniteSets, SequencesExt

CONSTANTS Targets,        \* components and relationships
          Agents, Steps, Changes,
          Announced,      \* operations of changes that are announced with a descriptor
          Themes,         \* the sets of event types that are explored together
          MaxEvents,      \* bound on the log
          MaxMissed,      \* bound on the events before the page is opened
          HistoryLimit,   \* HISTORY_LIMIT
          RecentLimit,    \* RECENT_APPLIED_LIMIT
          None

ASSUME LedgerAssumption ==
    /\ MaxEvents \in Nat /\ MaxMissed \in Nat /\ HistoryLimit \in Nat \ {0} /\ RecentLimit \in Nat \ {0}
    /\ Announced \subseteq {"add", "modify", "remove"}
    /\ None \notin Targets \union Agents \union Steps \union Changes \union Nat
    /\ None \notin [base : Nat, patch : Nat]

VARIABLES theme,     \* the event types of this behaviour
          log,       \* what was accepted: the event and the read model after it
          opened,    \* the position the stream began behind, None before it is open
          cache,     \* the position of the cached architecture read, None without one
          ledger,    \* the ledger of the browser
          observed   \* a read that covers all the stream left out was folded in

vars == <<theme, log, opened, cache, ledger, observed>>

-----------------------------------------------------------------------------
(* The events and what the server makes of them.                                *)

NoDescriptors == [t \in {} |-> None]
\* f with the entries of g, and with v under k.
Over(f, g) == [x \in DOMAIN f \union DOMAIN g |-> IF x \in DOMAIN g THEN g[x] ELSE f[x]]
With(f, k, v) == Over(f, [x \in {k} |-> v])

Reported(p) == [base |-> p, patch |-> p]
Kept(c, p) == [t \in c.kept |-> Reported(p)]
Patched(d, p) == [d EXCEPT !.patch = p]
Operation == {"add", "modify", "remove"}

\* The contents an agent may report; a correction carries one of the others.
Op == [op : Operation, target : Targets]
Plain ==
    UNION {
      [type : {"model.mutation_applied"},
       ops : {<<o>> : o \in Op}
                \union {<<o, q>> : o \in Op, q \in {r \in Op : r.op # "add"}}],
      [type : {"change_planned", "change_applied"}, target : Targets,
       operation : Announced, change : Changes \union {None}],
      [type : {"architecture.snapshot_published"}, kept : SUBSET Targets],
      [type : {"work.step_started"}, step : Steps, names : Targets],
      [type : {"work.step_completed"}, step : Steps],
      [type : {"work.scope_reported"}, names : Targets],
      [type : {"agent.finished", "run.finished"}]}

Contents(n) ==
    Plain \union [type : {"retraction.issued"}, ref : 1..n]
          \union [type : {"correction.issued"}, ref : 1..n,
                  corrected : {c \in Plain : c.type # "model.mutation_applied"}]

\* A planned change needs an id, and a mutation names a target once.
WellFormed(c) ==
    /\ c.type = "change_planned" => c.change # None
    /\ c.type = "model.mutation_applied" => IsInjective([i \in DOMAIN c.ops |-> c.ops[i].target])

\* What the projector applies: the content of a correction under the correcting event.
Effective(c) == IF c.type = "correction.issued" THEN c.corrected ELSE c

EmptyModel == [rows |-> NoDescriptors, retired |-> {}, changes |-> [c \in {} |-> None],
               owner |-> [s \in {} |-> None], done |-> {}, closed |-> FALSE]
ModelAt(n) == IF n = 0 THEN EmptyModel ELSE log[n].model

\* The writes of one event on the graph: the descriptors it puts and the targets
\* it takes out.
WrittenBy(m, c, p) ==
    LET named(o) == IF c.type = "model.mutation_applied"
                    THEN {c.ops[i].target : i \in {j \in DOMAIN c.ops : c.ops[j].op = o}}
                    ELSE IF c.operation = o THEN {c.target} ELSE {}
        patched == IF c.type = "model.mutation_applied" THEN named("modify") ELSE {}
    IN  [put |-> [t \in (named("add") \union named("modify")) |->
                     IF t \in patched THEN Patched(m.rows[t], p) ELSE Reported(p)],
         out |-> named("remove")]

Rewritten(m, c, p) ==
    LET w == WrittenBy(m, c, p)
        rows == Over(m.rows, w.put)
    IN  Restrict(rows, DOMAIN rows \ w.out)

\* An id that was taken out never comes back; typed operations add what is new
\* and change what is there.
AcceptsModel(m, c) ==
    CASE c.type = "model.mutation_applied" ->
            \A i \in DOMAIN c.ops :
                IF c.ops[i].op = "add"
                THEN c.ops[i].target \notin DOMAIN m.rows \union m.retired
                ELSE c.ops[i].target \in DOMAIN m.rows
      [] c.type = "change_applied" -> c.operation # "remove" => c.target \notin m.retired
      [] c.type = "architecture.snapshot_published" -> c.kept \intersect m.retired = {}
      [] OTHER -> TRUE

\* checkLifecycle: a step is begun once and completed once by its agent, in a run
\* that is open; a correction only asks whose step it is (RunLifecycle).
AcceptsWork(m, c, e, a) ==
    LET own == e.step \in DOMAIN m.owner /\ m.owner[e.step] = a
    IN  /\ c.type \in {"correction.issued", "retraction.issued"} \/ ~m.closed
        /\ e.type \in {"work.step_started", "work.step_completed"} =>
              IF c.type = "correction.issued" THEN own
              ELSE IF e.type = "work.step_started" THEN e.step \notin DOMAIN m.owner
              ELSE own /\ e.step \notin m.done

WithRows(m, rows) ==
    [m EXCEPT !.rows = rows, !.retired = @ \union (DOMAIN m.rows \ DOMAIN rows)]

\* Mutant: a plan reported again starts over.
ReopenPlanned(changes, c, a, p) ==
    With(changes, c.change,
         [target |-> c.target, operation |-> c.operation, agent |-> a, position |-> p,
          descriptor |-> Reported(p), state |-> "planned"])

\* recordPlannedChange leaves the state of a row that is there alone.
RecordPlanned(changes, c, a, p) ==
    With(changes, c.change,
         [target |-> c.target, operation |-> c.operation, agent |-> a, position |-> p,
          descriptor |-> Reported(p),
          state |-> IF c.change \in DOMAIN changes THEN changes[c.change].state ELSE "planned"])

\* changeIDOrEventID: without an id the change is known by its event.
ChangeKey(c, p) == IF c.change = None THEN p ELSE c.change

RecordApplied(changes, c, a, p) ==
    With(changes, ChangeKey(c, p),
         [target |-> c.target, operation |-> c.operation, agent |-> a, position |-> p,
          descriptor |-> Reported(p), state |-> "applied"])

\* applyRetractionIssued: only an event that announced a change by itself is
\* looked up, a correction or a mutation announces none.
RecordRetracted(changes, ref, p) ==
    LET target == log[ref].event
        row == IF target.type \in {"change_planned", "change_applied"}
               THEN ChangeKey(target, ref) ELSE None
    IN  IF row \in DOMAIN changes
        THEN [changes EXCEPT ![row].state = "retracted", ![row].position = p] ELSE changes

\* The read model after content c of agent a at position p.
Project(m, c, a, p) ==
    CASE c.type = "model.mutation_applied" ->
            WithRows(m, Rewritten(m, c, p))
      [] c.type = "change_applied" ->
            [WithRows(m, Rewritten(m, c, p)) EXCEPT !.changes = RecordApplied(@, c, a, p)]
      [] c.type = "change_planned" -> [m EXCEPT !.changes = RecordPlanned(@, c, a, p)]
      [] c.type = "architecture.snapshot_published" ->
            WithRows(m, Kept(c, p))
      [] c.type = "retraction.issued" -> [m EXCEPT !.changes = RecordRetracted(@, c.ref, p)]
      [] c.type = "work.step_started" -> [m EXCEPT !.owner = With(@, c.step, a)]
      [] c.type = "work.step_completed" -> [m EXCEPT !.done = @ \union {c.step}]
      [] c.type = "run.finished" -> [m EXCEPT !.closed = TRUE]
      [] OTHER -> m

-----------------------------------------------------------------------------
(* The ledger.                                                                  *)

EmptyLedger ==
    [last |-> 0, history |-> <<>>, steps |-> [s \in {} |-> None], descriptors |-> NoDescriptors,
     modelPosition |-> 0, scopes |-> [a \in {} |-> None], ended |-> {}, runEnded |-> FALSE]

\* Mutant: a read is taken in although the descriptors are ahead of it.
ObserveAnyOlder(l, at, before) ==
    IF at = None \/ at >= before THEN l
    ELSE [l EXCEPT !.modelPosition = at, !.descriptors = ModelAt(at).rows]

\* observeModel: only a read that precedes the event, and none older than what
\* the descriptors already hold.
ObserveModel(l, at, before) ==
    IF at = None \/ at >= before \/ at < l.modelPosition THEN l
    ELSE [l EXCEPT !.modelPosition = at, !.descriptors = ModelAt(at).rows]

\* Mutant: the cut falls anywhere.
CutAnywhere(h) ==
    IF Len(h) <= HistoryLimit THEN h ELSE SubSeq(h, Len(h) - HistoryLimit + 1, Len(h))
\* Where the events behind a position begin; positions never descend in a history.
NewerFrom(h, position) ==
    CHOOSE first \in 1..(Len(h) + 1) : \A i \in DOMAIN h : h[i].position > position <=> i >= first

\* Cut only between events: the entries of the one the limit falls into go too.  What
\* the filter keeps is the rest of the history.
Capped(h) ==
    IF Len(h) <= HistoryLimit THEN h
    ELSE SubSeq(h, NewerFrom(h, h[Len(h) - HistoryLimit].position), Len(h))

AppendChange(l, f, a, p) ==
    LET applied == f.phase = "applied"
        without == Restrict(l.descriptors, DOMAIN l.descriptors \ {f.target})
    IN  [l EXCEPT
            !.history = Capped(Append(@,
                [target |-> f.target, operation |-> f.operation, phase |-> f.phase,
                 snapshot |-> f.snapshot, direct |-> f.direct, position |-> p, agent |-> a,
                 retracted |-> FALSE, superseded |-> FALSE])),
            !.descriptors = CASE ~applied -> @
                              [] applied /\ f.operation = "remove" -> without
                              [] OTHER -> IF f.snapshot = None THEN @ ELSE With(@, f.target, f.snapshot),
            !.modelPosition = IF applied THEN p ELSE @]

\* A patch or a removal shows the descriptor seen last, if one was seen.
SnapshotOf(l, o, p) ==
    LET previous == IF o.target \in DOMAIN l.descriptors THEN l.descriptors[o.target] ELSE None
    IN  CASE o.op = "add" -> Reported(p)
          [] o.op = "modify" /\ previous # None -> Patched(previous, p)
          [] OTHER -> previous

AppendOperation(l, o, a, p) ==
    AppendChange(l, [target |-> o.target, operation |-> o.op, phase |-> "applied",
                     snapshot |-> SnapshotOf(l, o, p), direct |-> TRUE], a, p)

Mutated(l, c, a, p) == FoldLeft(LAMBDA one, o : AppendOperation(one, o, a, p), l, c.ops)

\* Mutant: a completed step stays open.
KeepStep(l, s) == l

WithoutStep(l, s) == [l EXCEPT !.steps = Restrict(@, DOMAIN @ \ {s})]

\* withoutWorkStepOfEvent: the step that a withdrawn or corrected event started.
WithoutStepOf(l, ref) == [l EXCEPT !.steps = Restrict(@, {s \in DOMAIN @ : @[s].event # ref})]

Marked(l, ref, mark) ==
    [WithoutStepOf(l, ref) EXCEPT
        !.history = [i \in DOMAIN @ |-> IF @[i].position = ref THEN [@[i] EXCEPT ![mark] = TRUE] ELSE @[i]]]

ApplyContent(l, c, a, p) ==
    CASE c.type = "model.mutation_applied" -> Mutated(l, c, a, p)
      [] c.type \in {"change_planned", "change_applied"} ->
            AppendChange(l, [target |-> c.target, operation |-> c.operation,
                             phase |-> IF c.type = "change_planned" THEN "planned" ELSE "applied",
                             snapshot |-> Reported(p), direct |-> FALSE], a, p)
      [] c.type = "architecture.snapshot_published" ->
            [l EXCEPT !.history = <<>>, !.modelPosition = p,
                      !.descriptors = Kept(c, p)]
      [] c.type = "work.step_started" ->
            [l EXCEPT !.steps = With(@, c.step, [agent |-> a, event |-> p, names |-> c.names])]
      [] c.type = "work.step_completed" -> WithoutStep(l, c.step)
      [] c.type = "work.scope_reported" ->
            [l EXCEPT !.scopes = With(@, a, [names |-> c.names, position |-> p])]
      [] c.type = "agent.finished" -> [l EXCEPT !.ended = @ \union {a}]
      [] c.type = "run.finished" -> [l EXCEPT !.runEnded = TRUE]
      [] c.type = "retraction.issued" -> Marked(l, c.ref, "retracted")

\* applyEvent: a correction supersedes the entries of its event and folds its
\* content in under its own id.
Apply(l, c, a, p) ==
    IF c.type = "correction.issued"
    THEN ApplyContent(Marked(l, c.ref, "superseded"), c.corrected, a, p)
    ELSE ApplyContent(l, c, a, p)

\* changeLedgerStore.ingest
Ingest(l, at, c, a, p) ==
    IF p <= l.last THEN l ELSE [Apply(ObserveModel(l, at, p), c, a, p) EXCEPT !.last = p]

\* Derived views.
Standing(l) == {i \in DOMAIN l.history : ~l.history[i].retracted /\ ~l.history[i].superseded}

\* recentAppliedChanges: counted by positions, never timed.
Recent(l) ==
    LET applied == {i \in Standing(l) : l.history[i].phase = "applied"}
        newer(i) == {l.history[j].position : j \in {k \in applied :
                        l.history[k].position > l.history[i].position}}
    IN  {i \in applied : Cardinality(newer(i)) < RecentLimit}

-----------------------------------------------------------------------------
(* The behaviour: the log grows, the page opens its stream at the live tail and *)
(* is sent every event behind it, in order and again after a reconnect, while    *)
(* reads arrive whenever they do.                                                *)

Init ==
    /\ theme \in Themes
    /\ log = <<>>
    /\ opened = None
    /\ cache = None
    /\ ledger = EmptyLedger
    /\ observed = FALSE

\* The server accepts and projects an event.
Commit(a, c) ==
    LET p == Len(log) + 1
        e == Effective(c)
        m == ModelAt(Len(log))
    IN  /\ p <= MaxEvents
        /\ {c.type, e.type} \subseteq theme
        /\ WellFormed(e)
        /\ AcceptsModel(m, e)
        /\ AcceptsWork(m, c, e, a)
        /\ log' = Append(log, [event |-> c, agent |-> a, model |-> Project(m, e, a, p)])
        /\ UNCHANGED <<theme, opened, cache, ledger, observed>>

Open ==
    /\ opened = None
    /\ Len(log) <= MaxMissed
    /\ opened' = Len(log)
    /\ UNCHANGED <<theme, log, cache, ledger, observed>>

\* The answer of an architecture read.  A refetch cancels the one before it, so
\* the cached position does not go back.
Read ==
    /\ \E at \in 0..Len(log) :
          /\ cache # None => at > cache
          /\ cache' = at
    /\ UNCHANGED <<theme, log, opened, ledger, observed>>

\* A frame: the next event, or one that was delivered before.
Frame(p) ==
    /\ opened # None
    /\ p \in (opened + 1)..Len(log)
    /\ p <= (IF ledger.last = 0 THEN opened ELSE ledger.last) + 1
    /\ ledger' = Ingest(ledger, cache, log[p].event, log[p].agent, p)
    /\ observed' = (observed \/ Effective(log[p].event).type = "architecture.snapshot_published"
                     \/ (p > ledger.last /\ ObserveModel(ledger, cache, p) # ledger /\ cache >= opened))
    /\ UNCHANGED <<theme, log, opened, cache>>

Next ==
    \/ \E a \in Agents : \E c \in Contents(Len(log)) : Commit(a, c)
    \/ Open
    \/ Read
    \/ \E p \in 1..MaxEvents : Frame(p)

Spec == Init /\ [][Next]_vars

-----------------------------------------------------------------------------
(* Properties.                                                                  *)

Delivered == IF opened = None THEN {} ELSE (opened + 1)..ledger.last
Content(p) == Effective(log[p].event)

\* The changes an event reports, and what marks them later: the ledger as the
\* comment at its head describes it, without the folding.
Reports(p) ==
    LET c == Content(p)
    IN  IF c.type = "model.mutation_applied" THEN Len(c.ops)
        ELSE IF c.type \in {"change_planned", "change_applied"} THEN 1 ELSE 0

MarkedBy(p, type) == \E q \in Delivered : q > p /\ log[q].event.type = type /\ log[q].event.ref = p

SinceSnapshot ==
    {p \in Delivered : \A q \in Delivered : Content(q).type = "architecture.snapshot_published" => p > q}

Entries(p) == {i \in DOMAIN ledger.history : ledger.history[i].position = p}

TypeOK ==
    /\ theme \in Themes
    /\ Len(log) <= MaxEvents
    /\ opened \in 0..MaxEvents \union {None}
    /\ cache \in 0..Len(log) \union {None}
    /\ ledger.last \in 0..Len(log)
    /\ ledger.modelPosition \in 0..Len(log)
    /\ DOMAIN ledger.descriptors \subseteq Targets
    /\ Len(ledger.history) <= HistoryLimit
    /\ observed \in BOOLEAN

\* "Nothing is overwritten": the history holds the newest events that reported a
\* change, each with all of its entries, in order, and withdrawn or replaced
\* exactly when a retraction or a correction of it was delivered.  The cap cuts
\* between events and only when it has to (changeLedger.ts:355).
HistoryIsWhole ==
    LET kept == {p \in SinceSnapshot : Entries(p) # {}}
        lost == {p \in SinceSnapshot : Reports(p) > 0} \ kept
    IN  /\ \A i \in DOMAIN ledger.history : ledger.history[i].position \in kept
        /\ \A i, j \in DOMAIN ledger.history :
              i < j => ledger.history[i].position <= ledger.history[j].position
        /\ \A p \in kept : Cardinality(Entries(p)) = Reports(p)
        /\ \A p \in lost, q \in kept : p < q
        /\ lost # {} => Len(ledger.history) + Reports(CHOOSE p \in lost : \A q \in lost : q <= p)
                            > HistoryLimit
        /\ \A i \in DOMAIN ledger.history :
              /\ ledger.history[i].retracted <=> MarkedBy(ledger.history[i].position, "retraction.issued")
              /\ ledger.history[i].superseded <=> MarkedBy(ledger.history[i].position, "correction.issued")

\* Once a read that covers what the stream left out, or a snapshot, was folded
\* in, the descriptors are the rows of the server at the last frame, through
\* patches, removals, corrections and later reads (observeModel,
\* changeLedger.ts:142).
DescriptorsAgree == observed => ledger.descriptors = ModelAt(ledger.last).rows

\* A change that was applied or withdrawn is not opened again, whatever is
\* reported of it later (projector.go:806).
ClosedChangeStaysClosed ==
    \A i, j \in DOMAIN log : i < j =>
        \A c \in DOMAIN log[i].model.changes :
            log[i].model.changes[c].state # "planned"
                => c \in DOMAIN log[j].model.changes /\ log[j].model.changes[c].state # "planned"

=============================================================================
