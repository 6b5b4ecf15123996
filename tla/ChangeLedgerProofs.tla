-------------------------- MODULE ChangeLedgerProofs --------------------------
(* Proofs about ChangeLedger and ChangeOverlays: a closed change is never opened *)
(* again, the descriptors of the browser are the rows of the server, and what is *)
(* shown as work is work that somebody does; then about the history of the ledger *)
(* and the picture drawn from it: the cap leaves the newest events whole, an entry *)
(* is marked exactly when its event was withdrawn or corrected, and a settled      *)
(* picture says of an element what the read model of the server says.              *)
EXTENDS ChangeOverlays, FiniteSetTheorems, WellFoundedInduction, TLAPS

-----------------------------------------------------------------------------
(* The shape of what is stored.                                                  *)

Descriptors == [base : Nat, patch : Nat]
Rows == [target : Targets, operation : Operation, agent : Agents, position : Nat,
         descriptor : Descriptors, state : {"planned", "applied", "retracted"}]
Partial(S, T) == UNION {[d -> T] : d \in SUBSET S}
Models == [rows : Partial(Targets, Descriptors), retired : SUBSET Targets,
           changes : Partial(Changes \union Nat, Rows), owner : Partial(Steps, Agents),
           done : SUBSET Steps, closed : BOOLEAN]

Applicable == Plain \union [type : {"retraction.issued"}, ref : Nat]
Reportable == Applicable \union [type : {"correction.issued"}, ref : Nat, corrected : Plain]
LogEntries == [event : Reportable, agent : Agents, model : Models]

\* A mutation names one target, or two.
ShortMutation(c) ==
    c.type = "model.mutation_applied" =>
        \/ DOMAIN c.ops = {1} /\ c.ops[1] \in Op
        \/ DOMAIN c.ops = {1, 2} /\ c.ops[1] \in Op /\ c.ops[2] \in Op

LEMMA PartialIs ==
    ASSUME NEW S, NEW T, NEW d \in SUBSET S, NEW f \in [d -> T]
    PROVE  f \in Partial(S, T)
  BY DEF Partial

LEMMA PartialHas ==
    ASSUME NEW S, NEW T, NEW f \in Partial(S, T)
    PROVE  /\ DOMAIN f \in SUBSET S
           /\ f \in [DOMAIN f -> T]
  BY DEF Partial

LEMMA PartialOver ==
    ASSUME NEW S, NEW T, NEW f \in Partial(S, T), NEW g \in Partial(S, T)
    PROVE  Over(f, g) \in Partial(S, T)
  <1>1. /\ DOMAIN f \in SUBSET S /\ f \in [DOMAIN f -> T]
        /\ DOMAIN g \in SUBSET S /\ g \in [DOMAIN g -> T]
    BY PartialHas
  <1>2. Over(f, g) \in [DOMAIN f \union DOMAIN g -> T]
    BY <1>1 DEF Over
  <1>3. DOMAIN f \union DOMAIN g \in SUBSET S
    BY <1>1
  <1> QED
    BY <1>2, <1>3, PartialIs

LEMMA PartialWith ==
    ASSUME NEW S, NEW T, NEW f \in Partial(S, T), NEW k \in S, NEW v \in T
    PROVE  With(f, k, v) \in Partial(S, T)
  <1>1. [x \in {k} |-> v] \in [{k} -> T] /\ {k} \in SUBSET S
    OBVIOUS
  <1>2. [x \in {k} |-> v] \in Partial(S, T)
    BY <1>1, PartialIs
  <1> QED
    BY <1>2, PartialOver DEF With

LEMMA PartialRestrict ==
    ASSUME NEW S, NEW T, NEW f \in Partial(S, T), NEW d \in SUBSET DOMAIN f
    PROVE  Restrict(f, d) \in Partial(S, T)
  BY DEF Partial, Restrict

LEMMA PlainParts ==
    ASSUME NEW c \in Plain
    PROVE  \/ c.type = "model.mutation_applied" /\ ShortMutation(c)
           \/ /\ c.type \in {"change_planned", "change_applied"}
              /\ c.target \in Targets /\ c.operation \in Operation /\ c.change \in Changes \union {None}
           \/ c.type = "architecture.snapshot_published" /\ c.kept \in SUBSET Targets
           \/ c.type = "work.step_started" /\ c.step \in Steps
           \/ c.type = "work.step_completed" /\ c.step \in Steps
           \/ c.type \in {"work.scope_reported", "agent.finished", "run.finished"}
  <1>1. CASE c \in [type : {"model.mutation_applied"},
                    ops : {<<o>> : o \in Op}
                             \union {<<o, q>> : o \in Op, q \in {r \in Op : r.op # "add"}}]
    <2>1. c.type = "model.mutation_applied"
      BY <1>1
    <2>2. c.ops \in {<<o>> : o \in Op} \union {<<o, q>> : o \in Op, q \in {r \in Op : r.op # "add"}}
      BY <1>1
    <2>3. \/ \E o \in Op : c.ops = <<o>>
          \/ \E o, q \in Op : c.ops = <<o, q>>
      BY <2>2
    <2>4. CASE \E o \in Op : c.ops = <<o>>
      BY <2>1, <2>4 DEF ShortMutation
    <2>5. CASE \E o, q \in Op : c.ops = <<o, q>>
      BY <2>1, <2>5 DEF ShortMutation
    <2> QED
      BY <2>1, <2>3, <2>4, <2>5
  <1>2. CASE c \in [type : {"change_planned", "change_applied"}, target : Targets,
                    operation : Announced, change : Changes \union {None}]
    BY <1>2, LedgerAssumption DEF Operation
  <1>3. CASE c \in [type : {"architecture.snapshot_published"}, kept : SUBSET Targets]
    BY <1>3
  <1>4. CASE c \in [type : {"work.step_started"}, step : Steps, names : Targets]
    BY <1>4
  <1>5. CASE c \in [type : {"work.step_completed"}, step : Steps]
    BY <1>5
  <1>6. CASE c \in [type : {"work.scope_reported"}, names : Targets]
    BY <1>6
  <1>7. CASE c \in [type : {"agent.finished", "run.finished"}]
    BY <1>7
  <1> QED
    BY <1>1, <1>2, <1>3, <1>4, <1>5, <1>6, <1>7 DEF Plain

\* The rows an event writes are descriptors of known targets.
LEMMA RewrittenTyped ==
    ASSUME NEW m \in Models, NEW c \in Plain, NEW p \in Nat, AcceptsModel(m, c),
           c.type \in {"model.mutation_applied", "change_applied"}
    PROVE  Rewritten(m, c, p) \in Partial(Targets, Descriptors)
  <1> DEFINE w == WrittenBy(m, c, p)
  <1>1. Reported(p) \in Descriptors
    BY DEF Reported, Descriptors
  <1>2. w.put \in Partial(Targets, Descriptors)
    <2> DEFINE d == DOMAIN w.put
    <2>1. CASE c.type = "change_applied"
      <3>1. c.target \in Targets
        BY <2>1, PlainParts
      <3>2. d \in SUBSET Targets
        BY <2>1, <3>1 DEF WrittenBy
      <3>3. w.put \in [d -> Descriptors]
        BY <1>1, <2>1 DEF WrittenBy
      <3> QED
        BY <3>2, <3>3, PartialIs
    <2>2. CASE c.type = "model.mutation_applied"
      <3>1. ShortMutation(c)
        BY <2>2, PlainParts
      <3>2. \A i \in DOMAIN c.ops : c.ops[i].target \in Targets /\ c.ops[i].op \in Operation
        BY <2>2, <3>1 DEF ShortMutation, Op
      <3>3. \A i \in DOMAIN c.ops : c.ops[i].op = "modify" => c.ops[i].target \in DOMAIN m.rows
        BY <2>2, <3>2 DEF AcceptsModel
      <3>4. \A t \in DOMAIN m.rows : Patched(m.rows[t], p) \in Descriptors
        BY DEF Models, Partial, Descriptors, Patched
      <3>5. d \in SUBSET Targets
        BY <2>2, <3>2 DEF WrittenBy
      <3>6. w.put \in [d -> Descriptors]
        BY <1>1, <2>2, <3>2, <3>3, <3>4 DEF WrittenBy
      <3> QED
        BY <3>5, <3>6, PartialIs
    <2> QED
      BY <2>1, <2>2
  <1>3. m.rows \in Partial(Targets, Descriptors)
    BY DEF Models
  <1>4. Over(m.rows, w.put) \in Partial(Targets, Descriptors)
    BY <1>2, <1>3, PartialOver
  <1> QED
    BY <1>4, PartialRestrict DEF Rewritten

LEMMA WithRowsTyped ==
    ASSUME NEW m \in Models, NEW rows \in Partial(Targets, Descriptors)
    PROVE  WithRows(m, rows) \in Models /\ WithRows(m, rows).rows = rows
              /\ WithRows(m, rows).changes = m.changes
  BY DEF WithRows, Models, Partial

LEMMA RetractedTyped ==
    ASSUME NEW changes \in Partial(Changes \union Nat, Rows), NEW ref, NEW p \in Nat
    PROVE  RecordRetracted(changes, ref, p) \in Partial(Changes \union Nat, Rows)
  <1>1. changes \in [DOMAIN changes -> Rows] /\ DOMAIN changes \in SUBSET (Changes \union Nat)
    BY PartialHas
  <1>2. \A k \in DOMAIN changes :
           [changes EXCEPT ![k].state = "retracted", ![k].position = p] \in [DOMAIN changes -> Rows]
    BY <1>1 DEF Rows
  <1>3. RecordRetracted(changes, ref, p) \in [DOMAIN changes -> Rows]
    BY <1>1, <1>2 DEF RecordRetracted
  <1> QED
    BY <1>1, <1>3, PartialIs

\* The read model keeps its shape.
LEMMA ProjectTyped ==
    ASSUME NEW m \in Models, NEW c \in Applicable, NEW a \in Agents, NEW p \in Nat,
           WellFormed(c), AcceptsModel(m, c)
    PROVE  Project(m, c, a, p) \in Models
  <1>1. Reported(p) \in Descriptors
    BY DEF Reported, Descriptors
  <1>2. /\ m.rows \in Partial(Targets, Descriptors)
        /\ m.changes \in Partial(Changes \union Nat, Rows)
        /\ m.owner \in Partial(Steps, Agents)
    BY DEF Models
  <1>3. CASE c.type = "retraction.issued"
    BY <1>2, <1>3, RetractedTyped DEF Project, Models
  <1>4. CASE c \in Plain
    <2>1. CASE c.type = "model.mutation_applied"
      BY <1>4, <2>1, RewrittenTyped, WithRowsTyped DEF Project
    <2>2. CASE c.type = "change_applied"
      <3>1. c.target \in Targets /\ c.operation \in Operation /\ ChangeKey(c, p) \in Changes \union Nat
        BY <1>4, <2>2, PlainParts DEF ChangeKey
      <3>2. RecordApplied(m.changes, c, a, p) \in Partial(Changes \union Nat, Rows)
        BY <1>1, <1>2, <3>1, PartialWith DEF RecordApplied, Rows
      <3>3. WithRows(m, Rewritten(m, c, p)) \in Models
        BY <1>4, <2>2, RewrittenTyped, WithRowsTyped
      <3>4. WithRows(m, Rewritten(m, c, p)).changes = m.changes
        BY <1>4, <2>2, RewrittenTyped, WithRowsTyped
      <3>5. Project(m, c, a, p) = [WithRows(m, Rewritten(m, c, p)) EXCEPT !.changes = RecordApplied(m.changes, c, a, p)]
        BY <2>2, <3>4 DEF Project
      <3>6. \A x \in Models, y \in Partial(Changes \union Nat, Rows) : [x EXCEPT !.changes = y] \in Models
        BY DEF Models
      <3> QED
        BY <3>2, <3>3, <3>5, <3>6
    <2>3. CASE c.type = "change_planned"
      <3>1. c.target \in Targets /\ c.operation \in Operation /\ c.change \in Changes
        BY <1>4, <2>3, PlainParts DEF WellFormed
      <3>2. c.change \in DOMAIN m.changes => m.changes[c.change].state \in {"planned", "applied", "retracted"}
        <4>1. m.changes \in [DOMAIN m.changes -> Rows]
          BY <1>2, PartialHas
        <4> QED
          BY <4>1 DEF Rows
      <3>3. RecordPlanned(m.changes, c, a, p) \in Partial(Changes \union Nat, Rows)
        BY <1>1, <1>2, <3>1, <3>2, PartialWith DEF RecordPlanned, Rows
      <3> QED
        BY <2>3, <3>3 DEF Project, Models
    <2>4. CASE c.type = "architecture.snapshot_published"
      <3>1. c.kept \in SUBSET Targets
        BY <1>4, <2>4, PlainParts
      <3>2. Kept(c, p) \in Partial(Targets, Descriptors)
        BY <1>1, <3>1, PartialIs DEF Kept
      <3> QED
        BY <2>4, <3>2, WithRowsTyped DEF Project
    <2>5. CASE c.type = "work.step_started"
      <3>1. With(m.owner, c.step, a) \in Partial(Steps, Agents)
        BY <1>2, <1>4, <2>5, PlainParts, PartialWith
      <3> QED
        BY <2>5, <3>1 DEF Project, Models
    <2>6. CASE c.type = "work.step_completed"
      <3>1. c.step \in Steps
        BY <1>4, <2>6, PlainParts
      <3> QED
        BY <2>6, <3>1 DEF Project, Models
    <2>7. CASE c.type \in {"work.scope_reported", "agent.finished", "run.finished"}
      BY <2>7 DEF Project, Models
    <2> QED
      BY <1>4, <2>1, <2>2, <2>3, <2>4, <2>5, <2>6, <2>7, PlainParts
  <1> QED
    BY <1>3, <1>4 DEF Applicable

\* The rows after an event depend on the model and the event alone.
RowsAfter(m, c, p) ==
    CASE c.type \in {"model.mutation_applied", "change_applied"} -> Rewritten(m, c, p)
      [] c.type = "architecture.snapshot_published" -> Kept(c, p)
      [] OTHER -> m.rows

LEMMA ProjectRows ==
    ASSUME NEW m \in Models, NEW c \in Applicable, NEW a, NEW p
    PROVE  Project(m, c, a, p).rows = RowsAfter(m, c, p)
  <1>1. c.type \in {"model.mutation_applied", "change_planned", "change_applied",
                    "architecture.snapshot_published", "retraction.issued", "work.step_started",
                    "work.step_completed", "work.scope_reported", "agent.finished", "run.finished"}
    BY PlainParts DEF Applicable
  <1>2. CASE c.type = "model.mutation_applied"
    BY <1>2 DEF Project, RowsAfter, WithRows, Models
  <1>3. CASE c.type = "change_applied"
    BY <1>3 DEF Project, RowsAfter, WithRows, Models
  <1>4. CASE c.type = "architecture.snapshot_published"
    BY <1>4 DEF Project, RowsAfter, WithRows, Models
  <1>5. CASE c.type \in {"change_planned", "retraction.issued", "work.step_started"}
    BY <1>5 DEF Project, RowsAfter, Models
  <1>6. CASE c.type \in {"work.step_completed", "work.scope_reported", "agent.finished", "run.finished"}
    BY <1>6 DEF Project, RowsAfter, Models
  <1> QED
    BY <1>1, <1>2, <1>3, <1>4, <1>5, <1>6

-----------------------------------------------------------------------------
(* The log: every entry is typed, and projected from the one before it.          *)

\* The changes of a read model that are no longer pending.
Closed(m) == {c \in DOMAIN m.changes : m.changes[c].state # "planned"}

LogTyped == log \in Seq(LogEntries)

LogProjected ==
    \A q \in DOMAIN log :
        /\ Effective(log[q].event) \in Applicable
        /\ WellFormed(Effective(log[q].event))
        /\ AcceptsModel(ModelAt(q - 1), Effective(log[q].event))
        /\ ModelAt(q).rows = RowsAfter(ModelAt(q - 1), Effective(log[q].event), q)

LogInv == LogTyped /\ LogProjected /\ ClosedChangeStaysClosed

\* No event of an applied or withdrawn change opens it again.
LEMMA ClosedStays ==
    ASSUME NEW m \in Models, NEW c \in Applicable, NEW a \in Agents, NEW p \in Nat,
           WellFormed(c), AcceptsModel(m, c)
    PROVE  Closed(m) \subseteq Closed(Project(m, c, a, p))
  <1> DEFINE n == Project(m, c, a, p)
  <1>0. m.changes \in [DOMAIN m.changes -> Rows]
    BY PartialHas DEF Models
  <1>1. c.type \in {"model.mutation_applied", "change_planned", "change_applied",
                    "architecture.snapshot_published", "retraction.issued", "work.step_started",
                    "work.step_completed", "work.scope_reported", "agent.finished", "run.finished"}
    BY PlainParts DEF Applicable
  <1>2. CASE c.type \in {"model.mutation_applied", "architecture.snapshot_published", "work.step_started",
                         "work.step_completed", "work.scope_reported", "agent.finished", "run.finished"}
    <2>1. n.changes = m.changes
      BY <1>2 DEF Project, WithRows, Models
    <2> QED
      BY <2>1 DEF Closed
  <1>3. CASE c.type = "change_planned"
    <2>1. n.changes = RecordPlanned(m.changes, c, a, p)
      BY <1>3 DEF Project, Models
    <2> QED
      BY <2>1 DEF Closed, RecordPlanned, With, Over
  <1>4. CASE c.type = "change_applied"
    <2>1. n.changes = RecordApplied(m.changes, c, a, p)
      BY <1>4 DEF Project, WithRows, Models
    <2> QED
      BY <2>1 DEF Closed, RecordApplied, With, Over
  <1>5. CASE c.type = "retraction.issued"
    <2>1. n.changes = RecordRetracted(m.changes, c.ref, p)
      BY <1>5 DEF Project, Models
    <2>2. \A k \in DOMAIN m.changes :
             LET r == [m.changes EXCEPT ![k].state = "retracted", ![k].position = p]
             IN  /\ DOMAIN r = DOMAIN m.changes
                 /\ \A x \in DOMAIN r : m.changes[x].state # "planned" => r[x].state # "planned"
      BY <1>0 DEF Rows
    <2>3. \/ n.changes = m.changes
          \/ \E k \in DOMAIN m.changes :
                n.changes = [m.changes EXCEPT ![k].state = "retracted", ![k].position = p]
      BY <2>1 DEF RecordRetracted
    <2>4. /\ DOMAIN n.changes = DOMAIN m.changes
          /\ \A x \in DOMAIN n.changes : m.changes[x].state # "planned" => n.changes[x].state # "planned"
      <3>1. CASE n.changes = m.changes
        BY <3>1
      <3>2. CASE n.changes # m.changes
        <4> PICK k \in DOMAIN m.changes :
                n.changes = [m.changes EXCEPT ![k].state = "retracted", ![k].position = p]
          BY <2>3, <3>2
        <4> QED
          BY <2>2
      <3> QED
        BY <3>1, <3>2
    <2> QED
      BY <2>4 DEF Closed
  <1> QED
    BY <1>1, <1>2, <1>3, <1>4, <1>5

LEMMA ModelTyped ==
    ASSUME LogTyped, NEW n \in 0..Len(log)
    PROVE  ModelAt(n) \in Models
  <1>1. CASE n = 0
    <2>1. \A T : [x \in {} |-> None] \in [{} -> T]
      OBVIOUS
    <2>2. \A S, T : [x \in {} |-> None] \in Partial(S, T)
      BY <2>1, PartialIs
    <2> QED
      BY <1>1, <2>2 DEF ModelAt, EmptyModel, NoDescriptors, Models
  <1>2. CASE n # 0
    <2>1. log \in Seq(LogEntries) /\ n \in 1..Len(log)
      BY <1>2 DEF LogTyped
    <2>2. log[n] \in LogEntries
      BY <2>1
    <2> QED
      BY <1>2, <2>2 DEF LogEntries, ModelAt
  <1> QED
    BY <1>1, <1>2

LEMMA CommitKeeps ==
    ASSUME LogInv, NEW a \in Agents, NEW c \in Contents(Len(log)), Commit(a, c)
    PROVE  LogInv' /\ \A q \in 0..Len(log) : ModelAt(q)' = ModelAt(q)
  <1> DEFINE p == Len(log) + 1
             e == Effective(c)
             m == ModelAt(Len(log))
             n == Project(m, e, a, p)
  <1>0. log \in Seq(LogEntries) /\ Len(log) \in Nat /\ DOMAIN log = 1..Len(log) /\ p \in Nat
    BY DEF LogInv, LogTyped
  <1>1. e \in Applicable /\ c \in Reportable
    <2>1. CASE c \in Plain
      BY <2>1 DEF Effective, Applicable, Reportable, Plain
    <2>2. CASE c \in [type : {"retraction.issued"}, ref : 1..Len(log)]
      BY <1>0, <2>2 DEF Effective, Applicable, Reportable
    <2>3. CASE c \in [type : {"correction.issued"}, ref : 1..Len(log),
                      corrected : {x \in Plain : x.type # "model.mutation_applied"}]
      BY <1>0, <2>3 DEF Effective, Applicable, Reportable
    <2> QED
      BY <2>1, <2>2, <2>3 DEF Contents
  <1>2. WellFormed(e) /\ AcceptsModel(m, e)
    BY DEF Commit
  <1>3. m \in Models
    BY <1>0, ModelTyped DEF LogInv
  <1>4. n \in Models
    BY <1>0, <1>1, <1>2, <1>3, ProjectTyped
  <1>5. log' = Append(log, [event |-> c, agent |-> a, model |-> n])
    BY DEF Commit
  <1>6. [event |-> c, agent |-> a, model |-> n] \in LogEntries
    BY <1>1, <1>4 DEF LogEntries
  <1>7. n.rows = RowsAfter(m, e, p) /\ Closed(m) \subseteq Closed(n)
    BY <1>0, <1>1, <1>2, <1>3, ProjectRows, ClosedStays
  <1> HIDE DEF n, m, e
  <1>8. LogTyped'
    BY <1>0, <1>5, <1>6 DEF LogTyped
  <1>9. DOMAIN log' = 1..p /\ log'[p] = [event |-> c, agent |-> a, model |-> n]
          /\ \A q \in 1..Len(log) : log'[q] = log[q]
    BY <1>0, <1>5, <1>6
  <1>10. (\A q \in 0..Len(log) : ModelAt(q)' = ModelAt(q)) /\ \A q : q = p => ModelAt(q)' = n
    <2>1. ASSUME NEW q \in 0..Len(log) PROVE ModelAt(q)' = ModelAt(q)
      <3>1. q = 0 \/ log'[q] = log[q]
        BY <1>0, <1>9
      <3> QED
        BY <3>1 DEF ModelAt
    <2>2. ASSUME NEW q, q = p PROVE ModelAt(q)' = n
      <3>1. q # 0 /\ log'[q].model = n
        BY <1>0, <1>9, <2>2
      <3> QED
        BY <3>1 DEF ModelAt
    <2> QED
      BY <2>1, <2>2
  <1>11. LogProjected'
    <2> SUFFICES ASSUME NEW q \in 1..p
                 PROVE  /\ Effective(log'[q].event) \in Applicable
                        /\ WellFormed(Effective(log'[q].event))
                        /\ AcceptsModel(ModelAt(q - 1)', Effective(log'[q].event))
                        /\ ModelAt(q)'.rows = RowsAfter(ModelAt(q - 1)', Effective(log'[q].event), q)
      BY <1>9 DEF LogProjected
    <2>1. CASE q \in 1..Len(log)
      <3>1. ModelAt(q - 1)' = ModelAt(q - 1) /\ ModelAt(q)' = ModelAt(q) /\ log'[q] = log[q]
        BY <1>0, <1>9, <1>10, <2>1
      <3>2. /\ Effective(log[q].event) \in Applicable /\ WellFormed(Effective(log[q].event))
            /\ AcceptsModel(ModelAt(q - 1), Effective(log[q].event))
            /\ ModelAt(q).rows = RowsAfter(ModelAt(q - 1), Effective(log[q].event), q)
        BY <1>0, <2>1 DEF LogInv, LogProjected
      <3> QED
        BY <3>1, <3>2
    <2>2. CASE q = p
      <3>1. ModelAt(q - 1)' = m /\ ModelAt(q)' = n /\ Effective(log'[q].event) = e
        BY <1>0, <1>9, <1>10, <2>2 DEF m, e
      <3> QED
        BY <1>1, <1>2, <1>7, <2>2, <3>1
    <2> QED
      BY <1>0, <2>1, <2>2
  <1>12. \A i, j \in DOMAIN log : i < j => Closed(log[i].model) \subseteq Closed(log[j].model)
    BY DEF LogInv, ClosedChangeStaysClosed, Closed
  <1>13. \A i, j \in DOMAIN log' : i < j => Closed(log'[i].model) \subseteq Closed(log'[j].model)
    <2> SUFFICES ASSUME NEW i \in 1..p, NEW j \in 1..p, i < j
                 PROVE  Closed(log'[i].model) \subseteq Closed(log'[j].model)
      BY <1>9
    <2>1. CASE j \in 1..Len(log)
      <3>1. i \in DOMAIN log /\ j \in DOMAIN log /\ log'[i] = log[i] /\ log'[j] = log[j]
        BY <1>0, <1>9, <2>1
      <3> QED
        BY <1>12, <3>1
    <2>2. CASE j = p
      <3>1. Len(log) \in DOMAIN log /\ m = log[Len(log)].model /\ i \in DOMAIN log
        BY <1>0, <2>2 DEF m, ModelAt
      <3>2. Closed(log[i].model) \subseteq Closed(m)
        BY <1>0, <1>12, <3>1
      <3> QED
        BY <1>7, <1>9, <2>2, <3>1, <3>2
    <2> QED
      BY <1>0, <2>1, <2>2
  <1>14. ClosedChangeStaysClosed'
    BY <1>13 DEF ClosedChangeStaysClosed, Closed
  <1> QED
    BY <1>8, <1>10, <1>11, <1>14 DEF LogInv

LEMMA LogInitial == Init => LogInv
  BY DEF Init, LogInv, LogTyped, LogProjected, ClosedChangeStaysClosed

\* The log is the same when it is not written.
LEMMA LogUnchanged ==
    ASSUME LogInv, log' = log
    PROVE  LogInv' /\ \A q \in 0..Len(log) : ModelAt(q)' = ModelAt(q)
  BY DEF LogInv, LogTyped, LogProjected, ClosedChangeStaysClosed, ModelAt

LEMMA LogKept ==
    ASSUME LogInv, [Next]_vars
    PROVE  LogInv'
  <1>1. CASE \E a \in Agents : \E c \in Contents(Len(log)) : Commit(a, c)
    BY <1>1, CommitKeeps
  <1>2. CASE log' = log
    BY <1>2, LogUnchanged
  <1> QED
    BY <1>1, <1>2 DEF Next, Open, Read, Frame, vars

\* A change that was applied or withdrawn is not opened again, whatever is
\* reported of it later: recordPlannedChange leaves the state of a row alone
\* (projector.go:806).
THEOREM ClosedChangesStayClosed == Spec => []ClosedChangeStaysClosed
  <1>1. LogInv => ClosedChangeStaysClosed
    BY DEF LogInv
  <1> QED
    BY <1>1, LogInitial, LogKept, PTL DEF Spec

-----------------------------------------------------------------------------
(* The operations of a mutation: the server writes them together, the browser    *)
(* folds them in one after the other.                                            *)

LEMMA MaxOf == Max({1}) = 1 /\ Max({2}) = 2 /\ Max({1, 2}) = 2
  BY DEF Max

LEMMA OneOperation ==
    ASSUME NEW l, NEW c, NEW a, NEW p, DOMAIN c.ops = {1}
    PROVE  Mutated(l, c, a, p) = AppendOperation(l, c.ops[1], a, p)
  <1> DEFINE step(i, before) == AppendOperation(before, c.ops[i], a, p)
             f == [s \in SUBSET {1} |-> IF s = {} THEN l ELSE step(1, l)]
             iter == CHOOSE g : g = [s \in SUBSET {1} |-> IF s = {} THEN l ELSE step(Max(s), g[s \ {Max(s)}])]
  <1>1. Mutated(l, c, a, p) = iter[{1}]
    BY DEF Mutated, FoldLeft, MapThenFoldSet
  <1> HIDE DEF step
  <1>2. SUBSET {1} = {{}, {1}}
    OBVIOUS
  <1>3. f = [s \in SUBSET {1} |-> IF s = {} THEN l ELSE step(Max(s), f[s \ {Max(s)}])]
    <2>1. f[{}] = l /\ f[{1}] = step(1, l)
      OBVIOUS
    <2>2. {1} \ {1} = {}
      OBVIOUS
    <2>3. \A s \in SUBSET {1} : f[s] = IF s = {} THEN l ELSE step(Max(s), f[s \ {Max(s)}])
      <3> HIDE DEF f
      <3>1. f[{1}] = step(Max({1}), f[{1} \ {Max({1})}])
        BY <2>1, <2>2, MaxOf
      <3>2. {1} # {}
        OBVIOUS
      <3> QED
        BY <1>2, <2>1, <3>1, <3>2
    <2>4. f = [s \in SUBSET {1} |-> f[s]]
      OBVIOUS
    <2> HIDE DEF f
    <2> QED
      BY <2>3, <2>4
  <1> HIDE DEF f
  <1>4. iter = [s \in SUBSET {1} |-> IF s = {} THEN l ELSE step(Max(s), iter[s \ {Max(s)}])]
    BY <1>3
  <1> HIDE DEF iter
  <1>5. {1} \ {1} = {}
    OBVIOUS
  <1>6. iter[{}] = l /\ iter[{1}] = step(1, iter[{}])
    BY <1>4, <1>5, MaxOf
  <1> QED
    BY <1>1, <1>6 DEF step

LEMMA TwoOperations ==
    ASSUME NEW l, NEW c, NEW a, NEW p, DOMAIN c.ops = {1, 2}
    PROVE  Mutated(l, c, a, p) = AppendOperation(AppendOperation(l, c.ops[1], a, p), c.ops[2], a, p)
  <1> DEFINE step(i, before) == AppendOperation(before, c.ops[i], a, p)
             f == [s \in SUBSET {1, 2} |-> IF s = {} THEN l ELSE IF s = {1} THEN step(1, l)
                                           ELSE IF s = {2} THEN step(2, l) ELSE step(2, step(1, l))]
             iter == CHOOSE g : g = [s \in SUBSET {1, 2} |-> IF s = {} THEN l ELSE step(Max(s), g[s \ {Max(s)}])]
  <1>1. Mutated(l, c, a, p) = iter[{1, 2}]
    BY DEF Mutated, FoldLeft, MapThenFoldSet
  <1> HIDE DEF step
  <1>2. SUBSET {1, 2} = {{}, {1}, {2}, {1, 2}}
    OBVIOUS
  <1>3. f = [s \in SUBSET {1, 2} |-> IF s = {} THEN l ELSE step(Max(s), f[s \ {Max(s)}])]
    <2>1. f[{}] = l /\ f[{1}] = step(1, l) /\ f[{2}] = step(2, l) /\ f[{1, 2}] = step(2, step(1, l))
      OBVIOUS
    <2>2. {1} \ {1} = {} /\ {2} \ {2} = {} /\ {1, 2} \ {2} = {1}
      OBVIOUS
    <2>3. \A s \in SUBSET {1, 2} : f[s] = IF s = {} THEN l ELSE step(Max(s), f[s \ {Max(s)}])
      <3> HIDE DEF f
      <3> QED
        BY <1>2, <2>1, <2>2, MaxOf
    <2>4. f = [s \in SUBSET {1, 2} |-> f[s]]
      OBVIOUS
    <2> HIDE DEF f
    <2> QED
      BY <2>3, <2>4
  <1> HIDE DEF f
  <1>4. iter = [s \in SUBSET {1, 2} |-> IF s = {} THEN l ELSE step(Max(s), iter[s \ {Max(s)}])]
    BY <1>3
  <1> HIDE DEF iter
  <1>5. {1} \ {1} = {} /\ {1, 2} \ {2} = {1}
    OBVIOUS
  <1>6. iter[{}] = l /\ iter[{1}] = step(1, iter[{}]) /\ iter[{1, 2}] = step(2, iter[{1}])
    BY <1>4, <1>5, MaxOf
  <1> QED
    BY <1>1, <1>6 DEF step

\* One operation on the descriptors d.
Written(d, o, p) ==
    IF o.op = "remove" THEN Restrict(d, DOMAIN d \ {o.target})
    ELSE With(d, o.target, IF o.op = "add" THEN Reported(p) ELSE Patched(d[o.target], p))

LEMMA RemoveDomain ==
    ASSUME NEW d, NEW o, NEW p, o.op = "remove"
    PROVE  DOMAIN Written(d, o, p) = DOMAIN d \ {o.target}
  BY DEF Written, Restrict, With, Over

LEMMA PutDomain ==
    ASSUME NEW d, NEW o, NEW p, o.op # "remove"
    PROVE  DOMAIN Written(d, o, p) = DOMAIN d \union {o.target}
  BY DEF Written, Restrict, With, Over

LEMMA OthersStay ==
    ASSUME NEW d, NEW o, NEW p, NEW t \in DOMAIN d, t # o.target
    PROVE  Written(d, o, p)[t] = d[t]
  BY DEF Written, Restrict, With, Over

LEMMA AddWrites ==
    ASSUME NEW d, NEW o, NEW p, o.op = "add"
    PROVE  Written(d, o, p)[o.target] = Reported(p)
  BY DEF Written, Restrict, With, Over

LEMMA ModifyWrites ==
    ASSUME NEW d, NEW o, NEW p, o.op = "modify"
    PROVE  Written(d, o, p)[o.target] = Patched(d[o.target], p)
  BY DEF Written, Restrict, With, Over

LEMMA WrittenFunction ==
    ASSUME NEW d, NEW o, NEW p
    PROVE  Written(d, o, p) = [t \in DOMAIN Written(d, o, p) |-> Written(d, o, p)[t]]
  BY DEF Written, Restrict, With, Over

\* What the server writes for a mutation, target by target.
TargetsOf(c, x) == {c.ops[i].target : i \in {j \in DOMAIN c.ops : c.ops[j].op = x}}

LEMMA RewrittenDomain ==
    ASSUME NEW m, NEW c, NEW p, c.type = "model.mutation_applied"
    PROVE  DOMAIN Rewritten(m, c, p) = (DOMAIN m.rows \union TargetsOf(c, "add") \union TargetsOf(c, "modify"))
                                             \ TargetsOf(c, "remove")
  BY DEF Rewritten, WrittenBy, Restrict, Over, TargetsOf

LEMMA RewrittenModify ==
    ASSUME NEW m, NEW c, NEW p, c.type = "model.mutation_applied",
           NEW t \in DOMAIN Rewritten(m, c, p), t \in TargetsOf(c, "modify")
    PROVE  Rewritten(m, c, p)[t] = Patched(m.rows[t], p)
  BY DEF Rewritten, WrittenBy, Restrict, Over, TargetsOf

LEMMA RewrittenAdd ==
    ASSUME NEW m, NEW c, NEW p, c.type = "model.mutation_applied",
           NEW t \in DOMAIN Rewritten(m, c, p), t \in TargetsOf(c, "add"), t \notin TargetsOf(c, "modify")
    PROVE  Rewritten(m, c, p)[t] = Reported(p)
  BY DEF Rewritten, WrittenBy, Restrict, Over, TargetsOf

LEMMA RewrittenOthers ==
    ASSUME NEW m, NEW c, NEW p, c.type = "model.mutation_applied",
           NEW t \in DOMAIN Rewritten(m, c, p), t \notin TargetsOf(c, "add"), t \notin TargetsOf(c, "modify")
    PROVE  Rewritten(m, c, p)[t] = m.rows[t]
  BY DEF Rewritten, WrittenBy, Restrict, Over, TargetsOf

LEMMA RewrittenFunction ==
    ASSUME NEW m, NEW c, NEW p
    PROVE  Rewritten(m, c, p) = [t \in DOMAIN Rewritten(m, c, p) |-> Rewritten(m, c, p)[t]]
  BY DEF Rewritten, Restrict

LEMMA SameFunction ==
    ASSUME NEW f, NEW g, f = [t \in DOMAIN f |-> f[t]], g = [t \in DOMAIN g |-> g[t]],
           DOMAIN f = DOMAIN g, \A t \in DOMAIN f : f[t] = g[t]
    PROVE  f = g
  OBVIOUS

LEMMA RewrittenOne ==
    ASSUME NEW m, NEW c, NEW p, c.type = "model.mutation_applied",
           DOMAIN c.ops = {1}, c.ops[1] \in Op
    PROVE  Rewritten(m, c, p) = Written(m.rows, c.ops[1], p)
  <1> DEFINE o == c.ops[1]
             n == Rewritten(m, c, p)
             w == Written(m.rows, o, p)
  <1>1. o.op \in Operation /\ \A x : TargetsOf(c, x) = IF o.op = x THEN {o.target} ELSE {}
    BY DEF Op, TargetsOf
  <1>2. DOMAIN w = IF o.op = "remove" THEN DOMAIN m.rows \ {o.target} ELSE DOMAIN m.rows \union {o.target}
    BY RemoveDomain, PutDomain
  <1>3. DOMAIN n = (DOMAIN m.rows \union TargetsOf(c, "add") \union TargetsOf(c, "modify"))
                     \ TargetsOf(c, "remove")
    BY RewrittenDomain
  <1>4. DOMAIN w = DOMAIN n
    <2> HIDE DEF n, w, o
    <2> QED
      BY <1>1, <1>2, <1>3 DEF Operation
  <1>5. ASSUME NEW t \in DOMAIN n PROVE n[t] = w[t]
    <2>1. CASE t # o.target
      <3>1. t \in DOMAIN m.rows
        BY <1>1, <1>3, <2>1
      <3> QED
        BY <1>1, <2>1, <3>1, RewrittenOthers, OthersStay
    <2>2. CASE t = o.target /\ o.op = "add"
      BY <1>1, <2>2, RewrittenAdd, AddWrites
    <2>3. CASE t = o.target /\ o.op = "modify"
      BY <1>1, <2>3, RewrittenModify, ModifyWrites
    <2>4. CASE t = o.target /\ o.op = "remove"
      BY <1>1, <1>3, <2>4
    <2> QED
      BY <1>1, <2>1, <2>2, <2>3, <2>4 DEF Operation
  <1> QED
    BY <1>4, <1>5, SameFunction, RewrittenFunction, WrittenFunction

LEMMA RewrittenTwo ==
    ASSUME NEW m, NEW c, NEW p, c.type = "model.mutation_applied",
           DOMAIN c.ops = {1, 2}, c.ops[1] \in Op, c.ops[2] \in Op, c.ops[1].target # c.ops[2].target,
           c.ops[2].op = "modify" => c.ops[2].target \in DOMAIN m.rows
    PROVE  Rewritten(m, c, p) = Written(Written(m.rows, c.ops[1], p), c.ops[2], p)
  <1> DEFINE o == c.ops[1]
             q == c.ops[2]
             n == Rewritten(m, c, p)
             v == Written(m.rows, o, p)
             w == Written(v, q, p)
  <1>1. /\ o.op \in Operation /\ q.op \in Operation /\ o.target # q.target
        /\ \A x : TargetsOf(c, x) = (IF o.op = x THEN {o.target} ELSE {})
                                      \union (IF q.op = x THEN {q.target} ELSE {})
    BY DEF Op, TargetsOf
  <1>2. DOMAIN v = IF o.op = "remove" THEN DOMAIN m.rows \ {o.target} ELSE DOMAIN m.rows \union {o.target}
    BY RemoveDomain, PutDomain
  <1>3. DOMAIN w = IF q.op = "remove" THEN DOMAIN v \ {q.target} ELSE DOMAIN v \union {q.target}
    BY RemoveDomain, PutDomain
  <1>4. DOMAIN n = (DOMAIN m.rows \union TargetsOf(c, "add") \union TargetsOf(c, "modify"))
                     \ TargetsOf(c, "remove")
    BY RewrittenDomain
  <1>5. DOMAIN w = DOMAIN n
    <2> HIDE DEF n, v, w, o, q
    <2> QED
      BY <1>1, <1>2, <1>3, <1>4 DEF Operation
  <1>6. ASSUME NEW t \in DOMAIN n PROVE n[t] = w[t]
    <2>1. CASE t # o.target /\ t # q.target
      <3>1. t \in DOMAIN m.rows
        BY <1>1, <1>4, <2>1
      <3>2. t \in DOMAIN v
        BY <1>2, <2>1, <3>1
      <3>3. w[t] = v[t] /\ v[t] = m.rows[t]
        BY <2>1, <3>1, <3>2, OthersStay
      <3>4. n[t] = m.rows[t]
        BY <1>1, <2>1, RewrittenOthers
      <3> QED
        BY <3>3, <3>4
    <2>2. CASE t = o.target
      <3>1. o.op # "remove"
        BY <1>1, <1>4, <2>2
      <3>2. w[t] = v[t]
        BY <1>1, <1>2, <2>2, <3>1, OthersStay
      <3>3. CASE o.op = "add"
        BY <1>1, <2>2, <3>2, <3>3, RewrittenAdd, AddWrites
      <3>4. CASE o.op = "modify"
        BY <1>1, <2>2, <3>2, <3>4, RewrittenModify, ModifyWrites
      <3> QED
        BY <1>1, <3>1, <3>3, <3>4 DEF Operation
    <2>3. CASE t = q.target
      <3>1. q.op # "remove"
        BY <1>1, <1>4, <2>3
      <3>2. CASE q.op = "add"
        BY <1>1, <2>3, <3>2, RewrittenAdd, AddWrites
      <3>3. CASE q.op = "modify"
        <4>1. v[t] = m.rows[t]
          BY <1>1, <2>3, <3>3, OthersStay
        <4> QED
          BY <1>1, <2>3, <3>3, <4>1, RewrittenModify, ModifyWrites
      <3> QED
        BY <1>1, <3>1, <3>2, <3>3 DEF Operation
    <2> QED
      BY <2>1, <2>2, <2>3
  <1> QED
    BY <1>5, <1>6, SameFunction, RewrittenFunction, WrittenFunction

-----------------------------------------------------------------------------
(* One event folded into the ledger.                                             *)

LedgerFields == {"last", "history", "steps", "descriptors", "modelPosition", "scopes", "ended", "runEnded"}
IsLedger(l) == DOMAIN l = LedgerFields /\ l = [x \in LedgerFields |-> l[x]]

\* The events that write rows.
Writes(c) == c.type \in {"model.mutation_applied", "change_applied", "architecture.snapshot_published"}

LEMMA AppendShape ==
    ASSUME NEW l, IsLedger(l), NEW f, NEW a, NEW p
    PROVE  /\ IsLedger(AppendChange(l, f, a, p))
           /\ AppendChange(l, f, a, p).modelPosition = IF f.phase = "applied" THEN p ELSE l.modelPosition
           /\ AppendChange(l, f, a, p).steps = l.steps
  BY DEF AppendChange, IsLedger, LedgerFields

LEMMA AppendPlanned ==
    ASSUME NEW l, IsLedger(l), NEW f, NEW a, NEW p, f.phase # "applied"
    PROVE  AppendChange(l, f, a, p).descriptors = l.descriptors
  BY DEF AppendChange, IsLedger, LedgerFields

LEMMA AppendRemoval ==
    ASSUME NEW l, IsLedger(l), NEW f, NEW a, NEW p, f.phase = "applied", f.operation = "remove"
    PROVE  AppendChange(l, f, a, p).descriptors = Restrict(l.descriptors, DOMAIN l.descriptors \ {f.target})
  BY DEF AppendChange, IsLedger, LedgerFields

LEMMA AppendPut ==
    ASSUME NEW l, IsLedger(l), NEW f, NEW a, NEW p, f.phase = "applied", f.operation # "remove", f.snapshot # None
    PROVE  AppendChange(l, f, a, p).descriptors = With(l.descriptors, f.target, f.snapshot)
  BY DEF AppendChange, IsLedger, LedgerFields

LEMMA OperationShape ==
    ASSUME NEW l, IsLedger(l), NEW o, NEW a, NEW p
    PROVE  /\ IsLedger(AppendOperation(l, o, a, p))
           /\ AppendOperation(l, o, a, p).modelPosition = p
           /\ AppendOperation(l, o, a, p).steps = l.steps
  BY AppendShape DEF AppendOperation

LEMMA OperationFolded ==
    ASSUME NEW l, IsLedger(l), NEW o \in Op, NEW a, NEW p \in Nat,
           l.descriptors \in Partial(Targets, Descriptors),
           o.op = "modify" => o.target \in DOMAIN l.descriptors
    PROVE  AppendOperation(l, o, a, p).descriptors = Written(l.descriptors, o, p)
  <1> DEFINE f == [target |-> o.target, operation |-> o.op, phase |-> "applied",
                   snapshot |-> SnapshotOf(l, o, p), direct |-> TRUE]
  <1>0. AppendOperation(l, o, a, p) = AppendChange(l, f, a, p)
    BY DEF AppendOperation
  <1>1. /\ f.target = o.target /\ f.operation = o.op /\ f.phase = "applied"
        /\ f.snapshot = SnapshotOf(l, o, p)
    OBVIOUS
  <1> HIDE DEF f
  <1>2. CASE o.op = "remove"
    <2>1. AppendChange(l, f, a, p).descriptors = Restrict(l.descriptors, DOMAIN l.descriptors \ {f.target})
      BY <1>1, <1>2, AppendRemoval
    <2> QED
      BY <1>0, <1>1, <1>2, <2>1 DEF Written
  <1>3. CASE o.op = "add"
    <2>1. SnapshotOf(l, o, p) = Reported(p)
      BY <1>3 DEF SnapshotOf
    <2>2. Reported(p) # None
      BY LedgerAssumption DEF Reported
    <2> QED
      BY <1>0, <1>1, <1>3, <2>1, <2>2, AppendPut DEF Written
  <1>4. CASE o.op = "modify"
    <2>1. l.descriptors \in [DOMAIN l.descriptors -> Descriptors]
      BY PartialHas
    <2>2. l.descriptors[o.target] \in Descriptors
      BY <1>4, <2>1
    <2>3. l.descriptors[o.target] # None /\ Patched(l.descriptors[o.target], p) # None
      BY <2>2, LedgerAssumption DEF Descriptors, Patched
    <2>4. SnapshotOf(l, o, p) = Patched(l.descriptors[o.target], p)
      BY <1>4, <2>3 DEF SnapshotOf
    <2> QED
      BY <1>0, <1>1, <1>4, <2>3, <2>4, AppendPut DEF Written
  <1> QED
    BY <1>2, <1>3, <1>4 DEF Op, Operation

LEMMA WrittenTyped ==
    ASSUME NEW d \in Partial(Targets, Descriptors), NEW o \in Op, NEW p \in Nat,
           o.op = "modify" => o.target \in DOMAIN d
    PROVE  Written(d, o, p) \in Partial(Targets, Descriptors)
  <1>1. d \in [DOMAIN d -> Descriptors]
    BY PartialHas
  <1>2. o.op = "modify" => Patched(d[o.target], p) \in Descriptors
    BY <1>1 DEF Descriptors, Patched
  <1>3. Reported(p) \in Descriptors
    BY DEF Reported, Descriptors
  <1>4. o.target \in Targets /\ o.op \in Operation
    BY DEF Op
  <1>5. CASE o.op = "remove"
    BY <1>5, PartialRestrict DEF Written
  <1>6. CASE o.op = "add"
    BY <1>3, <1>4, <1>6, PartialWith DEF Written
  <1>7. CASE o.op = "modify"
    BY <1>2, <1>4, <1>7, PartialWith DEF Written
  <1> QED
    BY <1>4, <1>5, <1>6, <1>7 DEF Operation

\* The operations of a mutation in the ledger and in the read model come to the
\* same rows: each names another target, so their order does not matter.
LEMMA MutationFolded ==
    ASSUME NEW l, IsLedger(l), NEW m \in Models, l.descriptors = m.rows,
           NEW c, c.type = "model.mutation_applied", ShortMutation(c),
           WellFormed(c), AcceptsModel(m, c), NEW a, NEW p \in Nat
    PROVE  Mutated(l, c, a, p).descriptors = Rewritten(m, c, p)
  <1>1. m.rows \in Partial(Targets, Descriptors)
    BY DEF Models
  <1>2. \A i \in DOMAIN c.ops : c.ops[i].op = "modify" => c.ops[i].target \in DOMAIN m.rows
    BY DEF AcceptsModel
  <1>3. \A i, j \in DOMAIN c.ops : c.ops[i].target = c.ops[j].target => i = j
    BY DEF WellFormed, IsInjective
  <1>4. CASE DOMAIN c.ops = {1} /\ c.ops[1] \in Op
    BY <1>1, <1>2, <1>4, OneOperation, OperationFolded, RewrittenOne
  <1>5. CASE DOMAIN c.ops = {1, 2} /\ c.ops[1] \in Op /\ c.ops[2] \in Op
    <2> DEFINE k == AppendOperation(l, c.ops[1], a, p)
    <2>1. IsLedger(k)
      BY OperationShape
    <2>2. k.descriptors = Written(m.rows, c.ops[1], p)
      BY <1>1, <1>2, <1>5, OperationFolded
    <2>3. k.descriptors \in Partial(Targets, Descriptors)
      BY <1>1, <1>2, <1>5, <2>2, WrittenTyped
    <2>4. c.ops[1].target # c.ops[2].target
      BY <1>3, <1>5
    <2>5. c.ops[2].op = "modify" => c.ops[2].target \in DOMAIN m.rows
      BY <1>2, <1>5
    <2>6. c.ops[2].op = "modify" => c.ops[2].target \in DOMAIN k.descriptors
      <3>1. DOMAIN Written(m.rows, c.ops[1], p) = IF c.ops[1].op = "remove"
                                                  THEN DOMAIN m.rows \ {c.ops[1].target}
                                                  ELSE DOMAIN m.rows \union {c.ops[1].target}
        BY RemoveDomain, PutDomain
      <3> HIDE DEF k
      <3> QED
        BY <2>2, <2>4, <2>5, <3>1
    <2>7. Mutated(l, c, a, p) = AppendOperation(k, c.ops[2], a, p)
      BY <1>5, TwoOperations
    <2>8. AppendOperation(k, c.ops[2], a, p).descriptors = Written(k.descriptors, c.ops[2], p)
      <3> HIDE DEF k
      <3> QED
        BY <1>5, <2>1, <2>3, <2>6, OperationFolded
    <2>9. Rewritten(m, c, p) = Written(Written(m.rows, c.ops[1], p), c.ops[2], p)
      BY <1>5, <2>4, <2>5, RewrittenTwo
    <2> QED
      BY <2>2, <2>7, <2>8, <2>9
  <1> QED
    BY <1>4, <1>5 DEF ShortMutation

LEMMA MutationShape ==
    ASSUME NEW l, IsLedger(l), NEW c, c.type = "model.mutation_applied", ShortMutation(c), NEW a, NEW p
    PROVE  /\ IsLedger(Mutated(l, c, a, p))
           /\ Mutated(l, c, a, p).modelPosition = p
           /\ Mutated(l, c, a, p).steps = l.steps
  <1>1. CASE DOMAIN c.ops = {1}
    BY <1>1, OneOperation, OperationShape
  <1>2. CASE DOMAIN c.ops = {1, 2}
    BY <1>2, TwoOperations, OperationShape
  <1> QED
    BY <1>1, <1>2 DEF ShortMutation

\* An applied change is written alike on both sides.
LEMMA AppliedRewritten ==
    ASSUME NEW m, NEW c, NEW p, c.type = "change_applied", c.operation \in Operation
    PROVE  Rewritten(m, c, p) = IF c.operation = "remove" THEN Restrict(m.rows, DOMAIN m.rows \ {c.target})
                                ELSE With(m.rows, c.target, Reported(p))
  <1> DEFINE n == Rewritten(m, c, p)
  <1>1. CASE c.operation = "remove"
    <2> DEFINE w == Restrict(m.rows, DOMAIN m.rows \ {c.target})
    <2>1. DOMAIN n = DOMAIN m.rows \ {c.target} /\ \A t \in DOMAIN n : n[t] = m.rows[t]
      BY <1>1 DEF Rewritten, WrittenBy, Restrict, Over
    <2>2. DOMAIN w = DOMAIN m.rows \ {c.target} /\ \A t \in DOMAIN w : w[t] = m.rows[t]
      BY DEF Restrict
    <2>3. w = [t \in DOMAIN w |-> w[t]]
      BY DEF Restrict
    <2>4. n = [t \in DOMAIN n |-> n[t]]
      BY RewrittenFunction
    <2> HIDE DEF n, w
    <2>5. n = w
      BY <2>1, <2>2, <2>3, <2>4
    <2> QED
      BY <1>1, <2>5 DEF n, w
  <1>2. CASE c.operation # "remove"
    <2> DEFINE w == With(m.rows, c.target, Reported(p))
    <2>1. DOMAIN n = DOMAIN m.rows \union {c.target}
            /\ \A t \in DOMAIN n : n[t] = IF t = c.target THEN Reported(p) ELSE m.rows[t]
      BY <1>2 DEF Rewritten, WrittenBy, Restrict, Over, Operation
    <2>2. DOMAIN w = DOMAIN m.rows \union {c.target}
            /\ \A t \in DOMAIN w : w[t] = IF t = c.target THEN Reported(p) ELSE m.rows[t]
      BY DEF With, Over
    <2>3. w = [t \in DOMAIN w |-> w[t]]
      BY DEF With, Over
    <2>4. n = [t \in DOMAIN n |-> n[t]]
      BY RewrittenFunction
    <2> HIDE DEF n, w
    <2>5. n = w
      BY <2>1, <2>2, <2>3, <2>4
    <2> QED
      BY <1>2, <2>5 DEF n, w
  <1> QED
    BY <1>1, <1>2

\* What an event leaves of the model's part of the ledger, whatever was in it.
LEMMA ContentShape ==
    ASSUME NEW l, IsLedger(l), NEW c \in Applicable, NEW a, NEW p
    PROVE  /\ IsLedger(ApplyContent(l, c, a, p))
           /\ ApplyContent(l, c, a, p).modelPosition = IF Writes(c) THEN p ELSE l.modelPosition
  <1>1. CASE c.type = "model.mutation_applied"
    <2>1. ShortMutation(c)
      BY <1>1, PlainParts DEF Applicable
    <2> QED
      BY <1>1, <2>1, MutationShape DEF ApplyContent, Writes
  <1>2. CASE c.type \in {"change_planned", "change_applied"}
    <2> DEFINE f == [target |-> c.target, operation |-> c.operation,
                     phase |-> IF c.type = "change_planned" THEN "planned" ELSE "applied",
                     snapshot |-> Reported(p), direct |-> FALSE]
    <2>1. ApplyContent(l, c, a, p) = AppendChange(l, f, a, p)
      BY <1>2 DEF ApplyContent
    <2>2. f.phase = "applied" <=> c.type = "change_applied"
      BY <1>2
    <2> HIDE DEF f
    <2> QED
      BY <1>2, <2>1, <2>2, AppendShape DEF Writes
  <1>3. CASE c.type = "architecture.snapshot_published"
    BY <1>3 DEF ApplyContent, IsLedger, LedgerFields, Writes
  <1>4. CASE c.type \in {"work.step_started", "work.step_completed"}
    BY <1>4 DEF ApplyContent, WithoutStep, IsLedger, LedgerFields, Writes
  <1>5. CASE c.type \in {"work.scope_reported", "agent.finished", "run.finished"}
    BY <1>5 DEF ApplyContent, IsLedger, LedgerFields, Writes
  <1>6. CASE c.type = "retraction.issued"
    BY <1>6 DEF ApplyContent, Marked, WithoutStepOf, IsLedger, LedgerFields, Writes
  <1> QED
    BY <1>1, <1>2, <1>3, <1>4, <1>5, <1>6, PlainParts DEF Applicable

\* A ledger that agrees with the model agrees with it after the next event.
LEMMA ContentFolded ==
    ASSUME NEW l, IsLedger(l), NEW m \in Models, l.descriptors = m.rows,
           NEW c \in Applicable, WellFormed(c), AcceptsModel(m, c), NEW a, NEW p \in Nat
    PROVE  ApplyContent(l, c, a, p).descriptors = RowsAfter(m, c, p)
  <1>1. CASE c.type = "model.mutation_applied"
    <2>1. ShortMutation(c)
      BY <1>1, PlainParts DEF Applicable
    <2> QED
      BY <1>1, <2>1, MutationFolded DEF ApplyContent, RowsAfter
  <1>2. CASE c.type \in {"change_planned", "change_applied"}
    <2> DEFINE f == [target |-> c.target, operation |-> c.operation,
                     phase |-> IF c.type = "change_planned" THEN "planned" ELSE "applied",
                     snapshot |-> Reported(p), direct |-> FALSE]
    <2>1. ApplyContent(l, c, a, p) = AppendChange(l, f, a, p)
      BY <1>2 DEF ApplyContent
    <2>2. /\ f.phase = "applied" <=> c.type = "change_applied"
          /\ f.operation = c.operation /\ f.target = c.target /\ f.snapshot = Reported(p)
      BY <1>2
    <2>3. Reported(p) # None
      BY LedgerAssumption DEF Reported
    <2> HIDE DEF f
    <2>4. CASE c.type = "change_planned"
      BY <2>1, <2>2, <2>4, AppendPlanned DEF RowsAfter
    <2>5. CASE c.type = "change_applied"
      <3>1. c.operation \in Operation
        BY <2>5, PlainParts DEF Applicable
      <3>2. RowsAfter(m, c, p) = IF c.operation = "remove" THEN Restrict(m.rows, DOMAIN m.rows \ {c.target})
                                 ELSE With(m.rows, c.target, Reported(p))
        BY <2>5, <3>1, AppliedRewritten DEF RowsAfter
      <3>3. CASE c.operation = "remove"
        BY <2>1, <2>2, <2>5, <3>2, <3>3, AppendRemoval
      <3>4. CASE c.operation # "remove"
        BY <2>1, <2>2, <2>3, <2>5, <3>2, <3>4, AppendPut
      <3> QED
        BY <3>3, <3>4
    <2> QED
      BY <1>2, <2>4, <2>5
  <1>3. CASE c.type = "architecture.snapshot_published"
    BY <1>3 DEF ApplyContent, IsLedger, LedgerFields, RowsAfter
  <1>4. CASE c.type \in {"work.step_started", "work.step_completed"}
    BY <1>4 DEF ApplyContent, WithoutStep, IsLedger, LedgerFields, RowsAfter
  <1>5. CASE c.type \in {"work.scope_reported", "agent.finished", "run.finished"}
    BY <1>5 DEF ApplyContent, IsLedger, LedgerFields, RowsAfter
  <1>6. CASE c.type = "retraction.issued"
    BY <1>6 DEF ApplyContent, Marked, WithoutStepOf, IsLedger, LedgerFields, RowsAfter
  <1> QED
    BY <1>1, <1>2, <1>3, <1>4, <1>5, <1>6, PlainParts DEF Applicable

LEMMA MarkedShape ==
    ASSUME NEW l, IsLedger(l), NEW ref, NEW mark
    PROVE  /\ IsLedger(Marked(l, ref, mark))
           /\ Marked(l, ref, mark).modelPosition = l.modelPosition
           /\ Marked(l, ref, mark).descriptors = l.descriptors
  BY DEF Marked, WithoutStepOf, IsLedger, LedgerFields

\* applyEvent: a correction marks and folds in its content like any other.
LEMMA Applied ==
    ASSUME NEW l, IsLedger(l), NEW c \in Reportable, Effective(c) \in Applicable, NEW a, NEW p \in Nat
    PROVE  /\ IsLedger(Apply(l, c, a, p))
           /\ Apply(l, c, a, p).modelPosition = IF Writes(Effective(c)) THEN p ELSE l.modelPosition
           /\ Effective(c).type = "architecture.snapshot_published" =>
                 Apply(l, c, a, p).descriptors = Kept(Effective(c), p)
           /\ \A m \in Models :
                 l.descriptors = m.rows /\ WellFormed(Effective(c)) /\ AcceptsModel(m, Effective(c)) =>
                    Apply(l, c, a, p).descriptors = RowsAfter(m, Effective(c), p)
  <1> DEFINE k == IF c.type = "correction.issued" THEN Marked(l, c.ref, "superseded") ELSE l
  <1>1. Apply(l, c, a, p) = ApplyContent(k, Effective(c), a, p)
    BY DEF Apply, Effective
  <1>2. IsLedger(k) /\ k.modelPosition = l.modelPosition /\ k.descriptors = l.descriptors
    BY MarkedShape
  <1> HIDE DEF k
  <1>3. Effective(c).type = "architecture.snapshot_published" =>
           ApplyContent(k, Effective(c), a, p).descriptors = Kept(Effective(c), p)
    BY <1>2 DEF ApplyContent, IsLedger, LedgerFields
  <1> QED
    BY <1>1, <1>2, <1>3, ContentShape, ContentFolded

-----------------------------------------------------------------------------
(* The descriptors and the rows.                                                 *)

\* The position the ledger has come to: what it received last, or where the
\* stream began.
Reached == IF ledger.last = 0 THEN opened ELSE ledger.last

\* Since the position the descriptors speak of nothing was written, so an answer
\* that is not older than it says the same as the newest one.
QuietSince == \A q \in opened..Reached : q >= ledger.modelPosition => ModelAt(q).rows = ModelAt(Reached).rows

ModelInStep ==
    /\ IsLedger(ledger) /\ observed \in BOOLEAN
    /\ cache \in 0..Len(log) \union {None}
    /\ opened = None => ~observed /\ ledger.last = 0 /\ ledger.modelPosition = 0
    /\ opened # None =>
          /\ opened \in 0..Len(log)
          /\ ledger.last = 0 \/ ledger.last \in (opened + 1)..Len(log)
          /\ ledger.modelPosition \in 0..Reached
          /\ QuietSince
          /\ observed => /\ ledger.last # 0 /\ ledger.modelPosition >= opened
                         /\ ledger.descriptors = ModelAt(ledger.last).rows
          /\ \A q \in (opened + 1)..ledger.last :
                Content(q).type = "architecture.snapshot_published" => observed

LedgerInv == LogInv /\ ModelInStep

LEMMA LedgerInitial == Init => LedgerInv
  <1> SUFFICES ASSUME Init PROVE ModelInStep
    BY LogInitial DEF LedgerInv
  <1> QED
    BY DEF Init, ModelInStep, EmptyLedger, IsLedger, LedgerFields

LEMMA CommitInStep ==
    ASSUME LedgerInv, NEW a \in Agents, NEW c \in Contents(Len(log)), Commit(a, c)
    PROVE  ModelInStep'
  <1>1. /\ \A q \in 0..Len(log) : ModelAt(q)' = ModelAt(q)
        /\ log \in Seq(LogEntries) /\ log' \in Seq(LogEntries)
    BY CommitKeeps DEF LedgerInv, LogInv, LogTyped
  <1>2. Len(log') = Len(log) + 1 /\ Len(log) \in Nat /\ \A q \in 1..Len(log) : log'[q] = log[q]
    BY <1>1 DEF Commit
  <1>3. UNCHANGED <<opened, cache, ledger, observed>>
    BY DEF Commit
  <1>4. ModelInStep
    BY DEF LedgerInv
  <1>5. CASE opened = None
    BY <1>2, <1>3, <1>4, <1>5 DEF ModelInStep
  <1>6. CASE opened # None
    <2>1. /\ opened \in 0..Len(log)
          /\ ledger.last = 0 \/ ledger.last \in (opened + 1)..Len(log)
          /\ Reached' = Reached /\ Reached \in 0..Len(log)
      BY <1>2, <1>3, <1>4, <1>6 DEF ModelInStep, Reached
    <2>2. QuietSince'
      <3> SUFFICES ASSUME NEW q \in opened..Reached, q >= ledger.modelPosition
                   PROVE  ModelAt(q)' = ModelAt(q) /\ ModelAt(Reached)' = ModelAt(Reached)
        BY <1>2, <1>3, <1>4, <1>6, <2>1 DEF ModelInStep, QuietSince
      <3>1. q \in 0..Len(log)
        BY <1>2, <2>1
      <3>2. \A x : x = Reached => ModelAt(x)' = ModelAt(x)
        BY <1>1, <2>1
      <3>3. ModelAt(Reached)' = ModelAt(Reached)
        BY <1>1, <2>1 DEF ModelAt
      <3> QED
        BY <1>1, <3>1, <3>3
    <2>3. observed => ModelAt(ledger.last)' = ModelAt(ledger.last)
      BY <1>1, <1>2, <1>3, <1>4, <1>6, <2>1 DEF ModelInStep, ModelAt
    <2>4. \A q \in (opened + 1)..ledger.last : Content(q)' = Content(q)
      BY <1>2, <1>3, <2>1 DEF Content
    <2> QED
      BY <1>2, <1>3, <1>4, <1>6, <2>1, <2>2, <2>3, <2>4 DEF ModelInStep
  <1> QED
    BY <1>5, <1>6

LEMMA OpenInStep ==
    ASSUME LedgerInv, Open
    PROVE  ModelInStep'
  <1>1. Len(log) \in Nat
    BY DEF LedgerInv, LogInv, LogTyped
  <1>2. /\ opened = None /\ opened' = Len(log) /\ opened' # None
        /\ UNCHANGED <<log, cache, ledger, observed>>
    BY <1>1, LedgerAssumption DEF Open
  <1>3. ledger.last = 0 /\ ledger.modelPosition = 0 /\ ~observed /\ IsLedger(ledger)
          /\ cache \in 0..Len(log) \union {None}
    BY <1>2 DEF LedgerInv, ModelInStep
  <1>4. Reached' = Len(log)
    BY <1>2, <1>3 DEF Reached
  <1>5. QuietSince'
    BY <1>1, <1>2, <1>4 DEF QuietSince
  <1>6. /\ opened' \in 0..Len(log') /\ ledger'.last = 0 /\ ledger'.modelPosition \in 0..Reached'
        /\ \A q \in (opened' + 1)..ledger'.last : FALSE
    BY <1>1, <1>2, <1>3, <1>4
  <1>7. /\ IsLedger(ledger') /\ observed' = FALSE /\ cache' \in 0..Len(log') \union {None}
        /\ ~(opened' = None)
    BY <1>2, <1>3
  <1> QED
    BY <1>5, <1>6, <1>7 DEF ModelInStep

LEMMA ReadInStep ==
    ASSUME LedgerInv, Read
    PROVE  ModelInStep'
  <1>1. cache' \in 0..Len(log) /\ UNCHANGED <<log, opened, ledger, observed>>
    BY DEF Read
  <1> QED
    BY <1>1 DEF LedgerInv, ModelInStep, QuietSince, Reached, ModelAt, Content

\* What observeModel makes of the ledger.
LEMMA Observed ==
    ASSUME NEW l, IsLedger(l), NEW at, NEW p
    PROVE  LET k == ObserveModel(l, at, p)
           IN  /\ IsLedger(k)
               /\ k # l => /\ at # None /\ ~(at >= p) /\ ~(at < l.modelPosition)
                           /\ k.modelPosition = at /\ k.descriptors = ModelAt(at).rows
  BY DEF ObserveModel, IsLedger, LedgerFields

LEMMA FrameInStep ==
    ASSUME LedgerInv, NEW p \in 1..MaxEvents, Frame(p)
    PROVE  ModelInStep'
  <1>0. LogInv /\ ModelInStep /\ Len(log) \in Nat /\ log \in Seq(LogEntries) /\ DOMAIN log = 1..Len(log)
    BY DEF LedgerInv, LogInv, LogTyped
  <1>1. /\ opened # None /\ p \in (opened + 1)..Len(log)
        /\ p <= Reached + 1
        /\ UNCHANGED <<log, opened, cache>>
    BY DEF Frame, Reached
  <1>2. /\ opened \in 0..Len(log) /\ Reached \in 0..Len(log) /\ ledger.last \in 0..Len(log)
        /\ ledger.last = 0 \/ ledger.last \in (opened + 1)..Len(log)
        /\ ledger.modelPosition \in 0..Reached
        /\ cache \in 0..Len(log) \union {None} /\ observed \in BOOLEAN /\ IsLedger(ledger)
    BY <1>0, <1>1 DEF ModelInStep, Reached
  <1>3. QuietSince
    BY <1>0, <1>1 DEF ModelInStep
  <1>4. observed => /\ ledger.last # 0 /\ ledger.modelPosition >= opened
                    /\ ledger.descriptors = ModelAt(ledger.last).rows
    BY <1>0, <1>1 DEF ModelInStep
  <1>5. \A q \in (opened + 1)..ledger.last : Content(q).type = "architecture.snapshot_published" => observed
    BY <1>0, <1>1 DEF ModelInStep
  <1>6. \A q : ModelAt(q)' = ModelAt(q) /\ Content(q)' = Content(q)
    BY <1>1 DEF ModelAt, Content
  <1>7. CASE p <= ledger.last
    <2>1. ledger' = ledger
      BY <1>7 DEF Frame, Ingest
    <2>2. observed' = (observed \/ Content(p).type = "architecture.snapshot_published")
      BY <1>1, <1>2, <1>7 DEF Frame, Content
    <2>3. Content(p).type = "architecture.snapshot_published" => observed
      BY <1>1, <1>2, <1>5, <1>7
    <2>4. observed' = observed
      BY <1>2, <2>2, <2>3
    <2> QED
      BY <1>0, <1>1, <2>1, <2>4 DEF ModelInStep, QuietSince, Reached, ModelAt, Content
  <1>8. CASE p > ledger.last
    <2> DEFINE k == ObserveModel(ledger, cache, p)
               c == Content(p)
               m == ModelAt(Reached)
               e == log[p].event
               a == log[p].agent
    <2>1. p = Reached + 1 /\ Reached >= opened
      BY <1>1, <1>2, <1>8 DEF Reached
    <2>2. p \in DOMAIN log /\ e \in Reportable /\ p \in Nat
      <3>1. p \in 1..Len(log)
        BY <1>0, <1>1, <1>2
      <3>2. log[p] \in LogEntries
        BY <1>0, <3>1
      <3> QED
        BY <1>0, <3>1, <3>2 DEF LogEntries
    <2>3. /\ c \in Applicable /\ WellFormed(c) /\ AcceptsModel(m, c)
          /\ ModelAt(p).rows = RowsAfter(m, c, p)
      <3>1. p - 1 = Reached
        BY <1>2, <2>1
      <3> QED
        BY <1>0, <2>2, <3>1 DEF LogInv, LogProjected, Content
    <2>4. m \in Models
      BY <1>0, <1>2, ModelTyped DEF LogInv
    <2>5. /\ IsLedger(k)
          /\ k # ledger => /\ cache # None /\ ~(cache >= p) /\ ~(cache < ledger.modelPosition)
                           /\ k.modelPosition = cache /\ k.descriptors = ModelAt(cache).rows
      BY <1>2, Observed
    <2>6. ledger' = [Apply(k, e, a, p) EXCEPT !.last = p]
      BY <1>1, <1>2, <1>8 DEF Frame, Ingest
    <2>7. observed' = (observed \/ c.type = "architecture.snapshot_published" \/ (k # ledger /\ cache >= opened))
      BY <1>8 DEF Frame, Content
    <2>8. Effective(e) = c
      BY DEF Content
    <2> HIDE DEF k, c, m, e, a
    <2>9. /\ IsLedger(Apply(k, e, a, p))
          /\ Apply(k, e, a, p).modelPosition = IF Writes(c) THEN p ELSE k.modelPosition
          /\ c.type = "architecture.snapshot_published" =>
                Apply(k, e, a, p).descriptors = Kept(c, p)
          /\ k.descriptors = m.rows => Apply(k, e, a, p).descriptors = RowsAfter(m, c, p)
      <3>1. Effective(e) \in Applicable
        BY <2>3, <2>8
      <3>2. /\ IsLedger(Apply(k, e, a, p))
            /\ Apply(k, e, a, p).modelPosition = IF Writes(Effective(e)) THEN p ELSE k.modelPosition
            /\ Effective(e).type = "architecture.snapshot_published" =>
                  Apply(k, e, a, p).descriptors = Kept(Effective(e), p)
            /\ k.descriptors = m.rows /\ WellFormed(Effective(e)) /\ AcceptsModel(m, Effective(e)) =>
                  Apply(k, e, a, p).descriptors = RowsAfter(m, Effective(e), p)
        BY <2>2, <2>4, <2>5, <3>1, Applied
      <3> QED
        BY <2>3, <2>8, <3>2
    <2>10. /\ IsLedger(ledger') /\ ledger'.last = p
           /\ ledger'.modelPosition = Apply(k, e, a, p).modelPosition
           /\ ledger'.descriptors = Apply(k, e, a, p).descriptors
      BY <2>6, <2>9 DEF IsLedger, LedgerFields
    <2>11. k.modelPosition \in ledger.modelPosition..Reached
      BY <1>2, <2>1, <2>5
    <2>12. Reached' = p
      BY <1>2, <2>2, <1>8, <2>10 DEF Reached
    <2>13. QuietSince'
      <3> SUFFICES ASSUME NEW q \in opened..p, q >= ledger'.modelPosition
                   PROVE  ModelAt(q).rows = ModelAt(p).rows
        BY <1>1, <1>6, <2>12 DEF QuietSince
      <3>1. CASE Writes(c) \/ q = p
        BY <1>2, <2>2, <2>9, <2>10, <3>1
      <3>2. CASE ~Writes(c) /\ q # p
        <4>1. q \in opened..Reached /\ q >= ledger.modelPosition
          BY <1>2, <2>1, <2>9, <2>10, <2>11, <3>2
        <4>2. ModelAt(q).rows = m.rows
          BY <1>3, <4>1 DEF QuietSince, m
        <4>3. ModelAt(p).rows = m.rows
          BY <2>3, <3>2 DEF RowsAfter, Writes
        <4> QED
          BY <4>2, <4>3
      <3> QED
        BY <3>1, <3>2
    <2>14. observed' => ledger'.modelPosition >= opened /\ ledger'.descriptors = ModelAt(p).rows
      <3>1. CASE c.type = "architecture.snapshot_published"
        <4>1. Writes(c) /\ RowsAfter(m, c, p) = Kept(c, p)
          BY <3>1 DEF Writes, RowsAfter
        <4> QED
          BY <1>1, <1>2, <2>2, <2>3, <2>9, <2>10, <3>1, <4>1
      <3>2. CASE observed /\ k = ledger
        <4>1. k.descriptors = m.rows
          BY <1>4, <3>2 DEF m, Reached
        <4> QED
          BY <1>1, <1>2, <1>4, <2>2, <2>3, <2>9, <2>10, <3>2, <4>1
      <3>3. CASE k # ledger /\ (observed \/ cache >= opened)
        <4>1. cache \in opened..Reached /\ cache >= ledger.modelPosition
          BY <1>2, <1>4, <2>1, <2>5, <3>3
        <4>2. k.descriptors = m.rows
          BY <1>3, <2>5, <3>3, <4>1 DEF QuietSince, m
        <4> QED
          BY <1>1, <1>2, <2>2, <2>3, <2>5, <2>9, <2>10, <3>3, <4>1, <4>2
      <3> QED
        BY <2>7, <3>1, <3>2, <3>3
    <2>15. \A q \in (opened + 1)..p : Content(q).type = "architecture.snapshot_published" => observed'
      <3> SUFFICES ASSUME NEW q \in (opened + 1)..p, Content(q).type = "architecture.snapshot_published"
                   PROVE  observed'
        OBVIOUS
      <3>1. CASE q = p
        BY <2>7, <3>1 DEF c
      <3>2. CASE q # p
        <4>1. q \in (opened + 1)..ledger.last
          BY <1>2, <2>1, <2>2, <3>2 DEF Reached
        <4> QED
          BY <1>5, <2>7, <4>1
      <3> QED
        BY <3>1, <3>2
    <2>16. observed' \in BOOLEAN
      BY <2>7
    <2>17. ledger'.modelPosition \in 0..Reached'
      BY <1>2, <2>1, <2>2, <2>9, <2>10, <2>11, <2>12
    <2>18. p # 0 /\ p \in (opened + 1)..Len(log)
      BY <1>1, <1>2
    <2> QED
      BY <1>1, <1>2, <1>6, <2>10, <2>12, <2>13, <2>14, <2>15, <2>16, <2>17, <2>18 DEF ModelInStep
  <1> QED
    BY <1>1, <1>2, <1>7, <1>8

LEMMA LedgerKept ==
    ASSUME LedgerInv, [Next]_vars
    PROVE  LedgerInv'
  <1>1. LogInv'
    BY LogKept DEF LedgerInv
  <1>2. CASE \E a \in Agents : \E c \in Contents(Len(log)) : Commit(a, c)
    BY <1>1, <1>2, CommitInStep DEF LedgerInv
  <1>3. CASE Open
    BY <1>1, <1>3, OpenInStep DEF LedgerInv
  <1>4. CASE Read
    BY <1>1, <1>4, ReadInStep DEF LedgerInv
  <1>5. CASE \E p \in 1..MaxEvents : Frame(p)
    BY <1>1, <1>5, FrameInStep DEF LedgerInv
  <1>6. CASE UNCHANGED vars
    <2>1. ModelInStep'
      BY <1>6 DEF vars, LedgerInv, ModelInStep, QuietSince, Reached, ModelAt, Content
    <2> QED
      BY <1>1, <2>1 DEF LedgerInv
  <1> QED
    BY <1>2, <1>3, <1>4, <1>5, <1>6 DEF Next

\* The invariant of the ledger beside its log.
THEOREM LedgerInvariant == Spec => []LedgerInv
  BY LedgerInitial, LedgerKept, PTL DEF Spec

\* Once a read that covers what the stream left out, or a snapshot, was folded
\* in, the descriptors of the browser are the rows of the server at the last
\* frame (observeModel, changeLedger.ts:142).
THEOREM DescriptorsAgreeWithRows == Spec => []DescriptorsAgree
  <1>1. LedgerInv => DescriptorsAgree
    <2> SUFFICES ASSUME LedgerInv, observed PROVE ledger.descriptors = ModelAt(ledger.last).rows
      BY DEF DescriptorsAgree
    <2> QED
      BY DEF LedgerInv, ModelInStep
  <1> QED
    BY <1>1, LedgerInvariant, PTL

-----------------------------------------------------------------------------
(* The open steps.                                                               *)

\* The server completes a step only after it was begun, and lets an agent begin it
\* once.
LogWork ==
    /\ EmptyModel.done \subseteq DOMAIN EmptyModel.owner
    /\ \A q \in DOMAIN log :
          LET c == log[q].event
              e == Effective(c)
          IN  /\ ModelAt(q).done = ModelAt(q - 1).done
                                      \union (IF e.type = "work.step_completed" THEN {e.step} ELSE {})
              /\ ModelAt(q).done \subseteq DOMAIN ModelAt(q).owner
              /\ e.type = "work.step_started" /\ c.type # "correction.issued"
                    => e.step \notin DOMAIN ModelAt(q - 1).owner

\* A step that is open in the browser is not done, unless its start was corrected.
StepsInStep ==
    /\ ledger.last = 0 => DOMAIN ledger.steps = {}
    /\ \A s \in DOMAIN ledger.steps :
          /\ ledger.steps[s].event \in 1..Len(log)
          /\ s \in ModelAt(ledger.last).done
                => log[ledger.steps[s].event].event.type = "correction.issued"

WorkInv == LedgerInv /\ LogWork /\ StepsInStep

LEMMA ProjectWork ==
    ASSUME NEW m \in Models, NEW c \in Applicable, NEW a, NEW p
    PROVE  /\ Project(m, c, a, p).done = m.done \union (IF c.type = "work.step_completed" THEN {c.step} ELSE {})
           /\ DOMAIN Project(m, c, a, p).owner
                 = DOMAIN m.owner \union (IF c.type = "work.step_started" THEN {c.step} ELSE {})
  <1>1. CASE c.type \in {"model.mutation_applied", "change_applied", "architecture.snapshot_published"}
    BY <1>1 DEF Project, WithRows, Models
  <1>2. CASE c.type \in {"change_planned", "retraction.issued"}
    BY <1>2 DEF Project, Models
  <1>3. CASE c.type = "work.step_started"
    BY <1>3 DEF Project, With, Over, Models
  <1>4. CASE c.type = "work.step_completed"
    BY <1>4 DEF Project, Models
  <1>5. CASE c.type \in {"work.scope_reported", "agent.finished", "run.finished"}
    BY <1>5 DEF Project, Models
  <1> QED
    BY <1>1, <1>2, <1>3, <1>4, <1>5, PlainParts DEF Applicable

LEMMA CommitWork ==
    ASSUME WorkInv, NEW a \in Agents, NEW c \in Contents(Len(log)), Commit(a, c)
    PROVE  LogWork' /\ StepsInStep'
  <1> DEFINE e == Effective(c)
             m == ModelAt(Len(log))
             n == Project(m, e, a, Len(log) + 1)
  <1>0. /\ LogInv /\ ModelInStep /\ LogInv' /\ log \in Seq(LogEntries) /\ Len(log) \in Nat
        /\ \A q \in 0..Len(log) : ModelAt(q)' = ModelAt(q)
        /\ DOMAIN log = 1..Len(log)
    BY CommitKeeps DEF WorkInv, LedgerInv, LogInv, LogTyped
  <1>1. log' = Append(log, [event |-> c, agent |-> a, model |-> n]) /\ ledger' = ledger
    BY DEF Commit
  <1>2. m \in Models
    BY <1>0, ModelTyped DEF LogInv
  <1>3. AcceptsWork(m, c, e, a)
    BY DEF Commit
  <1> HIDE DEF n, m, e
  <1>4. /\ log' \in Seq(LogEntries) /\ Len(log') = Len(log) + 1
        /\ DOMAIN log' = 1..(Len(log) + 1)
        /\ log'[Len(log) + 1] = [event |-> c, agent |-> a, model |-> n]
        /\ \A q \in 1..Len(log) : log'[q] = log[q]
    BY <1>0, <1>1 DEF LogInv, LogTyped
  <1>5. e \in Applicable
    BY <1>0, <1>4 DEF LogInv, LogProjected, e
  <1>6. \A q : q = Len(log) + 1 => ModelAt(q)' = n
    BY <1>0, <1>4 DEF ModelAt
  <1>7. m.done \subseteq DOMAIN m.owner
    BY <1>0 DEF WorkInv, LogWork, ModelAt, m
  <1>8. /\ n.done = m.done \union (IF e.type = "work.step_completed" THEN {e.step} ELSE {})
        /\ DOMAIN n.owner = DOMAIN m.owner \union (IF e.type = "work.step_started" THEN {e.step} ELSE {})
    BY <1>2, <1>5, ProjectWork DEF n
  <1>9. /\ e.type = "work.step_completed" => e.step \in DOMAIN m.owner
        /\ e.type = "work.step_started" /\ c.type # "correction.issued" => e.step \notin DOMAIN m.owner
    BY <1>3 DEF AcceptsWork
  <1>10. ASSUME NEW q \in DOMAIN log'
         PROVE  LET x == log'[q].event
                    y == Effective(x)
                IN  /\ ModelAt(q)'.done = ModelAt(q - 1)'.done
                                             \union (IF y.type = "work.step_completed" THEN {y.step} ELSE {})
                    /\ ModelAt(q)'.done \subseteq DOMAIN ModelAt(q)'.owner
                    /\ y.type = "work.step_started" /\ x.type # "correction.issued"
                          => y.step \notin DOMAIN ModelAt(q - 1)'.owner
    <2>1. CASE q \in 1..Len(log)
      <3>1. ModelAt(q - 1)' = ModelAt(q - 1) /\ ModelAt(q)' = ModelAt(q) /\ log'[q] = log[q] /\ q \in DOMAIN log
        BY <1>0, <1>4, <2>1
      <3> QED
        BY <3>1 DEF WorkInv, LogWork
    <2>2. CASE q = Len(log) + 1
      <3>1. ModelAt(q - 1)' = m /\ ModelAt(q)' = n /\ log'[q].event = c
        BY <1>0, <1>4, <1>6, <2>2 DEF m
      <3> QED
        BY <1>7, <1>8, <1>9, <3>1 DEF e
    <2> QED
      BY <1>0, <1>4, <2>1, <2>2
  <1>11. LogWork'
    BY <1>10 DEF WorkInv, LogWork
  <1>12. ledger.last \in 0..Len(log)
    <2>1. CASE opened = None
      BY <1>0, <2>1 DEF ModelInStep
    <2>2. CASE opened # None
      BY <1>0, <2>2 DEF ModelInStep
    <2> QED
      BY <2>1, <2>2
  <1>13. \A x : x = ledger.last => ModelAt(x)' = ModelAt(x)
    BY <1>0, <1>12
  <1>14. ModelAt(ledger.last)' = ModelAt(ledger.last)
    BY <1>1, <1>13 DEF ModelAt
  <1>15. StepsInStep'
    <2> SUFFICES ASSUME NEW s \in DOMAIN ledger.steps
                 PROVE  /\ ledger.steps[s].event \in 1..(Len(log) + 1)
                        /\ s \in ModelAt(ledger.last).done
                              => log'[ledger.steps[s].event].event.type = "correction.issued"
      BY <1>1, <1>4, <1>14 DEF WorkInv, StepsInStep
    <2>1. ledger.steps[s].event \in 1..Len(log)
      BY DEF WorkInv, StepsInStep
    <2> QED
      BY <1>0, <1>4, <2>1 DEF WorkInv, StepsInStep
  <1> QED
    BY <1>11, <1>15

\* What an event leaves of the open steps.
LEMMA ContentSteps ==
    ASSUME NEW l, IsLedger(l), NEW c \in Applicable, NEW a, NEW p,
           NEW s \in DOMAIN ApplyContent(l, c, a, p).steps
    PROVE  \/ /\ s \in DOMAIN l.steps
              /\ ApplyContent(l, c, a, p).steps[s] = l.steps[s]
              /\ c.type = "work.step_completed" => s # c.step
           \/ /\ c.type = "work.step_started" /\ s = c.step
              /\ ApplyContent(l, c, a, p).steps[s].event = p
  <1>1. CASE c.type = "model.mutation_applied"
    <2>1. ShortMutation(c)
      BY <1>1, PlainParts DEF Applicable
    <2> QED
      BY <1>1, <2>1, MutationShape DEF ApplyContent
  <1>2. CASE c.type \in {"change_planned", "change_applied"}
    BY <1>2, AppendShape DEF ApplyContent
  <1>3. CASE c.type \in {"architecture.snapshot_published", "work.scope_reported", "agent.finished", "run.finished"}
    BY <1>3 DEF ApplyContent, IsLedger, LedgerFields
  <1>4. CASE c.type = "work.step_started"
    BY <1>4 DEF ApplyContent, With, Over, IsLedger, LedgerFields
  <1>5. CASE c.type = "work.step_completed"
    BY <1>5 DEF ApplyContent, WithoutStep, Restrict, IsLedger, LedgerFields
  <1>6. CASE c.type = "retraction.issued"
    BY <1>6 DEF ApplyContent, Marked, WithoutStepOf, Restrict, IsLedger, LedgerFields
  <1> QED
    BY <1>1, <1>2, <1>3, <1>4, <1>5, <1>6, PlainParts DEF Applicable

LEMMA AppliedSteps ==
    ASSUME NEW l, IsLedger(l), NEW c \in Reportable, Effective(c) \in Applicable, NEW a, NEW p,
           NEW s \in DOMAIN Apply(l, c, a, p).steps
    PROVE  \/ /\ s \in DOMAIN l.steps
              /\ Apply(l, c, a, p).steps[s] = l.steps[s]
              /\ Effective(c).type = "work.step_completed" => s # Effective(c).step
           \/ /\ Effective(c).type = "work.step_started" /\ s = Effective(c).step
              /\ Apply(l, c, a, p).steps[s].event = p
  <1> DEFINE k == IF c.type = "correction.issued" THEN Marked(l, c.ref, "superseded") ELSE l
  <1>1. Apply(l, c, a, p) = ApplyContent(k, Effective(c), a, p)
    BY DEF Apply, Effective
  <1>2. IsLedger(k)
    BY MarkedShape
  <1>3. DOMAIN k.steps \subseteq DOMAIN l.steps /\ \A x \in DOMAIN k.steps : k.steps[x] = l.steps[x]
    BY DEF Marked, WithoutStepOf, Restrict, IsLedger, LedgerFields
  <1> HIDE DEF k
  <1> QED
    BY <1>1, <1>2, <1>3, ContentSteps

LEMMA FrameWork ==
    ASSUME WorkInv, NEW p \in 1..MaxEvents, Frame(p)
    PROVE  StepsInStep'
  <1>0. /\ LogInv /\ ModelInStep /\ LogWork /\ StepsInStep
        /\ Len(log) \in Nat /\ log \in Seq(LogEntries) /\ DOMAIN log = 1..Len(log)
    BY DEF WorkInv, LedgerInv, LogInv, LogTyped
  <1>1. /\ opened # None /\ p \in (opened + 1)..Len(log) /\ log' = log
        /\ p <= (IF ledger.last = 0 THEN opened ELSE ledger.last) + 1
    BY DEF Frame
  <1>2. /\ opened \in 0..Len(log) /\ ledger.last \in 0..Len(log) /\ IsLedger(ledger)
        /\ ledger.last = 0 \/ ledger.last >= opened + 1
    BY <1>0, <1>1 DEF ModelInStep
  <1>3. CASE p <= ledger.last
    <2>1. ledger' = ledger
      BY <1>3 DEF Frame, Ingest
    <2> QED
      BY <1>0, <1>1, <2>1 DEF StepsInStep, ModelAt
  <1>4. CASE p > ledger.last
    <2> DEFINE k == ObserveModel(ledger, cache, p)
               c == log[p].event
               e == Effective(c)
               a == log[p].agent
    <2>1. p \in DOMAIN log /\ p \in Nat /\ c \in Reportable /\ e \in Applicable
      <3>1. p \in DOMAIN log /\ p \in 1..Len(log)
        BY <1>0, <1>1, <1>2
      <3>2. log[p] \in LogEntries
        BY <1>0, <3>1
      <3> QED
        BY <1>0, <3>1, <3>2 DEF LogEntries, LogInv, LogProjected
    <2>2. IsLedger(k) /\ k.steps = ledger.steps
      BY <1>2 DEF ObserveModel, IsLedger, LedgerFields
    <2>3. ledger' = [Apply(k, c, a, p) EXCEPT !.last = p]
      BY <1>1, <1>2, <1>4 DEF Frame, Ingest
    <2>4. IsLedger(Apply(k, c, a, p))
      BY <2>1, <2>2, Applied
    <2>5. ledger'.last = p /\ ledger'.steps = Apply(k, c, a, p).steps
      <3> HIDE DEF k, c, a
      <3> QED
        BY <2>3, <2>4 DEF IsLedger, LedgerFields
    <2>6. ModelAt(p)' = ModelAt(p)
      BY <1>1, <2>1 DEF ModelAt
    <2>7. /\ ModelAt(p).done = ModelAt(p - 1).done
                                  \union (IF e.type = "work.step_completed" THEN {e.step} ELSE {})
          /\ e.type = "work.step_started" /\ c.type # "correction.issued"
                => e.step \notin DOMAIN ModelAt(p - 1).owner
      BY <1>0, <2>1 DEF LogWork
    <2>8. ModelAt(p - 1).done \subseteq DOMAIN ModelAt(p - 1).owner
      <3>1. CASE p = 1
        BY <1>0, <3>1 DEF LogWork, ModelAt
      <3>2. CASE p # 1
        <4>1. p - 1 \in DOMAIN log
          BY <1>0, <1>1, <1>2, <2>1, <3>2
        <4> QED
          BY <1>0, <4>1 DEF LogWork
      <3> QED
        BY <3>1, <3>2
    <2>9. ledger.last # 0 => p - 1 = ledger.last
      BY <1>1, <1>2, <1>4, <2>1
    <2>10. ASSUME NEW s \in DOMAIN ledger'.steps
           PROVE  /\ ledger'.steps[s].event \in 1..Len(log)
                  /\ s \in ModelAt(p).done => log[ledger'.steps[s].event].event.type = "correction.issued"
      <3>1. \/ /\ s \in DOMAIN k.steps
               /\ Apply(k, c, a, p).steps[s] = k.steps[s]
               /\ e.type = "work.step_completed" => s # e.step
            \/ /\ e.type = "work.step_started" /\ s = e.step
               /\ Apply(k, c, a, p).steps[s].event = p
        BY <2>1, <2>2, <2>5, AppliedSteps
      <3>2. CASE /\ s \in DOMAIN k.steps
                 /\ Apply(k, c, a, p).steps[s] = k.steps[s]
                 /\ e.type = "work.step_completed" => s # e.step
        <4>1. s \in DOMAIN ledger.steps /\ ledger'.steps[s] = ledger.steps[s]
          BY <2>2, <2>5, <3>2
        <4>2. ledger.last = p - 1
          BY <1>0, <2>9, <4>1 DEF StepsInStep
        <4>3. s \in ModelAt(p).done => s \in ModelAt(ledger.last).done
          BY <2>7, <3>2, <4>2
        <4> QED
          BY <1>0, <4>1, <4>3 DEF StepsInStep
      <3>3. CASE /\ e.type = "work.step_started" /\ s = e.step
                 /\ Apply(k, c, a, p).steps[s].event = p
        <4>1. ledger'.steps[s].event = p
          BY <2>5, <3>3
        <4>2. s \in ModelAt(p).done => c.type = "correction.issued"
          BY <2>7, <2>8, <3>3
        <4> QED
          BY <1>0, <2>1, <4>1, <4>2
      <3> QED
        BY <3>1, <3>2, <3>3
    <2>11. p # 0 /\ log' = log /\ ModelAt(ledger.last)' = ModelAt(p)
      BY <1>1, <2>1, <2>5 DEF ModelAt
    <2> HIDE DEF k, c, e, a
    <2> QED
      BY <2>5, <2>10, <2>11 DEF StepsInStep
  <1> QED
    BY <1>1, <1>2, <1>3, <1>4

LEMMA WorkInitial == Init => WorkInv
  <1> SUFFICES ASSUME Init PROVE WorkInv
    OBVIOUS
  <1>1. LogWork
    BY DEF Init, LogWork, EmptyModel
  <1>2. StepsInStep
    BY DEF Init, StepsInStep, EmptyLedger
  <1> QED
    BY <1>1, <1>2, LedgerInitial DEF WorkInv

LEMMA WorkKept ==
    ASSUME WorkInv, [Next]_vars
    PROVE  WorkInv'
  <1>1. LedgerInv'
    BY LedgerKept DEF WorkInv
  <1>2. CASE \E a \in Agents : \E c \in Contents(Len(log)) : Commit(a, c)
    BY <1>1, <1>2, CommitWork DEF WorkInv
  <1>3. CASE \E p \in 1..MaxEvents : Frame(p)
    <2>1. StepsInStep'
      BY <1>3, FrameWork
    <2>2. log' = log
      BY <1>3 DEF Frame
    <2>3. LogWork'
      BY <2>2 DEF WorkInv, LogWork, ModelAt
    <2> QED
      BY <1>1, <2>1, <2>3 DEF WorkInv
  <1>4. CASE log' = log /\ ledger' = ledger
    <2>1. LogWork' /\ StepsInStep'
      BY <1>4 DEF WorkInv, LogWork, StepsInStep, ModelAt
    <2> QED
      BY <1>1, <2>1 DEF WorkInv
  <1>5. CASE Open \/ Read \/ UNCHANGED vars
    BY <1>4, <1>5 DEF Open, Read, vars
  <1> QED
    BY <1>2, <1>3, <1>5 DEF Next

\* A settled picture shows work only where an agent that has not ended reported a
\* step that is open, or a scope; a corrected start of a completed step is the
\* exception (changeLedger.ts:219).
THEOREM ShownWorkIsRunning == Spec => []ActiveMeansRunning
  <1>1. WorkInv => ActiveMeansRunning
    <2> SUFFICES ASSUME WorkInv, Settled, NEW t \in Targets, Overlay(t) # None, Overlay(t).state = "active"
                 PROVE  \/ RunningScopes(t) # {}
                        \/ \E s \in RunningSteps(t) :
                              s \in Model.done => log[ledger.steps[s].event].event.type = "correction.issued"
      BY DEF ActiveMeansRunning
    <2>1. RunningSteps(t) \union RunningScopes(t) # {}
      <3> DEFINE active == RunningSteps(t) \union RunningScopes(t) # {}
                 change == LatestChange(t)
                 state == ResolveWorkState(active, change)
      <3>1. state # None /\ Overlay(t).state = state
        BY DEF Overlay
      <3>2. ~active => state \in {"removed", "planned", "recently_applied", None}
        BY DEF ResolveWorkState
      <3> HIDE DEF active, state
      <3>3. active
        BY <3>1, <3>2
      <3> QED
        BY <3>3 DEF active
    <2>2. Model = ModelAt(ledger.last)
      BY DEF Settled, Model
    <2>3. \A s \in RunningSteps(t) : s \in DOMAIN ledger.steps
      BY DEF RunningSteps
    <2> QED
      BY <2>1, <2>2, <2>3 DEF WorkInv, StepsInStep
  <1> QED
    BY <1>1, WorkInitial, WorkKept, PTL DEF Spec

-----------------------------------------------------------------------------
(* The history: what the cap leaves of it.                                       *)

EntryFields == {"target", "operation", "phase", "snapshot", "direct", "position", "agent",
                "retracted", "superseded"}
IsEntry(e) ==
    DOMAIN e = EntryFields /\ e.position \in Nat /\ e.retracted \in BOOLEAN /\ e.superseded \in BOOLEAN
IsHistory(h) == \E S : h \in Seq(S) /\ \A e \in S : IsEntry(e)

ListedAt(h, p) == {i \in DOMAIN h : h[i].position = p}
InOrder(h) == \A i, j \in DOMAIN h : i < j => h[i].position <= h[j].position

\* A set of naturals that is not empty has a least element, and one that is bounded
\* has a greatest (GreatestUpTo).
LEMMA LeastNat ==
    ASSUME NEW T \in SUBSET Nat, T # {}
    PROVE  \E m \in T : \A n \in T : m <= n
  <1> DEFINE Less == {ss \in Nat \X Nat : ss[1] < ss[2]}
  <1>1. IsWellFoundedOn(Less, Nat)
    BY NatLessThanWellFounded DEF OpToRel
  <1> HIDE DEF Less
  <1>2. PICK m \in T : \A n \in T : ~(<<n, m>> \in Less)
    BY <1>1, WFMin
  <1>3. ASSUME NEW n \in T PROVE m <= n
    <2>1. n \in Nat /\ m \in Nat
      OBVIOUS
    <2>2. <<n, m>> \notin Less
      BY <1>2
    <2> QED
      BY <2>1, <2>2 DEF Less
  <1> QED
    BY <1>3

\* The part of a history from its entry k on.
IsRest(g, h, k) ==
    /\ Len(g) = Len(h) - k + 1
    /\ DOMAIN g = 1..(Len(h) - k + 1)
    /\ \A i \in 1..(Len(h) - k + 1) : g[i] = h[i + k - 1]
\* The cap drops what is not newer than the entry before the last HistoryLimit.
CutAt(h, k) ==
    \A i \in DOMAIN h : i >= k <=>
        Len(h) <= HistoryLimit \/ h[i].position > h[Len(h) - HistoryLimit].position

LEMMA HistoryHas ==
    ASSUME NEW h, IsHistory(h)
    PROVE  Len(h) \in Nat /\ DOMAIN h = 1..Len(h) /\ \A i \in DOMAIN h : IsEntry(h[i])
  <1> PICK S : h \in Seq(S) /\ \A e \in S : IsEntry(e)
    BY DEF IsHistory
  <1> QED
    OBVIOUS

\* What the cap keeps is the rest of the history behind the event it falls into.
LEMMA CapKeepsTheRest ==
    ASSUME NEW h, IsHistory(h), InOrder(h)
    PROVE  IsHistory(Capped(h)) /\ \E k \in 1..(Len(h) + 1) : IsRest(Capped(h), h, k) /\ CutAt(h, k)
  <1>0. PICK S : h \in Seq(S) /\ \A e \in S : IsEntry(e)
    BY DEF IsHistory
  <1>1. Len(h) \in Nat /\ DOMAIN h = 1..Len(h) /\ HistoryLimit \in Nat \ {0}
    BY <1>0, LedgerAssumption
  <1>2. CASE Len(h) <= HistoryLimit
    <2>1. Capped(h) = h
      BY <1>2 DEF Capped
    <2>2. IsRest(h, h, 1)
      BY <1>1 DEF IsRest
    <2>3. CutAt(h, 1)
      BY <1>1, <1>2 DEF CutAt
    <2>4. 1 \in 1..(Len(h) + 1)
      BY <1>1
    <2> QED
      BY <2>1, <2>2, <2>3, <2>4
  <1>3. CASE Len(h) > HistoryLimit
    <2> DEFINE cutoff == h[Len(h) - HistoryLimit].position
               newer == {i \in DOMAIN h : h[i].position > cutoff} \union {Len(h) + 1}
               first == NewerFrom(h, cutoff)
    <2>1. Len(h) - HistoryLimit \in DOMAIN h /\ \A i \in DOMAIN h : h[i].position \in Nat
      BY <1>0, <1>1, <1>3 DEF IsEntry
    <2>2. cutoff \in Nat /\ newer \in SUBSET Nat /\ newer # {}
      BY <1>1, <2>1
    <2>3. PICK m \in newer : \A n \in newer : m <= n
      BY <2>2, LeastNat
    <2>4. m \in 1..(Len(h) + 1)
      BY <1>1, <2>3
    <2>5. \A i \in DOMAIN h : h[i].position > cutoff <=> i >= m
      <3> SUFFICES ASSUME NEW i \in DOMAIN h PROVE h[i].position > cutoff <=> i >= m
        OBVIOUS
      <3>1. h[i].position > cutoff => i >= m
        BY <1>1, <2>3, <2>4
      <3>2. ASSUME i >= m PROVE h[i].position > cutoff
        <4>1. m \in DOMAIN h /\ h[m].position > cutoff
          BY <1>1, <2>3, <3>2
        <4>2. i = m \/ h[m].position <= h[i].position
          BY <1>1, <3>2, <4>1 DEF InOrder
        <4> QED
          BY <2>1, <2>2, <4>1, <4>2
      <3> QED
        BY <3>1, <3>2
    <2>6. first \in 1..(Len(h) + 1) /\ \A i \in DOMAIN h : h[i].position > cutoff <=> i >= first
      BY <2>4, <2>5 DEF NewerFrom
    <2>7. Capped(h) = SubSeq(h, first, Len(h))
      <3>1. ~(Len(h) <= HistoryLimit)
        BY <1>1, <1>3
      <3> QED
        BY <3>1 DEF Capped
    <2> HIDE DEF first, newer
    <2>8. \A i \in first..Len(h) : h[i] \in S
      BY <1>0, <1>1, <2>6
    <2>9. Capped(h) \in Seq(S) /\ IsRest(Capped(h), h, first)
      BY <1>1, <2>6, <2>7, <2>8 DEF IsRest
    <2>10. CutAt(h, first)
      BY <1>1, <1>3, <2>6 DEF CutAt
    <2> QED
      BY <1>0, <2>6, <2>9, <2>10 DEF IsHistory
  <1> QED
    BY <1>1, <1>2, <1>3

\* How many entries each event has, n; the events that have none left; and a history
\* that holds the newest events whole and lost the others only to the cap.
Counts(n) == DOMAIN n \subseteq Nat /\ n \in [DOMAIN n -> Nat]
Lost(h, n) == {p \in DOMAIN n : n[p] > 0 /\ ListedAt(h, p) = {}}
KeptWhole(h, n) ==
    /\ IsHistory(h) /\ Counts(n) /\ InOrder(h)
    /\ \A i \in DOMAIN h : h[i].position \in DOMAIN n
    /\ \A p \in DOMAIN n : ListedAt(h, p) # {} => \E i \in Nat : ListedAt(h, p) = i..(i + n[p] - 1)
    /\ \A p \in Lost(h, n) : \A i \in DOMAIN h : p < h[i].position
    /\ \A p \in Lost(h, n) : (\A q \in Lost(h, n) : q <= p) => Len(h) + n[p] > HistoryLimit

\* One more entry of the newest event, before the cap.
LEMMA AppendKeepsWhole ==
    ASSUME NEW h, NEW n, KeptWhole(h, n), NEW e, IsEntry(e), NEW p \in DOMAIN n, e.position = p,
           \A q \in DOMAIN n : q <= p, n[p] > 0 => ListedAt(h, p) # {}
    PROVE  KeptWhole(Append(h, e), [n EXCEPT ![p] = @ + 1])
  <1> DEFINE g == Append(h, e)
             m == [n EXCEPT ![p] = @ + 1]
  <1>0. PICK S : h \in Seq(S) /\ \A x \in S : IsEntry(x)
    BY DEF KeptWhole, IsHistory
  <1>1. Len(h) \in Nat /\ DOMAIN h = 1..Len(h) /\ \A i \in DOMAIN h : h[i].position \in Nat
    BY <1>0 DEF IsEntry
  <1>2. h \in Seq(S \union {e}) /\ g \in Seq(S \union {e})
    BY <1>0
  <1>3. /\ Len(g) = Len(h) + 1 /\ DOMAIN g = 1..(Len(h) + 1)
        /\ g[Len(h) + 1] = e /\ \A i \in 1..Len(h) : g[i] = h[i]
    BY <1>2
  <1>4. IsHistory(g)
    BY <1>0, <1>2 DEF IsHistory
  <1>5. /\ DOMAIN n \subseteq Nat /\ \A q \in DOMAIN n : n[q] \in Nat
        /\ DOMAIN m = DOMAIN n /\ m[p] = n[p] + 1 /\ \A q \in DOMAIN n : q # p => m[q] = n[q]
    BY DEF KeptWhole, Counts
  <1>6. Counts(m)
    BY <1>5 DEF KeptWhole, Counts
  <1> HIDE DEF g, m
  <1>7. ListedAt(g, p) = ListedAt(h, p) \union {Len(h) + 1}
          /\ \A q : q # p => ListedAt(g, q) = ListedAt(h, q)
    BY <1>1, <1>3 DEF ListedAt
  <1>8. \A i \in DOMAIN h : h[i].position \in DOMAIN n /\ h[i].position <= p
    BY DEF KeptWhole
  <1>9. InOrder(g)
    <2> SUFFICES ASSUME NEW i \in DOMAIN g, NEW j \in DOMAIN g, i < j
                 PROVE  g[i].position <= g[j].position
      BY DEF InOrder
    <2>1. i \in DOMAIN h /\ g[i] = h[i]
      BY <1>1, <1>3
    <2>2. (j \in DOMAIN h /\ g[j] = h[j]) \/ g[j] = e
      BY <1>1, <1>3
    <2> QED
      BY <1>8, <2>1, <2>2 DEF KeptWhole, InOrder
  <1>10. \A i \in DOMAIN g : g[i].position \in DOMAIN m
    BY <1>1, <1>3, <1>5, <1>8
  <1>11. ASSUME NEW q \in DOMAIN m, ListedAt(g, q) # {}
         PROVE  \E i \in Nat : ListedAt(g, q) = i..(i + m[q] - 1)
    <2>1. CASE q # p
      BY <1>5, <1>7, <1>11, <2>1 DEF KeptWhole
    <2>2. CASE q = p /\ ListedAt(h, p) = {}
      <3>1. m[q] = 1
        BY <1>5, <2>2
      <3>2. ListedAt(g, q) = (Len(h) + 1)..(Len(h) + 1 + m[q] - 1)
        BY <1>1, <1>7, <2>2, <3>1
      <3> QED
        BY <1>1, <3>2
    <2>3. CASE q = p /\ ListedAt(h, p) # {}
      <3>1. PICK i \in Nat : ListedAt(h, p) = i..(i + n[p] - 1)
        BY <2>3 DEF KeptWhole
      <3>2. PICK j \in DOMAIN h : h[j].position = p
        BY <2>3 DEF ListedAt
      <3>3. Len(h) \in DOMAIN h /\ (j = Len(h) \/ h[j].position <= h[Len(h)].position)
        BY <1>1, <3>2 DEF KeptWhole, InOrder
      <3>4. Len(h) \in ListedAt(h, p)
        BY <1>1, <1>5, <1>8, <3>2, <3>3 DEF ListedAt
      <3>5. i + n[p] - 1 \in ListedAt(h, p)
        BY <1>1, <1>5, <3>1, <3>4
      <3>6. i + n[p] - 1 <= Len(h)
        BY <1>1, <3>5 DEF ListedAt
      <3>7. ListedAt(g, q) = i..(i + m[q] - 1)
        <4>1. i + n[p] - 1 = Len(h) /\ n[p] \in Nat
          BY <1>1, <1>5, <3>1, <3>4, <3>6
        <4>2. m[q] = n[p] + 1
          BY <1>5, <2>3
        <4>3. i + m[q] - 1 = Len(h) + 1
          <5>1. i + (n[p] + 1) - 1 = Len(h) + 1
            BY <1>1, <4>1
          <5> QED
            BY <4>2, <5>1
        <4>4. i..Len(h) \union {Len(h) + 1} = i..(Len(h) + 1)
          BY <1>1, <4>1
        <4> QED
          BY <1>7, <2>3, <3>1, <4>1, <4>3, <4>4
      <3> QED
        BY <3>7
    <2> QED
      BY <2>1, <2>2, <2>3
  <1>12. Lost(g, m) = Lost(h, n)
    <2>1. p \notin Lost(g, m) /\ p \notin Lost(h, n)
      BY <1>7 DEF Lost
    <2>2. \A q : q # p => (q \in Lost(g, m) <=> q \in Lost(h, n))
      BY <1>5, <1>7 DEF Lost
    <2> QED
      BY <2>1, <2>2
  <1>13. \A q \in Lost(h, n) : q \in DOMAIN n /\ q # p
    BY DEF Lost
  <1>14. ASSUME NEW q \in Lost(g, m), NEW i \in DOMAIN g
         PROVE  q < g[i].position
    <2>1. q \in Lost(h, n) /\ q \in Nat /\ p \in Nat /\ q <= p /\ q # p
      BY <1>5, <1>12, <1>13
    <2>2. (i \in DOMAIN h /\ g[i] = h[i]) \/ g[i] = e
      BY <1>1, <1>3
    <2> QED
      BY <2>1, <2>2 DEF KeptWhole
  <1>15. ASSUME NEW q \in Lost(g, m), \A r \in Lost(g, m) : r <= q
         PROVE  Len(g) + m[q] > HistoryLimit
    <2>1. Len(h) + n[q] > HistoryLimit
      BY <1>12, <1>15 DEF KeptWhole
    <2>2. m[q] = n[q] /\ n[q] \in Nat
      BY <1>5, <1>12, <1>13
    <2> QED
      BY <1>1, <1>3, <2>1, <2>2, LedgerAssumption
  <1> QED
    BY <1>4, <1>6, <1>9, <1>10, <1>11, <1>14, <1>15 DEF KeptWhole, g, m

\* The cap drops whole events, the oldest first, and only when it has to.
LEMMA CapKeepsWhole ==
    ASSUME NEW g, NEW n, KeptWhole(g, n)
    PROVE  KeptWhole(Capped(g), n)
  <1> DEFINE c == Capped(g)
  <1>0. PICK S : g \in Seq(S) /\ \A x \in S : IsEntry(x)
    BY DEF KeptWhole, IsHistory
  <1>1. Len(g) \in Nat /\ DOMAIN g = 1..Len(g) /\ \A i \in DOMAIN g : g[i].position \in Nat
    BY <1>0 DEF IsEntry
  <1>2. IsHistory(c) /\ \E k \in 1..(Len(g) + 1) : IsRest(c, g, k) /\ CutAt(g, k)
    BY CapKeepsTheRest DEF KeptWhole
  <1>3. CASE Len(g) <= HistoryLimit
    BY <1>3 DEF Capped
  <1>4. CASE ~(Len(g) <= HistoryLimit)
    <2> HIDE DEF c
    <2> DEFINE middle == Len(g) - HistoryLimit
               cutoff == g[middle].position
    <2>1. PICK k \in 1..(Len(g) + 1) : IsRest(c, g, k) /\ CutAt(g, k)
      BY <1>2
    <2>2. middle \in DOMAIN g /\ middle \in Nat /\ cutoff \in Nat
      BY <1>1, <1>4, LedgerAssumption
    <2>3. k \in Nat /\ \A i \in DOMAIN g : i >= k <=> g[i].position > cutoff
      BY <1>1, <1>4, <2>1 DEF CutAt
    <2>4. /\ Len(c) = Len(g) - k + 1 /\ DOMAIN c = 1..(Len(g) - k + 1)
          /\ \A i \in DOMAIN c : i + k - 1 \in DOMAIN g /\ c[i] = g[i + k - 1]
      BY <1>1, <2>1 DEF IsRest
    <2>5. /\ DOMAIN n \subseteq Nat /\ \A q \in DOMAIN n : n[q] \in Nat
          /\ \A i \in DOMAIN g : g[i].position \in DOMAIN n
      BY DEF KeptWhole, Counts
    <2> HIDE DEF middle, cutoff
    <2>6. \A i \in DOMAIN c : c[i].position > cutoff /\ c[i].position \in DOMAIN n
      BY <1>1, <2>3, <2>4, <2>5
    <2>7. InOrder(c)
      <3> SUFFICES ASSUME NEW i \in DOMAIN c, NEW j \in DOMAIN c, i < j
                   PROVE  c[i].position <= c[j].position
        BY DEF InOrder
      <3>1. i + k - 1 \in DOMAIN g /\ j + k - 1 \in DOMAIN g /\ i + k - 1 < j + k - 1
        BY <1>1, <2>3, <2>4
      <3> QED
        BY <2>4, <3>1 DEF KeptWhole, InOrder
    <2>8. \A q : \A i \in ListedAt(c, q) : i + k - 1 \in ListedAt(g, q)
      BY <2>4 DEF ListedAt
    <2>9. \A q \in Nat : q > cutoff => \A i \in ListedAt(g, q) : i - k + 1 \in ListedAt(c, q)
      <3> SUFFICES ASSUME NEW q \in Nat, q > cutoff, NEW i \in ListedAt(g, q)
                   PROVE  i - k + 1 \in ListedAt(c, q)
        OBVIOUS
      <3>1. i \in DOMAIN g /\ i >= k
        BY <2>3 DEF ListedAt
      <3>2. i - k + 1 \in DOMAIN c /\ (i - k + 1) + k - 1 = i
        BY <1>1, <2>3, <2>4, <3>1
      <3> QED
        BY <2>4, <3>2 DEF ListedAt
    <2>10. ASSUME NEW q \in DOMAIN n, ListedAt(c, q) # {}
           PROVE  \E i \in Nat : ListedAt(c, q) = i..(i + n[q] - 1)
      <3>1. PICK j : j \in ListedAt(c, q)
        BY <2>10
      <3>2. q > cutoff /\ j + k - 1 \in ListedAt(g, q) /\ q \in Nat
        BY <2>5, <2>6, <2>8, <3>1 DEF ListedAt
      <3>3. PICK i \in Nat : ListedAt(g, q) = i..(i + n[q] - 1)
        BY <3>2 DEF KeptWhole
      <3>4. i \in ListedAt(g, q)
        BY <2>2, <2>5, <3>2, <3>3
      <3>5. i \in DOMAIN g /\ i >= k
        BY <2>3, <3>2, <3>4 DEF ListedAt
      <3>6. i - k + 1 \in Nat
        BY <2>3, <3>5
      <3>7. ListedAt(c, q) \subseteq (i - k + 1)..(i - k + 1 + n[q] - 1)
        <4> SUFFICES ASSUME NEW x \in ListedAt(c, q)
                     PROVE  x \in (i - k + 1)..(i - k + 1 + n[q] - 1)
          OBVIOUS
        <4>1. x + k - 1 \in i..(i + n[q] - 1) /\ x \in Nat
          BY <1>1, <2>4, <2>8, <3>3 DEF ListedAt
        <4> QED
          BY <2>3, <2>5, <4>1
      <3>8. (i - k + 1)..(i - k + 1 + n[q] - 1) \subseteq ListedAt(c, q)
        <4> SUFFICES ASSUME NEW x \in (i - k + 1)..(i - k + 1 + n[q] - 1)
                     PROVE  x \in ListedAt(c, q)
          OBVIOUS
        <4>1. x + k - 1 \in i..(i + n[q] - 1) /\ (x + k - 1) - k + 1 = x
          BY <2>3, <2>5
        <4> QED
          BY <2>9, <3>2, <3>3, <4>1
      <3> QED
        BY <3>6, <3>7, <3>8
    <2>11. \A q \in Lost(c, n) : q \in DOMAIN n /\ q <= cutoff
      <3> SUFFICES ASSUME NEW q \in Lost(c, n), q > cutoff
                   PROVE  FALSE
        BY <2>2, <2>5 DEF Lost, cutoff
      <3>1. q \in DOMAIN n /\ n[q] > 0 /\ q \in Nat
        BY <2>5 DEF Lost
      <3>2. ListedAt(g, q) = {}
        BY <2>9, <3>1 DEF Lost
      <3>3. q \in Lost(g, n)
        BY <3>1, <3>2 DEF Lost
      <3>4. q < cutoff
        BY <2>2, <3>3 DEF KeptWhole, cutoff
      <3> QED
        BY <2>2, <3>1, <3>4 DEF cutoff
    <2>12. \A q \in Lost(c, n) : \A i \in DOMAIN c : q < c[i].position
      BY <2>2, <2>5, <2>6, <2>11 DEF cutoff
    <2>13. ASSUME NEW q \in Lost(c, n), \A r \in Lost(c, n) : r <= q
           PROVE  Len(c) + n[q] > HistoryLimit
      <3>1. middle \in ListedAt(g, cutoff) /\ cutoff \in DOMAIN n
        BY <2>2, <2>5 DEF ListedAt, cutoff
      <3>2. PICK i \in Nat : ListedAt(g, cutoff) = i..(i + n[cutoff] - 1)
        BY <3>1 DEF KeptWhole
      <3>3. n[cutoff] \in Nat /\ n[cutoff] > 0 /\ i <= middle
        BY <2>2, <2>5, <3>1, <3>2
      <3>4. ListedAt(c, cutoff) = {}
        BY <2>2, <2>6 DEF ListedAt, cutoff
      <3>5. cutoff \in Lost(c, n)
        BY <3>1, <3>3, <3>4 DEF Lost
      <3>6. q = cutoff
        BY <2>5, <2>11, <2>13, <3>1, <3>5
      <3>7. k <= i + n[cutoff]
        <4>1. i + n[cutoff] - 1 \in DOMAIN g /\ i + n[cutoff] - 1 <= Len(g)
          <5>1. i + n[cutoff] - 1 \in i..(i + n[cutoff] - 1)
            BY <3>3
          <5>2. i + n[cutoff] - 1 \in ListedAt(g, cutoff)
            BY <3>2, <5>1
          <5> QED
            BY <1>1, <5>2 DEF ListedAt
        <4>2. CASE i + n[cutoff] \in DOMAIN g
          <5>1. i + n[cutoff] \notin ListedAt(g, cutoff)
            BY <3>2, <3>3
          <5>2. middle < i + n[cutoff]
            BY <2>2, <3>1, <3>2, <3>3
          <5>3. cutoff <= g[i + n[cutoff]].position
            BY <2>2, <4>2, <5>2 DEF KeptWhole, InOrder, cutoff
          <5>4. g[i + n[cutoff]].position > cutoff
            BY <1>1, <2>2, <4>2, <5>1, <5>3 DEF ListedAt, cutoff
          <5> QED
            BY <2>3, <4>2, <5>4
        <4>3. CASE i + n[cutoff] \notin DOMAIN g
          BY <1>1, <2>1, <3>3, <4>1, <4>3
        <4> QED
          BY <4>2, <4>3
      <3> QED
        BY <1>1, <2>3, <2>4, <3>3, <3>6, <3>7, LedgerAssumption DEF middle
    <2> QED
      BY <1>2, <2>6, <2>7, <2>10, <2>12, <2>13 DEF KeptWhole, c
  <1> QED
    BY <1>3, <1>4

\* g holds a rest of h and what is left of E: no event is torn apart.
Follows(g, h, E) ==
    /\ \A i \in DOMAIN g : (\E j \in DOMAIN h : g[i] = h[j]) \/ g[i] \in E
    /\ \A j \in DOMAIN h : ListedAt(g, h[j].position) # {} => \E i \in DOMAIN g : g[i] = h[j]
    /\ \A e \in E : ListedAt(g, e.position) # {} => \E i \in DOMAIN g : g[i] = e

LEMMA OneAppended ==
    ASSUME NEW h, NEW n, KeptWhole(h, n), NEW e, IsEntry(e), NEW p \in DOMAIN n, e.position = p,
           \A q \in DOMAIN n : q <= p, n[p] > 0 => ListedAt(h, p) # {}
    PROVE  LET g == Capped(Append(h, e))
           IN  /\ KeptWhole(g, [n EXCEPT ![p] = @ + 1])
               /\ Follows(g, h, {e})
               /\ ListedAt(h, p) = {} => ListedAt(g, p) # {}
  <1> DEFINE b == Append(h, e)
             g == Capped(b)
             m == [n EXCEPT ![p] = @ + 1]
  <1>0. PICK S : h \in Seq(S) /\ \A x \in S : IsEntry(x)
    BY DEF KeptWhole, IsHistory
  <1>1. h \in Seq(S \union {e}) /\ b \in Seq(S \union {e})
    BY <1>0
  <1>2. /\ Len(h) \in Nat /\ DOMAIN h = 1..Len(h) /\ Len(b) = Len(h) + 1 /\ DOMAIN b = 1..(Len(h) + 1)
        /\ b[Len(h) + 1] = e /\ \A i \in 1..Len(h) : b[i] = h[i]
    BY <1>0, <1>1
  <1>3. KeptWhole(b, m) /\ KeptWhole(g, m)
    BY AppendKeepsWhole, CapKeepsWhole
  <1>4. IsHistory(b) /\ InOrder(b)
    BY <1>3 DEF KeptWhole
  <1> HIDE DEF b
  <1>5. PICK k \in 1..(Len(b) + 1) : IsRest(g, b, k) /\ CutAt(b, k)
    BY <1>4, CapKeepsTheRest
  <1> HIDE DEF g, m
  <1>6. \A i \in DOMAIN g : i + k - 1 \in DOMAIN b /\ i + k - 1 >= k /\ g[i] = b[i + k - 1]
    BY <1>2, <1>5 DEF IsRest
  <1>7. \A j \in DOMAIN b : j >= k => \E i \in DOMAIN g : g[i] = b[j]
    <2> SUFFICES ASSUME NEW j \in DOMAIN b, j >= k
                 PROVE  j - k + 1 \in DOMAIN g /\ g[j - k + 1] = b[j]
      OBVIOUS
    <2>1. j - k + 1 \in 1..(Len(b) - k + 1) /\ (j - k + 1) + k - 1 = j
      BY <1>2, <1>5
    <2> QED
      BY <1>5, <2>1 DEF IsRest
  <1>8. \A j \in DOMAIN b : ListedAt(g, b[j].position) # {} => \E i \in DOMAIN g : g[i] = b[j]
    <2> SUFFICES ASSUME NEW j \in DOMAIN b, NEW x \in DOMAIN g, g[x].position = b[j].position
                 PROVE  j >= k
      BY <1>7 DEF ListedAt
    <2>1. x + k - 1 \in DOMAIN b /\ x + k - 1 >= k /\ b[x + k - 1].position = b[j].position
      BY <1>6
    <2> QED
      BY <1>5, <2>1 DEF CutAt
  <1>9. Follows(g, h, {e})
    <2>1. \A i \in DOMAIN g : (\E j \in DOMAIN h : g[i] = h[j]) \/ g[i] \in {e}
      <3> SUFFICES ASSUME NEW i \in DOMAIN g
                   PROVE  (\E j \in DOMAIN h : g[i] = h[j]) \/ g[i] = e
        OBVIOUS
      <3>1. g[i] = b[i + k - 1] /\ i + k - 1 \in 1..(Len(h) + 1)
        BY <1>2, <1>6
      <3>2. CASE i + k - 1 = Len(h) + 1
        BY <1>2, <3>1, <3>2
      <3>3. CASE i + k - 1 \in 1..Len(h)
        BY <1>2, <3>1, <3>3
      <3> QED
        BY <1>2, <3>1, <3>2, <3>3
    <2>2. \A j \in DOMAIN h : j \in DOMAIN b /\ b[j] = h[j]
      BY <1>2
    <2>3. Len(h) + 1 \in DOMAIN b
      BY <1>2
    <2>4. \A j \in DOMAIN h : ListedAt(g, h[j].position) # {} => \E i \in DOMAIN g : g[i] = h[j]
      BY <1>8, <2>2
    <2>5. ListedAt(g, e.position) # {} => \E i \in DOMAIN g : g[i] = e
      BY <1>2, <1>8, <2>3
    <2> QED
      BY <2>1, <2>4, <2>5 DEF Follows
  <1>10. ASSUME ListedAt(h, p) = {} PROVE ListedAt(g, p) # {}
    <2>1. Len(h) + 1 >= k
      <3>1. CASE Len(b) <= HistoryLimit
        BY <1>2, <1>5, <3>1 DEF CutAt
      <3>2. CASE ~(Len(b) <= HistoryLimit)
        <4>1. Len(b) - HistoryLimit \in DOMAIN h
          BY <1>2, <3>2, LedgerAssumption
        <4>2. /\ h[Len(b) - HistoryLimit].position \in DOMAIN n
              /\ h[Len(b) - HistoryLimit].position # p
          BY <1>10, <4>1 DEF ListedAt, KeptWhole
        <4>3. DOMAIN n \subseteq Nat
          BY DEF KeptWhole, Counts
        <4>4. b[Len(h) + 1].position > b[Len(b) - HistoryLimit].position
          BY <1>2, <4>1, <4>2, <4>3
        <4> QED
          BY <1>2, <1>5, <4>4 DEF CutAt
      <3> QED
        BY <3>1, <3>2
    <2>2. PICK i \in DOMAIN g : g[i] = b[Len(h) + 1]
      BY <1>2, <1>7, <2>1
    <2> QED
      BY <1>2, <2>2 DEF ListedAt
  <1> QED
    BY <1>3, <1>9, <1>10 DEF g, b, m

\* An event that has no entries is not listed.
LEMMA NothingListed ==
    ASSUME NEW h, NEW n, KeptWhole(h, n), NEW p \in DOMAIN n, n[p] = 0
    PROVE  ListedAt(h, p) = {}
  <1> SUFFICES ASSUME ListedAt(h, p) # {} PROVE FALSE
    OBVIOUS
  <1>1. PICK i \in Nat : ListedAt(h, p) = i..(i + 0 - 1)
    BY DEF KeptWhole
  <1> QED
    BY <1>1

LEMMA TwoAppended ==
    ASSUME NEW h, NEW n, KeptWhole(h, n), NEW e, NEW f, IsEntry(e), IsEntry(f),
           NEW p \in DOMAIN n, e.position = p, f.position = p, n[p] = 0, \A q \in DOMAIN n : q <= p
    PROVE  LET g == Capped(Append(Capped(Append(h, e)), f))
           IN  KeptWhole(g, [n EXCEPT ![p] = 2]) /\ Follows(g, h, {e, f})
  <1> DEFINE b == Capped(Append(h, e))
             g == Capped(Append(b, f))
             m == [n EXCEPT ![p] = @ + 1]
  <1>1. ListedAt(h, p) = {} /\ ~(n[p] > 0)
    BY NothingListed
  <1>2. KeptWhole(b, m) /\ Follows(b, h, {e}) /\ ListedAt(b, p) # {}
    BY <1>1, OneAppended
  <1>3. n \in [DOMAIN n -> Nat]
    BY DEF KeptWhole, Counts
  <1>4. DOMAIN m = DOMAIN n /\ m[p] = 1 /\ [m EXCEPT ![p] = @ + 1] = [n EXCEPT ![p] = 2]
    BY <1>3
  <1> HIDE DEF b, m
  <1>5. KeptWhole(g, [m EXCEPT ![p] = @ + 1]) /\ Follows(g, b, {f})
    BY <1>2, <1>4, OneAppended
  <1> HIDE DEF g
  <1>6. \A i \in DOMAIN g : (\E j \in DOMAIN h : g[i] = h[j]) \/ g[i] \in {e, f}
    BY <1>2, <1>5 DEF Follows
  <1>7. ASSUME NEW j \in DOMAIN h, ListedAt(g, h[j].position) # {}
        PROVE  \E i \in DOMAIN g : g[i] = h[j]
    <2>1. h[j].position # p
      BY <1>1 DEF ListedAt
    <2>2. PICK x \in DOMAIN g : g[x].position = h[j].position
      BY <1>7 DEF ListedAt
    <2>3. PICK y \in DOMAIN b : g[x] = b[y]
      BY <1>5, <2>1, <2>2 DEF Follows
    <2>4. ListedAt(b, h[j].position) # {}
      BY <2>2, <2>3 DEF ListedAt
    <2>5. PICK z \in DOMAIN b : b[z] = h[j]
      BY <1>2, <2>4 DEF Follows
    <2> QED
      BY <1>5, <1>7, <2>5 DEF Follows
  <1>8. ASSUME ListedAt(g, p) # {}
        PROVE  (\E i \in DOMAIN g : g[i] = e) /\ \E i \in DOMAIN g : g[i] = f
    <2>1. PICK z \in DOMAIN b : b[z] = e
      BY <1>2 DEF Follows
    <2> QED
      BY <1>5, <1>8, <2>1 DEF Follows
  <1>9. Follows(g, h, {e, f})
    BY <1>6, <1>7, <1>8 DEF Follows
  <1> QED
    BY <1>4, <1>5, <1>9 DEF g, b

\* An event that has nothing to list yet.
Extended(n, p) == [q \in DOMAIN n \union {p} |-> IF q = p THEN 0 ELSE n[q]]

LEMMA ExtendKeepsWhole ==
    ASSUME NEW h, NEW n, KeptWhole(h, n), NEW p \in Nat, p \notin DOMAIN n
    PROVE  KeptWhole(h, Extended(n, p))
  <1> DEFINE m == Extended(n, p)
  <1>1. DOMAIN n \subseteq Nat /\ \A q \in DOMAIN n : n[q] \in Nat
    BY DEF KeptWhole, Counts
  <1>2. /\ DOMAIN m = DOMAIN n \union {p} /\ m[p] = 0 /\ \A q \in DOMAIN n : m[q] = n[q]
        /\ m \in [DOMAIN m -> Nat]
    BY <1>1 DEF Extended
  <1> HIDE DEF m
  <1>3. Counts(m)
    BY <1>1, <1>2 DEF Counts
  <1>4. ListedAt(h, p) = {}
    BY DEF KeptWhole, ListedAt
  <1>5. Lost(h, m) = Lost(h, n)
    BY <1>2 DEF Lost
  <1>6. \A q \in Lost(h, n) : m[q] = n[q]
    BY <1>2 DEF Lost
  <1>7. \A q \in DOMAIN m : ListedAt(h, q) # {} => \E i \in Nat : ListedAt(h, q) = i..(i + m[q] - 1)
    <2> SUFFICES ASSUME NEW q \in DOMAIN m, ListedAt(h, q) # {}
                 PROVE  \E i \in Nat : ListedAt(h, q) = i..(i + m[q] - 1)
      OBVIOUS
    <2>1. q \in DOMAIN n /\ m[q] = n[q]
      BY <1>2, <1>4
    <2> QED
      BY <2>1 DEF KeptWhole
  <1>8. \A i \in DOMAIN h : h[i].position \in DOMAIN m
    BY <1>2 DEF KeptWhole
  <1>9. \A q \in Lost(h, m) : (\A r \in Lost(h, m) : r <= q) => Len(h) + m[q] > HistoryLimit
    BY <1>5, <1>6 DEF KeptWhole
  <1>10. \A q \in Lost(h, m) : \A i \in DOMAIN h : q < h[i].position
    BY <1>5 DEF KeptWhole
  <1> QED
    BY <1>3, <1>7, <1>8, <1>9, <1>10 DEF KeptWhole, m

\* Marks change nothing but themselves.
MarkedIn(h, ref, mark) ==
    [i \in DOMAIN h |-> IF h[i].position = ref THEN [h[i] EXCEPT ![mark] = TRUE] ELSE h[i]]

LEMMA MarkedEntries ==
    ASSUME NEW h, IsHistory(h), NEW ref, NEW mark \in {"retracted", "superseded"}
    PROVE  LET g == MarkedIn(h, ref, mark)
           IN  /\ IsHistory(g) /\ DOMAIN g = DOMAIN h /\ Len(g) = Len(h)
               /\ \A i \in DOMAIN h :
                     /\ g[i].position = h[i].position /\ g[i].target = h[i].target
                     /\ g[i].operation = h[i].operation /\ g[i].phase = h[i].phase
                     /\ g[i].retracted <=> h[i].retracted \/ (mark = "retracted" /\ h[i].position = ref)
                     /\ g[i].superseded <=> h[i].superseded \/ (mark = "superseded" /\ h[i].position = ref)
  <1> DEFINE g == MarkedIn(h, ref, mark)
  <1>1. Len(h) \in Nat /\ DOMAIN h = 1..Len(h) /\ \A i \in DOMAIN h : IsEntry(h[i])
    BY HistoryHas
  <1>2. DOMAIN g = DOMAIN h /\ \A i \in DOMAIN h :
           g[i] = IF h[i].position = ref THEN [h[i] EXCEPT ![mark] = TRUE] ELSE h[i]
    BY DEF MarkedIn
  <1>3. ASSUME NEW i \in DOMAIN h
        PROVE  /\ IsEntry(g[i])
               /\ g[i].position = h[i].position /\ g[i].target = h[i].target
               /\ g[i].operation = h[i].operation /\ g[i].phase = h[i].phase
               /\ g[i].retracted <=> h[i].retracted \/ (mark = "retracted" /\ h[i].position = ref)
               /\ g[i].superseded <=> h[i].superseded \/ (mark = "superseded" /\ h[i].position = ref)
    <2>1. IsEntry(h[i])
      BY <1>1
    <2>2. CASE h[i].position # ref
      BY <1>2, <2>1, <2>2
    <2>3. CASE h[i].position = ref
      <3>1. g[i] = [h[i] EXCEPT ![mark] = TRUE]
        BY <1>2, <2>3
      <3> HIDE DEF g
      <3>2. CASE mark = "retracted"
        BY <2>1, <2>3, <3>1, <3>2 DEF IsEntry, EntryFields
      <3>3. CASE mark = "superseded"
        BY <2>1, <2>3, <3>1, <3>3 DEF IsEntry, EntryFields
      <3> QED
        BY <3>2, <3>3
    <2> QED
      BY <2>2, <2>3
  <1>4. g = [i \in 1..Len(h) |-> g[i]]
    BY <1>1 DEF MarkedIn
  <1>5. g \in Seq({g[i] : i \in 1..Len(h)})
    <2> DEFINE S == {g[i] : i \in 1..Len(h)}
    <2>1. \A i \in 1..Len(h) : g[i] \in S
      OBVIOUS
    <2> HIDE DEF g, S
    <2>2. g \in [1..Len(h) -> S]
      BY <1>4, <2>1
    <2> QED
      BY <1>1, <2>2 DEF S
  <1>6. IsHistory(g)
    <2> HIDE DEF g
    <2> QED
      BY <1>1, <1>3, <1>5 DEF IsHistory
  <1>7. Len(g) = Len(h)
    <2> HIDE DEF g
    <2> QED
      BY <1>1, <1>2, <1>5
  <1> QED
    BY <1>2, <1>3, <1>6, <1>7

LEMMA MarksKeepWhole ==
    ASSUME NEW h, NEW n, KeptWhole(h, n), NEW ref, NEW mark \in {"retracted", "superseded"}
    PROVE  /\ KeptWhole(MarkedIn(h, ref, mark), n)
           /\ \A p : ListedAt(MarkedIn(h, ref, mark), p) = ListedAt(h, p)
  <1> DEFINE g == MarkedIn(h, ref, mark)
  <1>1. IsHistory(g) /\ DOMAIN g = DOMAIN h /\ Len(g) = Len(h)
          /\ \A i \in DOMAIN h : g[i].position = h[i].position
    BY MarkedEntries DEF KeptWhole
  <1> HIDE DEF g
  <1>2. \A p : ListedAt(g, p) = ListedAt(h, p)
    BY <1>1 DEF ListedAt
  <1>3. Lost(g, n) = Lost(h, n)
    BY <1>2 DEF Lost
  <1>4. InOrder(g)
    BY <1>1 DEF KeptWhole, InOrder
  <1>5. KeptWhole(g, n)
    BY <1>1, <1>2, <1>3, <1>4 DEF KeptWhole
  <1> QED
    BY <1>2, <1>5 DEF g

LEMMA MarkedHistory ==
    ASSUME NEW l, IsLedger(l), NEW ref, NEW mark
    PROVE  Marked(l, ref, mark).history = MarkedIn(l.history, ref, mark)
  BY DEF Marked, WithoutStepOf, MarkedIn, IsLedger, LedgerFields

-----------------------------------------------------------------------------
(* What an event adds to the history.                                            *)

EntryOf(f, a, p) ==
    [target |-> f.target, operation |-> f.operation, phase |-> f.phase,
     snapshot |-> f.snapshot, direct |-> f.direct, position |-> p, agent |-> a,
     retracted |-> FALSE, superseded |-> FALSE]

LEMMA AppendHistory ==
    ASSUME NEW l, IsLedger(l), NEW f, NEW a, NEW p
    PROVE  AppendChange(l, f, a, p).history = Capped(Append(l.history, EntryOf(f, a, p)))
  BY DEF AppendChange, EntryOf, IsLedger, LedgerFields

IsEntryOf(e, f, p) ==
    /\ IsEntry(e) /\ e.position = p /\ e.retracted = FALSE /\ e.superseded = FALSE
    /\ e.target = f.target /\ e.operation = f.operation /\ e.phase = f.phase

LEMMA EntryShape ==
    ASSUME NEW f, NEW a, NEW p \in Nat
    PROVE  IsEntryOf(EntryOf(f, a, p), f, p)
  BY DEF EntryOf, IsEntryOf, IsEntry, EntryFields

OperationEntry(k, o, a, p) ==
    EntryOf([target |-> o.target, operation |-> o.op, phase |-> "applied",
             snapshot |-> SnapshotOf(k, o, p), direct |-> TRUE], a, p)
IsOperationEntry(e, o, p) ==
    /\ IsEntry(e) /\ e.position = p /\ e.retracted = FALSE /\ e.superseded = FALSE
    /\ e.target = o.target /\ e.operation = o.op /\ e.phase = "applied"

LEMMA OperationHistory ==
    ASSUME NEW k, IsLedger(k), NEW o, NEW a, NEW p
    PROVE  /\ AppendOperation(k, o, a, p).history = Capped(Append(k.history, OperationEntry(k, o, a, p)))
           /\ IsLedger(AppendOperation(k, o, a, p))
  <1> DEFINE f == [target |-> o.target, operation |-> o.op, phase |-> "applied",
                   snapshot |-> SnapshotOf(k, o, p), direct |-> TRUE]
  <1>1. AppendOperation(k, o, a, p) = AppendChange(k, f, a, p)
    BY DEF AppendOperation
  <1>2. OperationEntry(k, o, a, p) = EntryOf(f, a, p)
    BY DEF OperationEntry
  <1> HIDE DEF f
  <1> QED
    BY <1>1, <1>2, AppendHistory, OperationShape

LEMMA OperationEntryIs ==
    ASSUME NEW k, NEW o, NEW a, NEW p \in Nat
    PROVE  IsOperationEntry(OperationEntry(k, o, a, p), o, p)
  BY DEF OperationEntry, IsOperationEntry, EntryOf, IsEntry, EntryFields

Size(c) ==
    IF c.type = "model.mutation_applied" THEN Len(c.ops)
    ELSE IF c.type \in {"change_planned", "change_applied"} THEN 1 ELSE 0
\* The elements a content writes, and the ones it takes out.
WritesTo(c, t) ==
    IF c.type = "model.mutation_applied" THEN \E i \in DOMAIN c.ops : c.ops[i].target = t
    ELSE c.type = "change_applied" /\ c.target = t
TakesOut(c, t) ==
    IF c.type = "model.mutation_applied" THEN \E i \in DOMAIN c.ops : c.ops[i].target = t /\ c.ops[i].op = "remove"
    ELSE c.operation = "remove"
Tells(e, c) ==
    /\ e.phase = "applied" <=> c.type \in {"model.mutation_applied", "change_applied"}
    /\ e.phase = "applied" => WritesTo(c, e.target) /\ (e.operation = "remove" <=> TakesOut(c, e.target))
\* The entries an event adds tell what it did, and all of it.
AllTold(E, c, p) ==
    /\ \A e \in E : e.position = p /\ e.retracted = FALSE /\ e.superseded = FALSE /\ Tells(e, c)
    /\ \A t : WritesTo(c, t) => \E e \in E : e.target = t /\ e.phase = "applied"

LEMMA MutationParts ==
    ASSUME NEW c \in Plain, c.type = "model.mutation_applied"
    PROVE  \/ Len(c.ops) = 1 /\ DOMAIN c.ops = {1} /\ c.ops[1] \in Op
           \/ Len(c.ops) = 2 /\ DOMAIN c.ops = {1, 2} /\ c.ops[1] \in Op /\ c.ops[2] \in Op
  <1>1. CASE c \in [type : {"model.mutation_applied"},
                    ops : {<<o>> : o \in Op}
                             \union {<<o, q>> : o \in Op, q \in {r \in Op : r.op # "add"}}]
    <2>1. c.ops \in {<<o>> : o \in Op} \union {<<o, q>> : o \in Op, q \in {r \in Op : r.op # "add"}}
      BY <1>1
    <2>2. \/ \E o \in Op : c.ops = <<o>>
          \/ \E o, q \in Op : c.ops = <<o, q>>
      BY <2>1
    <2>3. CASE \E o \in Op : c.ops = <<o>>
      BY <2>3
    <2>4. CASE \E o, q \in Op : c.ops = <<o, q>>
      BY <2>4
    <2> QED
      BY <2>2, <2>3, <2>4
  <1> QED
    BY <1>1 DEF Plain

LEMMA ContentHistory ==
    ASSUME NEW l, IsLedger(l), NEW n, KeptWhole(l.history, n), NEW p \in DOMAIN n, n[p] = 0,
           \A q \in DOMAIN n : q <= p, NEW c \in Plain, WellFormed(c), NEW a,
           c.type # "architecture.snapshot_published"
    PROVE  \E E : /\ KeptWhole(ApplyContent(l, c, a, p).history, [n EXCEPT ![p] = Size(c)])
                  /\ Follows(ApplyContent(l, c, a, p).history, l.history, E)
                  /\ AllTold(E, c, p)
  <1> DEFINE h == l.history
             g == ApplyContent(l, c, a, p).history
  <1>0. /\ n \in [DOMAIN n -> Nat] /\ p \in Nat /\ ListedAt(h, p) = {} /\ ~(n[p] > 0)
    BY NothingListed DEF KeptWhole, Counts
  <1>1. CASE c.type \in {"change_planned", "change_applied"}
    <2> DEFINE f == [target |-> c.target, operation |-> c.operation,
                     phase |-> IF c.type = "change_planned" THEN "planned" ELSE "applied",
                     snapshot |-> Reported(p), direct |-> FALSE]
               e == EntryOf(f, a, p)
    <2>1. ApplyContent(l, c, a, p) = AppendChange(l, f, a, p)
      BY <1>1 DEF ApplyContent
    <2>2. /\ f.phase = "applied" <=> c.type = "change_applied"
          /\ f.operation = c.operation /\ f.target = c.target
      BY <1>1
    <2> HIDE DEF f
    <2>3. g = Capped(Append(h, e))
      BY <2>1, AppendHistory
    <2>4. /\ IsEntry(e) /\ e.position = p /\ e.retracted = FALSE /\ e.superseded = FALSE
          /\ e.target = f.target /\ e.operation = f.operation /\ e.phase = f.phase
      <3>1. p \in Nat
        BY <1>0
      <3>2. IsEntryOf(e, f, p)
        BY <3>1, EntryShape
      <3> HIDE DEF e
      <3> QED
        BY <3>2 DEF IsEntryOf
    <2> HIDE DEF e, g
    <2>5. KeptWhole(g, [n EXCEPT ![p] = @ + 1]) /\ Follows(g, h, {e})
      BY <1>0, <2>3, <2>4, OneAppended
    <2>6. [n EXCEPT ![p] = @ + 1] = [n EXCEPT ![p] = Size(c)]
      <3>1. Size(c) = 1 /\ n[p] + 1 = 1
        BY <1>1 DEF Size
      <3> QED
        BY <1>0, <3>1
    <2>7. AllTold({e}, c, p)
      <3>1. Tells(e, c)
        BY <1>1, <2>2, <2>4 DEF Tells, WritesTo, TakesOut
      <3>2. \A t : WritesTo(c, t) => e.target = t /\ e.phase = "applied"
        BY <1>1, <2>2, <2>4 DEF WritesTo
      <3> QED
        BY <2>4, <3>1, <3>2 DEF AllTold
    <2> QED
      BY <2>5, <2>6, <2>7 DEF g
  <1>2. CASE c.type = "model.mutation_applied"
    <2>1. \A k, o : IsLedger(k) =>
             /\ AppendOperation(k, o, a, p).history = Capped(Append(k.history, OperationEntry(k, o, a, p)))
             /\ IsLedger(AppendOperation(k, o, a, p))
      BY <1>0, OperationHistory
    <2>2. \A k, o : IsOperationEntry(OperationEntry(k, o, a, p), o, p)
      BY <1>0, OperationEntryIs
    <2>3. ApplyContent(l, c, a, p) = Mutated(l, c, a, p)
      BY <1>2 DEF ApplyContent
    <2>4. \A i, j \in DOMAIN c.ops : c.ops[i].target = c.ops[j].target => i = j
      BY <1>2 DEF WellFormed, IsInjective
    <2>5. CASE Len(c.ops) = 1 /\ DOMAIN c.ops = {1}
      <3> DEFINE e == OperationEntry(l, c.ops[1], a, p)
      <3>1. g = Capped(Append(h, e))
        BY <2>1, <2>3, <2>5, OneOperation
      <3>2. IsEntry(e) /\ e.position = p /\ e.retracted = FALSE /\ e.superseded = FALSE
              /\ e.target = c.ops[1].target /\ e.operation = c.ops[1].op /\ e.phase = "applied"
        BY <2>2 DEF IsOperationEntry
      <3> HIDE DEF e, g
      <3>3. KeptWhole(g, [n EXCEPT ![p] = @ + 1]) /\ Follows(g, h, {e})
        BY <1>0, <3>1, <3>2, OneAppended
      <3>4. [n EXCEPT ![p] = @ + 1] = [n EXCEPT ![p] = Size(c)]
        <4>1. Size(c) = 1 /\ n[p] + 1 = 1
          BY <1>2, <2>5 DEF Size
        <4> QED
          BY <1>0, <4>1
      <3>5. AllTold({e}, c, p)
        <4>1. Tells(e, c)
          BY <1>2, <2>5, <3>2 DEF Tells, WritesTo, TakesOut
        <4>2. \A t : WritesTo(c, t) => e.target = t /\ e.phase = "applied"
          BY <1>2, <2>5, <3>2 DEF WritesTo
        <4> QED
          BY <3>2, <4>1, <4>2 DEF AllTold
      <3> QED
        BY <3>3, <3>4, <3>5 DEF g
    <2>6. CASE Len(c.ops) = 2 /\ DOMAIN c.ops = {1, 2}
      <3> DEFINE k == AppendOperation(l, c.ops[1], a, p)
                 e == OperationEntry(l, c.ops[1], a, p)
                 f == OperationEntry(k, c.ops[2], a, p)
      <3>1. IsLedger(k) /\ k.history = Capped(Append(h, e))
        BY <2>1
      <3>2. Mutated(l, c, a, p) = AppendOperation(k, c.ops[2], a, p)
        BY <2>6, TwoOperations
      <3>3. /\ IsEntry(e) /\ e.position = p /\ e.retracted = FALSE /\ e.superseded = FALSE
            /\ e.target = c.ops[1].target /\ e.operation = c.ops[1].op /\ e.phase = "applied"
        BY <2>2 DEF IsOperationEntry
      <3>4. /\ IsEntry(f) /\ f.position = p /\ f.retracted = FALSE /\ f.superseded = FALSE
            /\ f.target = c.ops[2].target /\ f.operation = c.ops[2].op /\ f.phase = "applied"
        BY <2>2 DEF IsOperationEntry
      <3> HIDE DEF k, e, f
      <3>5. g = Capped(Append(Capped(Append(h, e)), f))
        BY <2>1, <2>3, <3>1, <3>2 DEF f
      <3> HIDE DEF g
      <3>6. KeptWhole(g, [n EXCEPT ![p] = 2]) /\ Follows(g, h, {e, f})
        BY <3>3, <3>4, <3>5, TwoAppended
      <3>7. Size(c) = 2
        BY <1>2, <2>6 DEF Size
      <3>8. AllTold({e, f}, c, p)
        <4>1. c.ops[1].target # c.ops[2].target
          BY <2>4, <2>6
        <4>2. Tells(e, c) /\ Tells(f, c)
          BY <1>2, <2>6, <3>3, <3>4, <4>1 DEF Tells, WritesTo, TakesOut
        <4>3. \A t : WritesTo(c, t) => e.target = t \/ f.target = t
          BY <1>2, <2>6, <3>3, <3>4 DEF WritesTo
        <4> QED
          BY <3>3, <3>4, <4>2, <4>3 DEF AllTold
      <3> QED
        BY <3>6, <3>7, <3>8 DEF g
    <2> QED
      BY <1>2, <2>5, <2>6, MutationParts
  <1>3. CASE c.type \in {"work.step_started", "work.step_completed", "work.scope_reported",
                         "agent.finished", "run.finished"}
    <2>1. g = h
      BY <1>3 DEF ApplyContent, WithoutStep, IsLedger, LedgerFields
    <2>2. [n EXCEPT ![p] = Size(c)] = n
      <3>1. Size(c) = n[p]
        BY <1>3 DEF Size
      <3> QED
        BY <1>0, <3>1
    <2>3. Follows(h, h, {})
      BY DEF Follows
    <2>4. AllTold({}, c, p)
      BY <1>3 DEF AllTold, WritesTo
    <2> QED
      BY <2>1, <2>2, <2>3, <2>4
  <1> QED
    BY <1>1, <1>2, <1>3, PlainParts

\* An entry after event ev is the one it was, and marked when ev marks it.
Carried(x, y, ev) ==
    /\ x.position = y.position /\ x.target = y.target /\ x.operation = y.operation /\ x.phase = y.phase
    /\ x.retracted <=> y.retracted \/ (ev.type = "retraction.issued" /\ ev.ref = y.position)
    /\ x.superseded <=> y.superseded \/ (ev.type = "correction.issued" /\ ev.ref = y.position)
Carries(g, h, ev, E) ==
    /\ \A i \in DOMAIN g : (\E j \in DOMAIN h : Carried(g[i], h[j], ev)) \/ g[i] \in E
    /\ \A j \in DOMAIN h : ListedAt(g, h[j].position) # {} => \E i \in DOMAIN g : Carried(g[i], h[j], ev)
    /\ \A e \in E : ListedAt(g, e.position) # {} => \E i \in DOMAIN g : g[i] = e

LEMMA MarksCarry ==
    ASSUME NEW h, IsHistory(h), NEW ev, ev.type \in {"retraction.issued", "correction.issued"}
    PROVE  LET mark == IF ev.type = "retraction.issued" THEN "retracted" ELSE "superseded"
           IN  /\ DOMAIN MarkedIn(h, ev.ref, mark) = DOMAIN h
               /\ \A i \in DOMAIN h : Carried(MarkedIn(h, ev.ref, mark)[i], h[i], ev)
  <1>1. CASE ev.type = "retraction.issued"
    BY <1>1, MarkedEntries DEF Carried
  <1>2. CASE ev.type = "correction.issued"
    BY <1>2, MarkedEntries DEF Carried
  <1> QED
    BY <1>1, <1>2

LEMMA AppliedHistory ==
    ASSUME NEW l, IsLedger(l), NEW n, KeptWhole(l.history, n), NEW p \in DOMAIN n, n[p] = 0,
           \A q \in DOMAIN n : q <= p, NEW ev \in Reportable, Effective(ev) \in Applicable,
           WellFormed(Effective(ev)), Effective(ev).type # "architecture.snapshot_published", NEW a
    PROVE  \E E : /\ KeptWhole(Apply(l, ev, a, p).history, [n EXCEPT ![p] = Size(Effective(ev))])
                  /\ Carries(Apply(l, ev, a, p).history, l.history, ev, E)
                  /\ AllTold(E, Effective(ev), p)
  <1> DEFINE h == l.history
             g == Apply(l, ev, a, p).history
             c == Effective(ev)
  <1>0. n \in [DOMAIN n -> Nat] /\ IsHistory(h)
    BY DEF KeptWhole, Counts
  <1>1. CASE ev.type = "retraction.issued"
    <2>1. c = ev /\ g = MarkedIn(h, ev.ref, "retracted")
      BY <1>1, MarkedHistory DEF Effective, Apply, ApplyContent
    <2>2. KeptWhole(g, n)
      BY <2>1, MarksKeepWhole
    <2>3. n = [n EXCEPT ![p] = Size(c)]
      <3>1. Size(c) = n[p]
        BY <1>1, <2>1 DEF Size
      <3> QED
        BY <1>0, <3>1
    <2>4. DOMAIN g = DOMAIN h /\ \A i \in DOMAIN h : Carried(g[i], h[i], ev)
      BY <1>0, <1>1, <2>1, MarksCarry
    <2>5. Carries(g, h, ev, {})
      BY <2>4 DEF Carries
    <2>6. AllTold({}, c, p)
      BY <1>1, <2>1 DEF AllTold, WritesTo
    <2> QED
      BY <2>2, <2>3, <2>5, <2>6
  <1>2. CASE ev.type = "correction.issued"
    <2> DEFINE k == Marked(l, ev.ref, "superseded")
    <2>1. c = ev.corrected /\ c \in Plain
      <3>1. ev \notin Applicable
        BY <1>2 DEF Applicable, Plain
      <3> QED
        BY <1>2, <3>1 DEF Effective, Reportable
    <2>2. g = ApplyContent(k, c, a, p).history
      BY <1>2, <2>1 DEF Apply
    <2>3. IsLedger(k) /\ k.history = MarkedIn(h, ev.ref, "superseded")
      BY MarkedShape, MarkedHistory
    <2>4. KeptWhole(k.history, n) /\ \A q : ListedAt(k.history, q) = ListedAt(h, q)
      BY <2>3, MarksKeepWhole
    <2> HIDE DEF k
    <2>5. PICK E : /\ KeptWhole(ApplyContent(k, c, a, p).history, [n EXCEPT ![p] = Size(c)])
                   /\ Follows(ApplyContent(k, c, a, p).history, k.history, E)
                   /\ AllTold(E, c, p)
      BY <2>1, <2>3, <2>4, ContentHistory
    <2>6. DOMAIN k.history = DOMAIN h /\ \A i \in DOMAIN h : Carried(k.history[i], h[i], ev)
      BY <1>0, <1>2, <2>3, MarksCarry
    <2> HIDE DEF g, h, c
    <2>7. KeptWhole(g, [n EXCEPT ![p] = Size(c)]) /\ Follows(g, k.history, E)
      BY <2>2, <2>5
    <2>8. \A i \in DOMAIN g : (\E j \in DOMAIN h : Carried(g[i], h[j], ev)) \/ g[i] \in E
      BY <2>6, <2>7 DEF Follows
    <2>9. \A j \in DOMAIN h : k.history[j].position = h[j].position
      BY <2>6 DEF Carried
    <2>10. \A j \in DOMAIN h : ListedAt(g, h[j].position) # {} => \E i \in DOMAIN g : Carried(g[i], h[j], ev)
      BY <2>6, <2>7, <2>9 DEF Follows
    <2>11. \A e \in E : ListedAt(g, e.position) # {} => \E i \in DOMAIN g : g[i] = e
      BY <2>7 DEF Follows
    <2> QED
      BY <2>5, <2>7, <2>8, <2>10, <2>11 DEF Carries, g, h, c
  <1>3. CASE ev.type \notin {"retraction.issued", "correction.issued"}
    <2>1. c = ev /\ c \in Plain
      BY <1>3 DEF Effective, Applicable
    <2>2. g = ApplyContent(l, c, a, p).history
      BY <1>3, <2>1 DEF Apply
    <2>3. PICK E : /\ KeptWhole(ApplyContent(l, c, a, p).history, [n EXCEPT ![p] = Size(c)])
                   /\ Follows(ApplyContent(l, c, a, p).history, l.history, E)
                   /\ AllTold(E, c, p)
      BY <2>1, ContentHistory
    <2>4. \A j \in DOMAIN h : Carried(h[j], h[j], ev)
      <3>1. \A j \in DOMAIN h : h[j].retracted \in BOOLEAN /\ h[j].superseded \in BOOLEAN
        BY <1>0, HistoryHas DEF IsEntry
      <3> QED
        BY <1>3, <3>1 DEF Carried
    <2> HIDE DEF g, h, c
    <2>5. Follows(g, h, E)
      BY <2>2, <2>3 DEF h
    <2>6. \A i \in DOMAIN g : (\E j \in DOMAIN h : Carried(g[i], h[j], ev)) \/ g[i] \in E
      BY <2>4, <2>5 DEF Follows
    <2>7. \A j \in DOMAIN h : ListedAt(g, h[j].position) # {} => \E i \in DOMAIN g : Carried(g[i], h[j], ev)
      BY <2>4, <2>5 DEF Follows
    <2>8. \A e \in E : ListedAt(g, e.position) # {} => \E i \in DOMAIN g : g[i] = e
      BY <2>5 DEF Follows
    <2> QED
      BY <2>2, <2>3, <2>6, <2>7, <2>8 DEF Carries, g, h, c
  <1> QED
    BY <1>1, <1>2, <1>3

\* What an event leaves of the rows: it took an element out, or it is there.
LEMMA RowsTell ==
    ASSUME NEW m, NEW c \in Applicable, NEW p, NEW t, c.type # "architecture.snapshot_published"
    PROVE  /\ WritesTo(c, t) => (TakesOut(c, t) <=> t \notin DOMAIN RowsAfter(m, c, p))
           /\ ~WritesTo(c, t) => (t \in DOMAIN m.rows <=> t \in DOMAIN RowsAfter(m, c, p))
  <1>1. CASE c.type = "model.mutation_applied"
    <2>1. RowsAfter(m, c, p) = Rewritten(m, c, p)
      BY <1>1 DEF RowsAfter
    <2>2. DOMAIN Rewritten(m, c, p) = (DOMAIN m.rows \union TargetsOf(c, "add") \union TargetsOf(c, "modify"))
                                            \ TargetsOf(c, "remove")
      BY <1>1, RewrittenDomain
    <2>3. c \in Plain
      BY <1>1 DEF Applicable
    <2>4. \A i \in DOMAIN c.ops : c.ops[i].op \in {"add", "modify", "remove"}
      BY <1>1, <2>3, MutationParts DEF Op, Operation
    <2>5. WritesTo(c, t) <=> t \in TargetsOf(c, "add") \union TargetsOf(c, "modify") \union TargetsOf(c, "remove")
      BY <1>1, <2>4 DEF WritesTo, TargetsOf
    <2>6. TakesOut(c, t) <=> t \in TargetsOf(c, "remove")
      BY <1>1 DEF TakesOut, TargetsOf
    <2> QED
      BY <2>1, <2>2, <2>5, <2>6
  <1>2. CASE c.type = "change_applied"
    <2>1. c.operation \in Operation
      BY <1>2, PlainParts DEF Applicable
    <2>2. RowsAfter(m, c, p) = IF c.operation = "remove" THEN Restrict(m.rows, DOMAIN m.rows \ {c.target})
                               ELSE With(m.rows, c.target, Reported(p))
      BY <1>2, <2>1, AppliedRewritten DEF RowsAfter
    <2>3. DOMAIN RowsAfter(m, c, p) = IF c.operation = "remove" THEN DOMAIN m.rows \ {c.target}
                                      ELSE DOMAIN m.rows \union {c.target}
      BY <2>2 DEF Restrict, With, Over
    <2> QED
      BY <1>2, <2>3 DEF WritesTo, TakesOut
  <1>3. CASE c.type \notin {"model.mutation_applied", "change_applied"}
    BY <1>3 DEF WritesTo, RowsAfter
  <1> QED
    BY <1>1, <1>2, <1>3

-----------------------------------------------------------------------------
(* The history and what was delivered.                                           *)

Expected == [p \in SinceSnapshot |-> Reports(p)]

\* An entry is marked as it was withdrawn or replaced, and tells what its event did.
EntryAgrees(e) ==
    /\ e.retracted <=> MarkedBy(e.position, "retraction.issued")
    /\ e.superseded <=> MarkedBy(e.position, "correction.issued")
    /\ Tells(e, Content(e.position))
EntriesAgree == \A i \in DOMAIN ledger.history : EntryAgrees(ledger.history[i])

\* An event that is listed is listed under everything it wrote.
WritesListed ==
    \A p \in SinceSnapshot : ListedAt(ledger.history, p) # {} =>
        \A t : WritesTo(Content(p), t) =>
            \E i \in ListedAt(ledger.history, p) :
                ledger.history[i].target = t /\ ledger.history[i].phase = "applied"

\* The last event that wrote an element decides whether it is there.
LastWrote(p, t) ==
    WritesTo(Content(p), t) /\ \A q \in SinceSnapshot : WritesTo(Content(q), t) => q <= p
NewestDecides ==
    \A p \in SinceSnapshot : \A t : LastWrote(p, t) =>
        (TakesOut(Content(p), t) <=> t \notin DOMAIN ModelAt(ledger.last).rows)

HistoryInv ==
    LedgerInv /\ KeptWhole(ledger.history, Expected) /\ EntriesAgree /\ WritesListed /\ NewestDecides

\* A step that neither delivers nor changes what was delivered.
LEMMA HistoryUndisturbed ==
    ASSUME HistoryInv, LedgerInv', ledger' = ledger, Delivered' = Delivered,
           \A q \in Delivered : log'[q] = log[q], ModelAt(ledger.last)' = ModelAt(ledger.last)
    PROVE  HistoryInv'
  <1>1. \A q \in Delivered : Content(q)' = Content(q) /\ Reports(q)' = Reports(q)
    BY DEF Content, Reports
  <1>2. SinceSnapshot' = SinceSnapshot /\ SinceSnapshot \subseteq Delivered
    BY <1>1 DEF SinceSnapshot
  <1>3. Expected' = Expected
    BY <1>1, <1>2 DEF Expected
  <1>4. KeptWhole(ledger.history, Expected)'
    BY <1>3 DEF HistoryInv, KeptWhole, Lost, Counts, InOrder, ListedAt, IsHistory, IsEntry, EntryFields
  <1>5. \A x, type : MarkedBy(x, type)' = MarkedBy(x, type)
    BY DEF MarkedBy
  <1>6. \A i \in DOMAIN ledger.history : ledger.history[i].position \in SinceSnapshot
    BY DEF HistoryInv, KeptWhole, Expected
  <1>7. EntriesAgree'
    BY <1>1, <1>2, <1>5, <1>6 DEF HistoryInv, EntriesAgree, EntryAgrees
  <1>8. WritesListed'
    BY <1>1, <1>2 DEF HistoryInv, WritesListed
  <1>9. NewestDecides'
    BY <1>1, <1>2 DEF HistoryInv, NewestDecides, LastWrote
  <1> QED
    BY <1>4, <1>7, <1>8, <1>9 DEF HistoryInv

LEMMA CommitHistory ==
    ASSUME HistoryInv, LedgerInv', NEW a \in Agents, NEW c \in Contents(Len(log)), Commit(a, c)
    PROVE  HistoryInv'
  <1>1. /\ \A q \in 0..Len(log) : ModelAt(q)' = ModelAt(q)
        /\ log \in Seq(LogEntries) /\ Len(log) \in Nat
    BY CommitKeeps DEF HistoryInv, LedgerInv, LogInv, LogTyped
  <1>2. UNCHANGED <<opened, ledger>> /\ \A q \in 1..Len(log) : log'[q] = log[q]
    BY <1>1 DEF Commit
  <1>3. ledger.last \in 0..Len(log) /\ Delivered \subseteq 1..Len(log)
    <2>1. ModelInStep
      BY DEF HistoryInv, LedgerInv
    <2>2. CASE opened = None
      BY <1>1, <2>1, <2>2 DEF ModelInStep, Delivered
    <2>3. CASE opened # None
      BY <1>1, <2>1, <2>3 DEF ModelInStep, Delivered
    <2> QED
      BY <2>2, <2>3
  <1>4. Delivered' = Delivered
    BY <1>2 DEF Delivered
  <1>5. \A x : x = ledger.last => ModelAt(x)' = ModelAt(x)
    BY <1>1, <1>3
  <1>6. ModelAt(ledger.last)' = ModelAt(ledger.last)
    BY <1>2, <1>5 DEF ModelAt
  <1> QED
    BY <1>2, <1>3, <1>4, <1>6, HistoryUndisturbed

LEMMA OpenHistory ==
    ASSUME HistoryInv, LedgerInv', Open
    PROVE  HistoryInv'
  <1>1. UNCHANGED <<log, ledger>> /\ opened = None /\ opened' = Len(log)
    BY DEF Open
  <1>2. ledger.last = 0 /\ Len(log) \in Nat
    BY <1>1 DEF HistoryInv, LedgerInv, LogInv, LogTyped, ModelInStep
  <1>3. Delivered' = {} /\ Delivered = {}
    BY <1>1, <1>2 DEF Delivered
  <1>4. ModelAt(ledger.last)' = ModelAt(ledger.last)
    BY <1>1 DEF ModelAt
  <1> QED
    BY <1>1, <1>3, <1>4, HistoryUndisturbed

\* The event a frame delivers.
LEMMA NextEvent ==
    ASSUME LedgerInv, NEW p \in 1..MaxEvents, Frame(p), p > ledger.last
    PROVE  LET ev == log[p].event
               c == Content(p)
               k == ObserveModel(ledger, cache, p)
           IN  /\ p \in Nat /\ ev \in Reportable /\ c = Effective(ev) /\ c \in Applicable /\ WellFormed(c)
               /\ ModelAt(p).rows = RowsAfter(ModelAt(p - 1), c, p)
               /\ IsLedger(k) /\ k.history = ledger.history
               /\ ledger'.last = p /\ ledger'.history = Apply(k, ev, log[p].agent, p).history
               /\ Delivered' = Delivered \union {p} /\ Delivered \subseteq Nat /\ \A q \in Delivered : q < p
               /\ Delivered # {} => ledger.last = p - 1
               /\ log' = log
  <1>0. LogInv /\ ModelInStep /\ Len(log) \in Nat /\ log \in Seq(LogEntries) /\ DOMAIN log = 1..Len(log)
    BY DEF LedgerInv, LogInv, LogTyped
  <1>1. /\ opened # None /\ p \in (opened + 1)..Len(log)
        /\ p <= Reached + 1
        /\ UNCHANGED <<log, opened, cache>>
    BY DEF Frame, Reached
  <1>2. /\ opened \in 0..Len(log) /\ Reached \in 0..Len(log) /\ ledger.last \in 0..Len(log)
        /\ ledger.last = 0 \/ ledger.last \in (opened + 1)..Len(log)
        /\ IsLedger(ledger)
    BY <1>0, <1>1 DEF ModelInStep, Reached
  <1>3. p = Reached + 1 /\ p \in Nat
    BY <1>1, <1>2 DEF Reached
  <1> DEFINE ev == log[p].event
             c == Content(p)
             k == ObserveModel(ledger, cache, p)
             a == log[p].agent
  <1>4. p \in DOMAIN log /\ ev \in Reportable
    <2>1. p \in 1..Len(log)
      BY <1>0, <1>1, <1>2
    <2>2. log[p] \in LogEntries
      BY <1>0, <2>1
    <2> QED
      BY <1>0, <2>1, <2>2 DEF LogEntries
  <1>5. c = Effective(ev) /\ c \in Applicable /\ WellFormed(c) /\ ModelAt(p).rows = RowsAfter(ModelAt(p - 1), c, p)
    BY <1>0, <1>4 DEF LogInv, LogProjected, Content
  <1>6. IsLedger(k) /\ k.history = ledger.history
    BY <1>2 DEF ObserveModel, IsLedger, LedgerFields
  <1>7. ledger' = [Apply(k, ev, a, p) EXCEPT !.last = p]
    BY <1>1, <1>2 DEF Frame, Ingest
  <1>8. IsLedger(Apply(k, ev, a, p))
    BY <1>3, <1>4, <1>5, <1>6, Applied
  <1> HIDE DEF ev, c, k, a
  <1>9. ledger'.last = p /\ ledger'.history = Apply(k, ev, a, p).history
    BY <1>7, <1>8 DEF IsLedger, LedgerFields
  <1>10. /\ Delivered' = (opened + 1)..p /\ Delivered = (opened + 1)..ledger.last
    BY <1>1, <1>9 DEF Delivered
  <1>11. Delivered # {} => ledger.last = p - 1
    BY <1>2, <1>3, <1>10 DEF Reached
  <1>12. Delivered' = Delivered \union {p} /\ Delivered \subseteq Nat /\ \A q \in Delivered : q < p
    <2>1. CASE ledger.last = 0
      BY <1>2, <1>3, <1>10, <2>1 DEF Reached
    <2>2. CASE ledger.last # 0
      BY <1>2, <1>3, <1>10, <2>2 DEF Reached
    <2> QED
      BY <2>1, <2>2
  <1> QED
    BY <1>1, <1>3, <1>4, <1>5, <1>6, <1>9, <1>11, <1>12 DEF ev, c, k, a

LEMMA EmptyHistory ==
    /\ IsHistory(<<>>) /\ DOMAIN <<>> = {} /\ Len(<<>>) = 0
    /\ \A n : DOMAIN n = {} /\ n \in [{} -> Nat] => KeptWhole(<<>>, n)
  <1>1. DOMAIN <<>> = {} /\ Len(<<>>) = 0 /\ <<>> \in Seq({})
    <2>1. Len(<<>>) = 0
      OBVIOUS
    <2>2. <<>> \in Seq({})
      OBVIOUS
    <2>3. DOMAIN <<>> = {}
      BY <2>1, <2>2
    <2> QED
      BY <2>1, <2>2, <2>3
  <1>2. ASSUME NEW S, <<>> \in Seq(S), \A e \in S : IsEntry(e) PROVE IsHistory(<<>>)
    BY <1>2, Zenon DEF IsHistory
  <1>3. IsHistory(<<>>)
    <2>1. \A e \in {} : IsEntry(e)
      OBVIOUS
    <2> QED
      BY <1>1, <1>2, <2>1, Zenon
  <1>4. ASSUME NEW n, DOMAIN n = {}, n \in [{} -> Nat] PROVE KeptWhole(<<>>, n)
    BY <1>1, <1>3, <1>4 DEF KeptWhole, Counts, Lost, InOrder
  <1> QED
    BY <1>1, <1>3, <1>4

LEMMA SnapshotHistory ==
    ASSUME NEW l, IsLedger(l), NEW ev, Effective(ev).type = "architecture.snapshot_published", NEW a, NEW p
    PROVE  Apply(l, ev, a, p).history = <<>>
  <1> DEFINE k == IF ev.type = "correction.issued" THEN Marked(l, ev.ref, "superseded") ELSE l
  <1>1. Apply(l, ev, a, p) = ApplyContent(k, Effective(ev), a, p)
    BY DEF Apply, Effective
  <1>2. IsLedger(k)
    BY MarkedShape
  <1> HIDE DEF k
  <1> QED
    BY <1>1, <1>2 DEF ApplyContent, IsLedger, LedgerFields

\* A frame keeps the history whole: a snapshot empties it, every other event adds its
\* entries and marks those it withdraws or corrects.
LEMMA FrameHistory ==
    ASSUME HistoryInv, LedgerInv', NEW p \in 1..MaxEvents, Frame(p)
    PROVE  HistoryInv'
  <1>0. LedgerInv /\ KeptWhole(ledger.history, Expected) /\ EntriesAgree /\ WritesListed /\ NewestDecides
    BY DEF HistoryInv
  <1>1. CASE ~(p > ledger.last)
    <2>1. p <= ledger.last
      <3>1. ledger.last \in Nat
        BY <1>0 DEF LedgerInv, ModelInStep, LogInv, LogTyped
      <3> QED
        BY <1>1, <3>1
    <2>2. ledger' = ledger /\ UNCHANGED <<log, opened>>
      BY <2>1 DEF Frame, Ingest
    <2>3. Delivered' = Delivered /\ ModelAt(ledger.last)' = ModelAt(ledger.last)
      BY <2>2 DEF Delivered, ModelAt
    <2> QED
      BY <2>2, <2>3, HistoryUndisturbed
  <1>2. CASE p > ledger.last
    <2> DEFINE ev == log[p].event
               c == Content(p)
               k == ObserveModel(ledger, cache, p)
               a == log[p].agent
               h == ledger.history
               g == ledger'.history
    <2>1. /\ p \in Nat /\ ev \in Reportable /\ c = Effective(ev) /\ c \in Applicable /\ WellFormed(c)
          /\ ModelAt(p).rows = RowsAfter(ModelAt(p - 1), c, p)
          /\ IsLedger(k) /\ k.history = h
          /\ ledger'.last = p /\ g = Apply(k, ev, a, p).history
          /\ Delivered' = Delivered \union {p} /\ Delivered \subseteq Nat /\ \A q \in Delivered : q < p
          /\ Delivered # {} => ledger.last = p - 1
          /\ log' = log
      BY <1>0, <1>2, NextEvent
    <2>2. \A q : Content(q)' = Content(q) /\ Reports(q)' = Reports(q)
      BY <2>1 DEF Content, Reports
    <2>3. ModelAt(ledger.last)' = ModelAt(p)
      BY <2>1 DEF ModelAt
    <2>4. SinceSnapshot \subseteq Delivered
      BY DEF SinceSnapshot
    <2>5. SinceSnapshot' = {q \in Delivered \union {p} : \A r \in Delivered \union {p} :
                               Content(r).type = "architecture.snapshot_published" => q > r}
      BY <2>1, <2>2 DEF SinceSnapshot
    <2>6. CASE c.type = "architecture.snapshot_published"
      <3>1. SinceSnapshot' = {}
        <4>1. \A q \in Delivered \union {p} : ~(q > p)
          BY <2>1
        <4> QED
          BY <2>5, <2>6, <4>1
      <3>2. g = <<>>
        BY <2>1, <2>6, SnapshotHistory
      <3>3. DOMAIN g = {} /\ Len(g) = 0 /\ IsHistory(g)
        <4> HIDE DEF g
        <4> QED
          BY <3>2, EmptyHistory
      <3>4. \A n : DOMAIN n = {} /\ n \in [{} -> Nat] => KeptWhole(g, n)
        <4> HIDE DEF g
        <4> QED
          BY <3>2, EmptyHistory
      <3>5. DOMAIN Expected' = {} /\ Expected' \in [{} -> Nat]
        BY <3>1 DEF Expected
      <3>6. KeptWhole(g, Expected')
        BY <3>4, <3>5
      <3>7. KeptWhole(ledger.history, Expected)'
        BY <3>6 DEF KeptWhole, Lost, Counts, InOrder, ListedAt, IsHistory, IsEntry, EntryFields
      <3>8. EntriesAgree' /\ WritesListed' /\ NewestDecides'
        BY <3>1, <3>3 DEF EntriesAgree, WritesListed, NewestDecides
      <3> QED
        BY <3>7, <3>8 DEF HistoryInv
    <2>7. CASE c.type # "architecture.snapshot_published"
      <3> DEFINE n == Extended(Expected, p)
      <3>1. SinceSnapshot' = SinceSnapshot \union {p} /\ p \notin SinceSnapshot /\ p \notin Delivered
        <4>1. \A r \in Delivered : p > r /\ r \in Nat
          BY <2>1
        <4> QED
          BY <2>4, <2>5, <2>7, <4>1 DEF SinceSnapshot
      <3>2. DOMAIN Expected = SinceSnapshot /\ \A q \in SinceSnapshot : Expected[q] = Reports(q)
        BY DEF Expected
      <3>3. /\ KeptWhole(h, n) /\ DOMAIN n = SinceSnapshot \union {p} /\ n[p] = 0
            /\ \A q \in SinceSnapshot : n[q] = Reports(q)
        <4>1. KeptWhole(h, n)
          BY <1>0, <2>1, <3>1, <3>2, ExtendKeepsWhole
        <4> QED
          BY <3>1, <3>2, <4>1 DEF Extended
      <3> HIDE DEF n, ev, k, a, c
      <3>4. p \in DOMAIN n /\ \A q \in DOMAIN n : q <= p
        <4>1. \A q \in SinceSnapshot : q \in Nat /\ q < p
          BY <2>1, <2>4
        <4>2. p \in Nat
          BY <2>1
        <4>3. \A q \in SinceSnapshot \union {p} : q <= p
          BY <4>1, <4>2
        <4> QED
          BY <3>3, <4>3
      <3>5. PICK E : /\ KeptWhole(Apply(k, ev, a, p).history, [n EXCEPT ![p] = Size(Effective(ev))])
                     /\ Carries(Apply(k, ev, a, p).history, k.history, ev, E)
                     /\ AllTold(E, Effective(ev), p)
        BY <2>1, <2>7, <3>3, <3>4, AppliedHistory
      <3>6. KeptWhole(g, [n EXCEPT ![p] = Size(c)]) /\ Carries(g, h, ev, E) /\ AllTold(E, c, p)
        BY <2>1, <3>5
      <3>7. Expected' = [n EXCEPT ![p] = Size(c)]
        <4>1. Expected' = [q \in SinceSnapshot \union {p} |-> Reports(q)]
          BY <2>2, <3>1 DEF Expected
        <4>2. Reports(p) = Size(c)
          BY DEF Reports, Size, c
        <4>3. n = [q \in SinceSnapshot \union {p} |-> IF q = p THEN 0 ELSE Reports(q)]
          BY <3>1, <3>2 DEF n, Extended
        <4> QED
          BY <3>1, <4>1, <4>2, <4>3
      <3>8. KeptWhole(ledger.history, Expected)'
        BY <3>6, <3>7 DEF KeptWhole, Lost, Counts, InOrder, ListedAt, IsHistory, IsEntry, EntryFields
      <3>9. \A i \in DOMAIN h : h[i].position \in SinceSnapshot
        BY <1>0, <3>2 DEF KeptWhole
      <3>10. /\ \A type : \A x \in Delivered : MarkedBy(x, type)' <=> MarkedBy(x, type) \/ (ev.type = type /\ ev.ref = x)
             /\ \A type : ~MarkedBy(p, type)'
        <4>0. Delivered' = Delivered \union {p} /\ log' = log /\ Delivered \subseteq Nat /\ p \in Nat
                /\ \A q \in Delivered : q < p
          BY <2>1
        <4>1. ASSUME NEW type, NEW x \in Delivered
              PROVE  MarkedBy(x, type)' <=> MarkedBy(x, type) \/ (log[p].event.type = type /\ log[p].event.ref = x)
          <5>1. p > x
            BY <4>0
          <5>2. MarkedBy(x, type)' <=> \E q \in Delivered \union {p} :
                                         q > x /\ log[q].event.type = type /\ log[q].event.ref = x
            BY <4>0 DEF MarkedBy
          <5> QED
            BY <5>1, <5>2 DEF MarkedBy
        <4>2. ASSUME NEW type PROVE ~MarkedBy(p, type)'
          <5>1. \A q \in Delivered \union {p} : ~(q > p)
            BY <4>0
          <5> QED
            BY <4>0, <5>1 DEF MarkedBy
        <4> QED
          BY <4>1, <4>2 DEF ev
      <3>11. ASSUME NEW y, NEW j \in DOMAIN h, Carried(y, h[j], ev) PROVE EntryAgrees(y)'
        <4>1. EntryAgrees(h[j]) /\ h[j].position \in Delivered
          BY <1>0, <2>4, <3>9 DEF EntriesAgree
        <4>2. y.position = h[j].position /\ Tells(y, Content(y.position))
          BY <3>11, <4>1 DEF EntryAgrees, Carried, Tells
        <4>3. y.retracted <=> MarkedBy(y.position, "retraction.issued")'
          BY <3>10, <3>11, <4>1, <4>2 DEF EntryAgrees, Carried
        <4>4. y.superseded <=> MarkedBy(y.position, "correction.issued")'
          BY <3>10, <3>11, <4>1, <4>2 DEF EntryAgrees, Carried
        <4>5. Tells(y, Content(y.position))'
          BY <2>2, <4>2 DEF Tells, WritesTo, TakesOut
        <4> QED
          BY <4>3, <4>4, <4>5 DEF EntryAgrees
      <3>17. ASSUME NEW y \in E PROVE EntryAgrees(y)'
        <4>1. y.position = p /\ y.retracted = FALSE /\ y.superseded = FALSE /\ Tells(y, Content(p))
          BY <3>6 DEF AllTold, c
        <4>2. Tells(y, Content(y.position))'
          BY <2>2, <4>1 DEF Tells, WritesTo, TakesOut
        <4>3. ~MarkedBy(p, "retraction.issued")' /\ ~MarkedBy(p, "correction.issued")'
          BY <3>10
        <4> QED
          BY <4>1, <4>2, <4>3 DEF EntryAgrees
      <3>18. \A i \in DOMAIN g : (\E j \in DOMAIN h : Carried(g[i], h[j], ev)) \/ g[i] \in E
        BY <3>6 DEF Carries
      <3>12. EntriesAgree'
        <4>1. \A y : (\E j \in DOMAIN h : Carried(y, h[j], ev)) \/ y \in E => EntryAgrees(y)'
          BY <3>11, <3>17
        <4> QED
          BY <3>18, <4>1 DEF EntriesAgree, EntryAgrees
      <3>13. ASSUME NEW q \in SinceSnapshot', ListedAt(g, q) # {}, NEW t, WritesTo(Content(q), t)
             PROVE  \E i \in ListedAt(g, q) : g[i].target = t /\ g[i].phase = "applied"
        <4>1. CASE q = p
          <5>1. PICK e \in E : e.target = t /\ e.phase = "applied"
            BY <3>6, <3>13, <4>1 DEF AllTold, c
          <5>2. PICK i \in DOMAIN g : g[i] = e
            BY <3>6, <3>13, <4>1, <5>1 DEF AllTold, Carries
          <5>3. e.position = p
            BY <3>6, <5>1 DEF AllTold
          <5> QED
            BY <4>1, <5>1, <5>2, <5>3 DEF ListedAt
        <4>2. CASE q # p
          <5>1. q \in SinceSnapshot
            BY <3>1, <4>2
          <5>2. PICK x \in DOMAIN g : g[x].position = q
            BY <3>13 DEF ListedAt
          <5>3. g[x] \notin E
            BY <3>6, <4>2, <5>2 DEF AllTold
          <5>4. PICK y \in DOMAIN h : Carried(g[x], h[y], ev)
            BY <3>6, <5>3 DEF Carries
          <5>5. ListedAt(h, q) # {}
            BY <5>2, <5>4 DEF Carried, ListedAt
          <5>6. PICK j \in ListedAt(h, q) : h[j].target = t /\ h[j].phase = "applied"
            BY <1>0, <3>13, <5>1, <5>5 DEF WritesListed
          <5>7. j \in DOMAIN h /\ h[j].position = q
            BY DEF ListedAt
          <5>8. PICK i \in DOMAIN g : Carried(g[i], h[j], ev)
            BY <3>6, <3>13, <5>7 DEF Carries
          <5> QED
            BY <5>6, <5>7, <5>8 DEF Carried, ListedAt
        <4> QED
          BY <4>1, <4>2
      <3>14. WritesListed'
        BY <2>2, <3>13 DEF WritesListed, ListedAt, WritesTo
      <3>15. ASSUME NEW q \in SinceSnapshot \union {p}, NEW t, WritesTo(Content(q), t),
                    \A r \in SinceSnapshot \union {p} : WritesTo(Content(r), t) => r <= q
             PROVE  TakesOut(Content(q), t) <=> t \notin DOMAIN ModelAt(p).rows
        <4>1. CASE WritesTo(c, t)
          <5>1. p <= q
            BY <3>15, <4>1 DEF c
          <5>2. q = p
            BY <2>1, <2>4, <5>1
          <5>3. TakesOut(c, t) <=> t \notin DOMAIN RowsAfter(ModelAt(p - 1), c, p)
            BY <2>1, <2>7, <4>1, RowsTell
          <5>4. TakesOut(c, t) <=> t \notin DOMAIN ModelAt(p).rows
            BY <2>1, <5>3
          <5> QED
            BY <5>2, <5>4 DEF c
        <4>2. CASE ~WritesTo(c, t)
          <5>1. q \in SinceSnapshot
            BY <3>15, <4>2 DEF c
          <5>2. ledger.last = p - 1
            BY <2>1, <2>4, <5>1
          <5>3. LastWrote(q, t)
            BY <3>15, <5>1 DEF LastWrote
          <5>4. TakesOut(Content(q), t) <=> t \notin DOMAIN ModelAt(p - 1).rows
            BY <1>0, <5>1, <5>2, <5>3 DEF NewestDecides
          <5>5. t \in DOMAIN ModelAt(p - 1).rows <=> t \in DOMAIN ModelAt(p).rows
            BY <2>1, <2>7, <4>2, RowsTell
          <5> QED
            BY <5>4, <5>5
        <4> QED
          BY <4>1, <4>2
      <3>16. NewestDecides'
        BY <2>2, <2>3, <3>1, <3>15 DEF NewestDecides, LastWrote, WritesTo, TakesOut
      <3> QED
        BY <3>8, <3>12, <3>14, <3>16 DEF HistoryInv
    <2> QED
      BY <2>6, <2>7
  <1> QED
    BY <1>1, <1>2

LEMMA HistoryInitial == Init => HistoryInv
  <1> SUFFICES ASSUME Init PROVE HistoryInv
    OBVIOUS
  <1>1. LedgerInv
    BY LedgerInitial
  <1>2. ledger.history = <<>> /\ Delivered = {}
    BY DEF Init, EmptyLedger, Delivered
  <1>3. SinceSnapshot = {} /\ Expected = [q \in {} |-> Reports(q)]
    BY <1>2 DEF SinceSnapshot, Expected
  <1>4. KeptWhole(ledger.history, Expected)
    <2>1. DOMAIN Expected = {} /\ Expected \in [{} -> Nat]
      BY <1>3
    <2> QED
      BY <1>2, <2>1, EmptyHistory
  <1>5. EntriesAgree /\ WritesListed /\ NewestDecides
    BY <1>2, <1>3, EmptyHistory DEF EntriesAgree, WritesListed, NewestDecides
  <1> QED
    BY <1>1, <1>4, <1>5 DEF HistoryInv

LEMMA HistoryKept == HistoryInv /\ [Next]_vars => HistoryInv'
  <1> SUFFICES ASSUME HistoryInv, [Next]_vars PROVE HistoryInv'
    OBVIOUS
  <1>1. LedgerInv'
    BY LedgerKept DEF HistoryInv
  <1>2. ASSUME NEW a \in Agents, NEW c \in Contents(Len(log)), Commit(a, c) PROVE HistoryInv'
    BY <1>1, <1>2, CommitHistory
  <1>3. CASE Open
    BY <1>1, <1>3, OpenHistory
  <1>4. CASE Read \/ UNCHANGED vars
    <2>1. UNCHANGED <<log, opened, ledger>>
      BY <1>4 DEF Read, vars
    <2>2. Delivered' = Delivered /\ ModelAt(ledger.last)' = ModelAt(ledger.last)
      BY <2>1 DEF Delivered, ModelAt
    <2> QED
      BY <1>1, <2>1, <2>2, HistoryUndisturbed
  <1>5. ASSUME NEW p \in 1..MaxEvents, Frame(p) PROVE HistoryInv'
    BY <1>1, <1>5, FrameHistory
  <1> QED
    BY <1>2, <1>3, <1>4, <1>5 DEF Next

LEMMA GreatestUpTo ==
    ASSUME NEW N \in Nat, NEW T \in SUBSET (0..N), T # {}
    PROVE  \E m \in T : \A x \in T : x <= m
  <1> DEFINE D == {N - x : x \in T}
  <1>1. D \in SUBSET Nat /\ D # {}
    <2>1. \A x \in T : N - x \in Nat
      OBVIOUS
    <2> QED
      BY <2>1
  <1>2. PICK d \in D : \A e \in D : d <= e
    BY <1>1, LeastNat
  <1>3. PICK m \in T : d = N - m
    BY <1>2
  <1>4. \A x \in T : N - m <= N - x
    BY <1>2, <1>3
  <1> QED
    BY <1>3, <1>4

\* What was delivered lies in the log.
LEMMA DeliveredInLog ==
    ASSUME LedgerInv
    PROVE  Len(log) \in Nat /\ Delivered \subseteq 1..Len(log) /\ SinceSnapshot \subseteq Delivered
  <1>1. ModelInStep /\ Len(log) \in Nat
    BY DEF LedgerInv, LogInv, LogTyped
  <1>2. CASE opened = None
    BY <1>1, <1>2 DEF Delivered, SinceSnapshot
  <1>3. CASE opened # None
    BY <1>1, <1>3 DEF ModelInStep, Delivered, SinceSnapshot
  <1> QED
    BY <1>1, <1>2, <1>3

\* The history holds the newest events that reported a change, each with all of its
\* entries, in order, withdrawn or replaced exactly when a retraction or a correction of
\* it was delivered; what is missing was lost to the cap, which cuts between events and
\* only when it has to (changeLedger.ts:353).
THEOREM HistoryStaysWhole == Spec => []HistoryIsWhole
  <1>1. ASSUME HistoryInv PROVE HistoryIsWhole
    <2> DEFINE h == ledger.history
               lost == {p \in SinceSnapshot : Reports(p) > 0} \ {p \in SinceSnapshot : Entries(p) # {}}
    <2>1. /\ KeptWhole(h, Expected) /\ EntriesAgree
          /\ DOMAIN Expected = SinceSnapshot /\ \A p \in SinceSnapshot : Expected[p] = Reports(p)
      BY <1>1 DEF HistoryInv, Expected
    <2>2. \A p : Entries(p) = ListedAt(h, p)
      BY DEF Entries, ListedAt
    <2>3. lost = Lost(h, Expected)
      BY <2>1, <2>2 DEF Lost
    <2> HIDE DEF lost
    <2>4. \A i \in DOMAIN h : h[i].position \in {p \in SinceSnapshot : Entries(p) # {}}
      BY <2>1, <2>2 DEF KeptWhole, ListedAt
    <2>5. InOrder(h)
      BY <2>1 DEF KeptWhole
    <2>6. ASSUME NEW p \in SinceSnapshot, Entries(p) # {} PROVE Cardinality(Entries(p)) = Reports(p)
      <3>1. PICK i \in Nat : ListedAt(h, p) = i..(i + Reports(p) - 1)
        BY <2>1, <2>2, <2>6 DEF KeptWhole
      <3>2. Reports(p) \in Nat
        BY <2>1 DEF KeptWhole, Counts
      <3>3. Cardinality(i..(i + Reports(p) - 1)) = Reports(p)
        <4>1. i \in Int /\ i + Reports(p) - 1 \in Int
          BY <3>2
        <4>2. ~(i > i + Reports(p) - 1)
          <5>1. i..(i + Reports(p) - 1) # {}
            BY <2>2, <2>6, <3>1
          <5> QED
            BY <3>2, <5>1
        <4>3. \A b \in Int : ~(i > b) => Cardinality(i..b) = b - i + 1
          BY <4>1, FS_Interval
        <4> QED
          BY <3>2, <4>2, <4>3
      <3> QED
        BY <2>2, <3>1, <3>3
    <2>7. \A p \in lost, q \in {r \in SinceSnapshot : Entries(r) # {}} : p < q
      BY <2>1, <2>2, <2>3 DEF KeptWhole, ListedAt
    <2>8. ASSUME lost # {}
          PROVE  Len(h) + Reports(CHOOSE p \in lost : \A q \in lost : q <= p) > HistoryLimit
      <3>1. LedgerInv /\ lost \subseteq SinceSnapshot
        BY <1>1, <2>1, <2>3 DEF HistoryInv, Lost
      <3>2. Len(log) \in Nat /\ lost \in SUBSET (0..Len(log))
        BY <3>1, DeliveredInLog
      <3>3. \E p \in lost : \A q \in lost : q <= p
        BY <2>8, <3>2, GreatestUpTo
      <3> DEFINE p == CHOOSE x \in lost : \A q \in lost : q <= x
      <3>4. p \in lost /\ \A q \in lost : q <= p
        BY <3>3
      <3> HIDE DEF p
      <3>5. Len(h) + Expected[p] > HistoryLimit
        BY <2>1, <2>3, <3>4 DEF KeptWhole
      <3>6. Expected[p] = Reports(p)
        BY <2>1, <3>1, <3>4
      <3> QED
        BY <3>5, <3>6 DEF p
    <2>9. \A i \in DOMAIN h :
             /\ h[i].retracted <=> MarkedBy(h[i].position, "retraction.issued")
             /\ h[i].superseded <=> MarkedBy(h[i].position, "correction.issued")
      BY <2>1 DEF EntriesAgree, EntryAgrees
    <2> QED
      BY <2>4, <2>5, <2>6, <2>7, <2>8, <2>9 DEF HistoryIsWhole, InOrder, lost
  <1> QED
    BY <1>1, HistoryInitial, HistoryKept, PTL DEF Spec

-----------------------------------------------------------------------------
(* The picture: what the newest statement about an element says of the model.    *)

\* A change is never newer than the model that holds it.
ChangesBounded(m, q) == \A x \in DOMAIN m.changes : m.changes[x].position <= q
RowsBounded == \A q \in 0..Len(log) : ChangesBounded(ModelAt(q), q)

PictureInv == HistoryInv /\ RowsBounded

LEMMA RowPositions ==
    ASSUME NEW m \in Models
    PROVE  m.changes \in [DOMAIN m.changes -> Rows] /\ \A x \in DOMAIN m.changes : m.changes[x].position \in Nat
  <1>1. m.changes \in Partial(Changes \union Nat, Rows)
    BY DEF Models
  <1>2. m.changes \in [DOMAIN m.changes -> Rows]
    BY <1>1, PartialHas
  <1>3. \A x \in DOMAIN m.changes : m.changes[x] \in Rows
    BY <1>2
  <1> QED
    BY <1>2, <1>3 DEF Rows

LEMMA ProjectBounded ==
    ASSUME NEW m \in Models, NEW c \in Applicable, NEW a, NEW q \in Nat, ChangesBounded(m, q)
    PROVE  ChangesBounded(Project(m, c, a, q + 1), q + 1)
  <1> DEFINE n == Project(m, c, a, q + 1)
  <1>0. m.changes \in [DOMAIN m.changes -> Rows] /\ \A x \in DOMAIN m.changes : m.changes[x].position \in Nat
    BY RowPositions
  <1>1. c.type \in {"model.mutation_applied", "change_planned", "change_applied",
                    "architecture.snapshot_published", "retraction.issued", "work.step_started",
                    "work.step_completed", "work.scope_reported", "agent.finished", "run.finished"}
    BY PlainParts DEF Applicable
  <1> SUFFICES ASSUME NEW x \in DOMAIN n.changes
               PROVE  \/ n.changes[x].position = q + 1
                      \/ x \in DOMAIN m.changes /\ n.changes[x].position = m.changes[x].position
    <2> SUFFICES ASSUME NEW x \in DOMAIN n.changes PROVE n.changes[x].position <= q + 1
      BY DEF ChangesBounded
    <2>1. CASE n.changes[x].position = q + 1
      BY <2>1
    <2>2. ASSUME x \in DOMAIN m.changes, n.changes[x].position = m.changes[x].position
          PROVE  n.changes[x].position <= q + 1
      <3>1. m.changes[x].position \in Nat /\ m.changes[x].position <= q
        BY <1>0, <2>2 DEF ChangesBounded
      <3>2. \A y \in Nat : y <= q => y <= q + 1
        OBVIOUS
      <3> QED
        BY <2>2, <3>1, <3>2
    <2> QED
      BY <2>1, <2>2
  <1>2. CASE c.type \in {"model.mutation_applied", "architecture.snapshot_published", "work.step_started",
                         "work.step_completed", "work.scope_reported", "agent.finished", "run.finished"}
    <2>1. n.changes = m.changes
      BY <1>2 DEF Project, WithRows, Models
    <2> QED
      BY <2>1
  <1>3. CASE c.type = "change_planned"
    <2>1. n.changes = RecordPlanned(m.changes, c, a, q + 1)
      BY <1>3 DEF Project, Models
    <2> QED
      BY <2>1 DEF RecordPlanned, With, Over
  <1>4. CASE c.type = "change_applied"
    <2>1. n.changes = RecordApplied(m.changes, c, a, q + 1)
      BY <1>4 DEF Project, WithRows, Models
    <2> QED
      BY <2>1 DEF RecordApplied, With, Over
  <1>5. CASE c.type = "retraction.issued"
    <2>1. n.changes = RecordRetracted(m.changes, c.ref, q + 1)
      BY <1>5 DEF Project, Models
    <2>2. \A k \in DOMAIN m.changes :
             LET r == [m.changes EXCEPT ![k].state = "retracted", ![k].position = q + 1]
             IN  /\ DOMAIN r = DOMAIN m.changes
                 /\ \A y \in DOMAIN r : r[y].position = IF y = k THEN q + 1 ELSE m.changes[y].position
      BY <1>0 DEF Rows
    <2>3. \/ n.changes = m.changes
          \/ \E k \in DOMAIN m.changes :
                n.changes = [m.changes EXCEPT ![k].state = "retracted", ![k].position = q + 1]
      BY <2>1 DEF RecordRetracted
    <2>4. CASE n.changes = m.changes
      BY <2>4
    <2>5. CASE n.changes # m.changes
      <3> PICK k \in DOMAIN m.changes :
              n.changes = [m.changes EXCEPT ![k].state = "retracted", ![k].position = q + 1]
        BY <2>3, <2>5
      <3> QED
        BY <2>2
    <2> QED
      BY <2>4, <2>5
  <1> QED
    BY <1>1, <1>2, <1>3, <1>4, <1>5

LEMMA PictureKept == PictureInv /\ [Next]_vars => PictureInv'
  <1> SUFFICES ASSUME PictureInv, [Next]_vars PROVE RowsBounded'
    BY HistoryKept DEF PictureInv
  <1>0. LogInv /\ log \in Seq(LogEntries) /\ Len(log) \in Nat
    BY DEF PictureInv, HistoryInv, LedgerInv, LogInv, LogTyped
  <1>1. ASSUME NEW a \in Agents, NEW c \in Contents(Len(log)), Commit(a, c) PROVE RowsBounded'
    <2> DEFINE e == Effective(c)
               m == ModelAt(Len(log))
               p == Len(log) + 1
               n == Project(m, e, a, p)
    <2>1. LogInv' /\ \A q \in 0..Len(log) : ModelAt(q)' = ModelAt(q)
      BY <1>0, <1>1, CommitKeeps
    <2>2. log' = Append(log, [event |-> c, agent |-> a, model |-> n])
      BY <1>1 DEF Commit
    <2> HIDE DEF n, e
    <2>3. Len(log') = p /\ log'[p] = [event |-> c, agent |-> a, model |-> n] /\ p \in DOMAIN log'
      BY <1>0, <2>2
    <2>4. e \in Applicable
      BY <2>1, <2>3 DEF LogInv, LogProjected, e
    <2>5. m \in Models /\ ChangesBounded(m, Len(log))
      BY <1>0, ModelTyped DEF LogInv, PictureInv, RowsBounded
    <2>6. ChangesBounded(n, p)
      BY <1>0, <2>4, <2>5, ProjectBounded DEF n
    <2>7. \A q : q = p => ModelAt(q)' = n
      BY <1>0, <2>3 DEF ModelAt
    <2>8. \A q \in 0..p : q = p \/ q \in 0..Len(log)
      BY <1>0
    <2>9. \A q \in 0..p : ChangesBounded(ModelAt(q)', q)
      BY <2>1, <2>6, <2>7, <2>8 DEF PictureInv, RowsBounded
    <2> QED
      BY <2>3, <2>9 DEF RowsBounded, ChangesBounded
  <1>2. CASE log' = log
    BY <1>2 DEF PictureInv, RowsBounded, ChangesBounded, ModelAt
  <1> QED
    BY <1>1, <1>2 DEF Next, Open, Read, Frame, vars

LEMMA PictureInitial == Init => PictureInv
  <1> SUFFICES ASSUME Init PROVE RowsBounded
    BY HistoryInitial DEF PictureInv
  <1>1. Len(log) = 0
    BY DEF Init
  <1>2. DOMAIN EmptyModel.changes = {}
    BY DEF EmptyModel
  <1> QED
    BY <1>1, <1>2 DEF RowsBounded, ChangesBounded, ModelAt

-----------------------------------------------------------------------------
(* The newest statement exists, and an applied one is the last that was made.    *)

Statements(t) == Proposals(t) \union AppliedChanges(t)
IsNewest(x, S) ==
    \A y \in S : \/ x.position > y.position
                 \/ x.position = y.position /\ (x.source = "applied_change" \/ y.source = "planned_change")

\* What an applied statement comes from.
LEMMA AppliedFrom ==
    ASSUME HistoryInv, NEW t, NEW x \in AppliedChanges(t)
    PROVE  /\ x.source = "applied_change"
           /\ \E i \in Recent(ledger) :
                 /\ ledger.history[i].target = t
                 /\ x.operation = ledger.history[i].operation
                 /\ x.position = ledger.history[i].position
  BY DEF AppliedChanges

LEMMA RecentListed ==
    ASSUME HistoryInv, NEW i \in Recent(ledger)
    PROVE  LET e == ledger.history[i]
           IN  /\ i \in DOMAIN ledger.history /\ e.phase = "applied" /\ ~e.retracted /\ ~e.superseded
               /\ e.position \in SinceSnapshot /\ Tells(e, Content(e.position))
  <1>1. /\ i \in DOMAIN ledger.history /\ ledger.history[i].phase = "applied"
        /\ ~ledger.history[i].retracted /\ ~ledger.history[i].superseded
    BY DEF Recent, Standing
  <1> QED
    BY <1>1 DEF HistoryInv, KeptWhole, Expected, EntriesAgree, EntryAgrees

LEMMA StatementsBounded ==
    ASSUME PictureInv, cache \in 0..Len(log), NEW t, NEW x \in Statements(t)
    PROVE  /\ x.position \in 0..Len(log)
           /\ x.source = "applied_change" \/ x.source = "planned_change"
  <1>1. CASE x \in Proposals(t)
    <2>1. PICK c \in DOMAIN Model.changes : x.position = Model.changes[c].position /\ x.source = "planned_change"
      BY <1>1 DEF Proposals
    <2>2. Model \in Models /\ ChangesBounded(Model, cache) /\ Len(log) \in Nat
      BY ModelTyped DEF PictureInv, RowsBounded, HistoryInv, LedgerInv, LogInv, LogTyped, Model
    <2>3. Model.changes[c].position \in Nat /\ Model.changes[c].position <= cache
      BY <2>2, RowPositions DEF ChangesBounded
    <2>4. \A y \in Nat : y <= cache => y \in 0..Len(log)
      BY <2>2
    <2> QED
      BY <2>1, <2>3, <2>4
  <1>2. CASE x \in AppliedChanges(t)
    <2>1. HistoryInv /\ LedgerInv
      BY DEF PictureInv, HistoryInv
    <2>2. PICK i \in Recent(ledger) : x.position = ledger.history[i].position /\ x.source = "applied_change"
      BY <1>2, <2>1, AppliedFrom
    <2>3. x.position \in SinceSnapshot
      BY <2>1, <2>2, RecentListed
    <2> QED
      BY <2>1, <2>2, <2>3, DeliveredInLog
  <1> QED
    BY <1>1, <1>2 DEF Statements

LEMMA NewestExists ==
    ASSUME PictureInv, cache \in 0..Len(log), NEW t, Statements(t) # {}
    PROVE  \E x \in Statements(t) : IsNewest(x, Statements(t))
  <1> DEFINE S == Statements(t)
             T == {x.position : x \in S}
  <1>1. Len(log) \in Nat
    BY DEF PictureInv, HistoryInv, LedgerInv, LogInv, LogTyped
  <1>2. \A x \in S : /\ x.position \in 0..Len(log)
                     /\ x.source = "applied_change" \/ x.source = "planned_change"
    BY StatementsBounded
  <1> HIDE DEF S
  <1>3. T \in SUBSET (0..Len(log)) /\ T # {}
    BY <1>2 DEF S
  <1>4. PICK m \in T : \A n \in T : n <= m
    BY <1>1, <1>3, GreatestUpTo
  <1>5. \A x, y \in S : x.position = m => x.position > y.position \/ x.position = y.position
    <2> SUFFICES ASSUME NEW x \in S, NEW y \in S, x.position = m
                 PROVE  x.position > y.position \/ x.position = y.position
      OBVIOUS
    <2>1. y.position <= m
      BY <1>4
    <2>2. y.position \in Nat /\ m \in Nat
      BY <1>1, <1>2, <1>3
    <2> QED
      BY <2>1, <2>2
  <1>6. CASE \E x \in S : x.position = m /\ x.source = "applied_change"
    <2> PICK x \in S : x.position = m /\ x.source = "applied_change"
      BY <1>6
    <2>1. IsNewest(x, S)
      BY <1>5 DEF IsNewest
    <2> QED
      BY <2>1 DEF S
  <1>7. CASE ~\E x \in S : x.position = m /\ x.source = "applied_change"
    <2> PICK x \in S : x.position = m
      OBVIOUS
    <2>1. \A y \in S : y.position = x.position => y.source = "planned_change"
      BY <1>2, <1>7
    <2>2. IsNewest(x, S)
      BY <1>5, <2>1 DEF IsNewest
    <2> QED
      BY <2>2 DEF S
  <1> QED
    BY <1>6, <1>7

LEMMA LatestIsNewest ==
    ASSUME PictureInv, cache \in 0..Len(log), NEW t, Statements(t) # {}
    PROVE  LatestChange(t) \in Statements(t) /\ IsNewest(LatestChange(t), Statements(t))
  <1>1. LatestChange(t) = CHOOSE x \in Statements(t) : IsNewest(x, Statements(t))
    BY DEF LatestChange, Statements, IsNewest
  <1>2. \E x \in Statements(t) : IsNewest(x, Statements(t))
    BY NewestExists
  <1> QED
    BY <1>1, <1>2

LEMMA FiniteUpTo ==
    ASSUME NEW n \in Nat, NEW A, NEW B, A \subseteq B, B \subseteq 0..n
    PROVE  Cardinality(A) \in Nat /\ Cardinality(B) \in Nat /\ Cardinality(A) <= Cardinality(B)
  <1>1. IsFiniteSet(0..n)
    BY FS_Interval
  <1>2. IsFiniteSet(B)
    BY <1>1, FS_Subset
  <1>3. IsFiniteSet(A) /\ Cardinality(A) <= Cardinality(B)
    BY <1>2, FS_Subset
  <1> QED
    BY <1>2, <1>3, FS_CardinalityType

\* The entries that stand, and those of the newest events.
NewerThan(p) ==
    {ledger.history[j].position :
        j \in {k \in {i \in Standing(ledger) : ledger.history[i].phase = "applied"} :
                  ledger.history[k].position > p}}

LEMMA NewerIsRecent ==
    ASSUME HistoryInv, NEW i \in Recent(ledger), NEW j \in DOMAIN ledger.history,
           ~ledger.history[j].retracted, ~ledger.history[j].superseded,
           ledger.history[j].phase = "applied", ledger.history[j].position > ledger.history[i].position
    PROVE  j \in Recent(ledger)
  <1> DEFINE h == ledger.history
  <1>1. /\ Len(log) \in Nat /\ i \in DOMAIN h
        /\ \A k \in DOMAIN h : h[k].position \in 0..Len(log)
    <2>1. LedgerInv /\ \A k \in DOMAIN h : h[k].position \in SinceSnapshot
      BY DEF HistoryInv, KeptWhole, Expected
    <2> QED
      BY <2>1, DeliveredInLog, RecentListed
  <1>2. j \in {k \in Standing(ledger) : h[k].phase = "applied"}
    BY DEF Standing
  <1>3. Cardinality(NewerThan(h[i].position)) < RecentLimit
    BY DEF Recent, NewerThan
  <1>4. NewerThan(h[j].position) \subseteq NewerThan(h[i].position)
    <2>1. \A k \in DOMAIN h : h[k].position > h[j].position => h[k].position > h[i].position
      BY <1>1
    <2> QED
      BY <2>1 DEF NewerThan, Standing
  <1>5. NewerThan(h[i].position) \subseteq 0..Len(log)
    BY <1>1 DEF NewerThan, Standing
  <1>6. Cardinality(NewerThan(h[j].position)) < RecentLimit
    <2>1. /\ Cardinality(NewerThan(h[j].position)) \in Nat /\ Cardinality(NewerThan(h[i].position)) \in Nat
          /\ Cardinality(NewerThan(h[j].position)) <= Cardinality(NewerThan(h[i].position))
      BY <1>1, <1>4, <1>5, FiniteUpTo
    <2> QED
      BY <1>3, <2>1, LedgerAssumption
  <1> QED
    BY <1>2, <1>6 DEF Recent, NewerThan

\* An applied statement that is the newest comes from the last event that wrote the
\* element, unless that event was withdrawn.
LEMMA NewestAppliedWroteLast ==
    ASSUME PictureInv, Settled, NEW t, ~Undone(t), NEW i \in Recent(ledger), ledger.history[i].target = t,
           \A y \in AppliedChanges(t) : y.position <= ledger.history[i].position
    PROVE  LastWrote(ledger.history[i].position, t)
  <1> DEFINE h == ledger.history
             P == h[i].position
             W == {q \in SinceSnapshot : WritesTo(Content(q), t)}
  <1>1. HistoryInv /\ LedgerInv
    BY DEF PictureInv, HistoryInv
  <1>2. Len(log) \in Nat /\ SinceSnapshot \subseteq 0..Len(log)
    BY <1>1, DeliveredInLog
  <1>3. /\ i \in DOMAIN h /\ P \in SinceSnapshot /\ h[i].phase = "applied"
        /\ WritesTo(Content(P), t)
    BY <1>1, RecentListed DEF Tells
  <1>4. P \in W /\ W \in SUBSET (0..Len(log)) /\ W # {}
    BY <1>2, <1>3
  <1>5. PICK q \in W : \A r \in W : r <= q
    BY <1>2, <1>4, GreatestUpTo
  <1>6. q \in Nat /\ P \in Nat /\ P <= q
    BY <1>2, <1>4, <1>5
  <1>7. ~Withdrawn(q)
    <2>1. \A x : WroteTo(x, t) <=> WritesTo(Content(x), t)
      BY DEF WroteTo, WritesTo
    <2> QED
      BY <1>5, <2>1 DEF Undone
  <1> HIDE DEF P
  <1>8. ASSUME P # q PROVE FALSE
    <2>1. P < q
      BY <1>6, <1>8
    <2>2. Reports(q) > 0
      <3>1. CASE Content(q).type = "model.mutation_applied"
        <4>1. Effective(log[q].event) \in Applicable
          <5>1. q \in DOMAIN log
            <6>1. q \in 1..Len(log)
              BY <1>1, DeliveredInLog
            <6> QED
              BY <1>1, <6>1 DEF LedgerInv, LogInv, LogTyped
          <5> QED
            BY <1>1, <5>1 DEF LedgerInv, LogInv, LogProjected
        <4>2. Content(q) \in Plain
          BY <3>1, <4>1 DEF Content, Applicable
        <4> QED
          BY <3>1, <4>2, MutationParts DEF Reports
      <3>2. CASE Content(q).type # "model.mutation_applied"
        BY <3>2 DEF Reports, WritesTo
      <3> QED
        BY <3>1, <3>2
    <2>3. ListedAt(h, q) # {}
      <3>1. SUFFICES ASSUME ListedAt(h, q) = {} PROVE FALSE
        OBVIOUS
      <3>2. q \in Lost(h, Expected)
        BY <2>2, <3>1 DEF Lost, Expected
      <3>3. q < P
        BY <1>1, <1>3, <3>2 DEF HistoryInv, KeptWhole, P
      <3> QED
        BY <1>6, <2>1, <3>3
    <2>4. PICK j \in ListedAt(h, q) : h[j].target = t /\ h[j].phase = "applied"
      BY <1>1, <2>3 DEF HistoryInv, WritesListed
    <2>5. j \in DOMAIN h /\ h[j].position = q
      BY DEF ListedAt
    <2>6. ~h[j].retracted /\ ~h[j].superseded
      BY <1>1, <1>7, <2>5 DEF HistoryInv, EntriesAgree, EntryAgrees, Withdrawn
    <2>7. h[j].position > h[i].position
      BY <1>6, <2>1, <2>5 DEF P
    <2>8. j \in Recent(ledger)
      BY <1>1, <2>4, <2>5, <2>6, <2>7, NewerIsRecent
    <2>9. ~(h[j].position > cache)
      <3>1. q <= Len(log) /\ cache = Len(log)
        BY <1>2 DEF Settled
      <3> QED
        BY <1>2, <1>6, <2>5, <3>1
    <2>10. \E y \in AppliedChanges(t) : y.position = q
      <3> DEFINE e == h[j]
                 y == [source |-> "applied_change", agent |-> e.agent, operation |-> e.operation,
                       position |-> e.position, descriptor |-> e.snapshot, direct |-> e.direct]
      <3>1. e \in {one \in {h[k] : k \in Recent(ledger)} : one.target = t /\ ~(one.direct /\ one.position > cache)}
        BY <2>4, <2>8, <2>9
      <3>2. y.position = q
        BY <2>5
      <3>3. y \in AppliedChanges(t)
        <4> HIDE DEF e
        <4> QED
          BY <3>1 DEF AppliedChanges
      <3> HIDE DEF y
      <3> QED
        BY <3>2, <3>3
    <2>11. q <= P
      BY <2>10 DEF P
    <2> QED
      BY <1>6, <2>1, <2>11
  <1>9. \A r \in SinceSnapshot : WritesTo(Content(r), t) => r <= P
    BY <1>5, <1>8
  <1> QED
    BY <1>3, <1>9 DEF LastWrote, P

\* The newest statement, when it was applied, says whether the element is there.
LEMMA NewestAppliedIsTrue ==
    ASSUME PictureInv, Settled, NEW t, ~Undone(t), Statements(t) # {},
           LatestChange(t) \in AppliedChanges(t)
    PROVE  LatestChange(t).operation = "remove" <=> t \notin DOMAIN Model.rows
  <1> DEFINE x == LatestChange(t)
             h == ledger.history
  <1>1. HistoryInv /\ LedgerInv /\ Len(log) \in Nat
    BY DEF PictureInv, HistoryInv, LedgerInv, LogInv, LogTyped
  <1>2. cache \in 0..Len(log) /\ cache = Len(log) /\ ledger.last = Len(log)
    BY <1>1 DEF Settled
  <1>3. IsNewest(x, Statements(t))
    BY <1>2, LatestIsNewest
  <1>4. PICK i \in Recent(ledger) : /\ h[i].target = t
                                   /\ x.operation = h[i].operation /\ x.position = h[i].position
    BY <1>1, AppliedFrom
  <1> HIDE DEF x
  <1>5. ASSUME NEW y \in AppliedChanges(t) PROVE y.position <= h[i].position
    <2>1. y \in Statements(t) /\ x \in Statements(t)
      BY <1>2, LatestIsNewest DEF Statements, x
    <2>2. y.position \in Nat /\ x.position \in Nat
      BY <1>1, <1>2, <2>1, StatementsBounded
    <2>3. x.position > y.position \/ x.position = y.position
      BY <1>3, <2>1 DEF IsNewest
    <2> QED
      BY <1>4, <2>2, <2>3
  <1>6. LastWrote(h[i].position, t)
    BY <1>4, <1>5, NewestAppliedWroteLast
  <1>7. /\ h[i].position \in SinceSnapshot /\ h[i].phase = "applied"
        /\ Tells(h[i], Content(h[i].position))
    BY <1>1, RecentListed
  <1>8. h[i].operation = "remove" <=> TakesOut(Content(h[i].position), t)
    BY <1>4, <1>7 DEF Tells
  <1>9. TakesOut(Content(h[i].position), t) <=> t \notin DOMAIN ModelAt(ledger.last).rows
    BY <1>1, <1>6, <1>7 DEF HistoryInv, NewestDecides
  <1>10. ModelAt(ledger.last) = Model
    BY <1>2 DEF Model
  <1> QED
    BY <1>4, <1>8, <1>9, <1>10 DEF x

LEMMA RemovalShows ==
    ASSUME NEW active, NEW change, change # None, change.source = "applied_change", change.operation = "remove"
    PROVE  ResolveWorkState(active, change) = "removed"
  BY DEF ResolveWorkState

\* A settled picture shows an element as removed only when it is gone, and draws what is
\* not in the model only for a pending proposal or a removal, for every element whose
\* last change was not withdrawn (changeOverlays.ts:408).
THEOREM SettledPicturesAgree == Spec => []SettledPictureAgrees
  <1>1. ASSUME PictureInv PROVE SettledPictureAgrees
    <2> SUFFICES ASSUME Settled, NEW t \in Targets, Overlay(t) # None, ~Undone(t)
                 PROVE  /\ Overlay(t).state = "removed" => t \notin DOMAIN Model.rows
                        /\ Overlay(t).presence = "proposal" => Proposals(t) # {}
      BY DEF SettledPictureAgrees
    <2> DEFINE change == LatestChange(t)
               active == RunningSteps(t) \union RunningScopes(t) # {}
               state == ResolveWorkState(active, change)
               present == t \in DOMAIN Model.rows
    <2>1. /\ state # None
          /\ ~present => change # None /\ (change.direct => change.operation = "remove")
          /\ Overlay(t).state = state
          /\ Overlay(t).presence = IF present THEN "applied" ELSE IF state = "removed" THEN "ghost" ELSE "proposal"
      BY DEF Overlay
    <2>2. state = "removed" => change # None /\ change.source = "applied_change" /\ change.operation = "remove"
      <3>1. ~(change # None /\ change.source = "applied_change" /\ change.operation = "remove")
               => state \in {"active", "planned", "recently_applied", None}
        BY DEF ResolveWorkState
      <3> HIDE DEF state
      <3> QED
        BY <2>1, <3>1
    <2>3. change # None /\ change.source = "applied_change" /\ change.operation = "remove" => state = "removed"
      BY RemovalShows
    <2> HIDE DEF state
    <2>4. change # None => Statements(t) # {}
      BY DEF LatestChange, Statements
    <2>5. cache \in 0..Len(log)
      BY <1>1 DEF Settled, PictureInv, HistoryInv, LedgerInv, LogInv, LogTyped
    <2>6. change # None => change \in Proposals(t) \/ change \in AppliedChanges(t)
      BY <1>1, <2>4, <2>5, LatestIsNewest DEF Statements
    <2>7. \A x \in Proposals(t) : x.source = "planned_change"
      BY DEF Proposals
    <2>8. \A x \in AppliedChanges(t) : x.source = "applied_change"
      BY DEF AppliedChanges
    <2>9. change # None /\ change \in AppliedChanges(t) => (change.operation = "remove" <=> ~present)
      BY <1>1, <2>4, NewestAppliedIsTrue
    <2> HIDE DEF change, present
    <2>10. Overlay(t).state = "removed" => ~present
      BY <2>1, <2>2, <2>6, <2>7, <2>9
    <2>11. ASSUME Overlay(t).presence = "proposal", Proposals(t) = {} PROVE FALSE
      <3>1. ~present /\ state # "removed"
        BY <2>1, <2>11
      <3>2. change # None /\ change \in AppliedChanges(t)
        BY <2>1, <2>6, <2>11, <3>1
      <3> QED
        BY <2>3, <2>8, <2>9, <3>1, <3>2
    <2> QED
      BY <2>10, <2>11 DEF present
  <1> QED
    BY <1>1, PictureInitial, PictureKept, PTL DEF Spec

=============================================================================
