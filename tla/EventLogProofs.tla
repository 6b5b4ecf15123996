---------------------------- MODULE EventLogProofs ----------------------------
(* The append transaction of any number of writers: its invariant, and that it      *)
(* appends as AtomicAppend does.  The induction rests on LockInv: what the holder    *)
(* of the project row has read and decided is still true when it commits.            *)
EXTENDS EventLog, SequenceTheorems, TLAPS

-----------------------------------------------------------------------------
(* Types.                                                                           *)

\* The two shapes in which the log and the row are left.
LEMMA FinishTyped ==
    ASSUME TypeOK, NEW w \in Writers, NEW s \in Statuses, NEW p \in Nat, Finish(w, s, p)
    PROVE  /\ pc' \in [Writers -> PcStates]
           /\ holder' \in {NoWriter} \union Writers
           /\ lastRead' \in [Writers -> Nat]
           /\ outcome' \in [Writers -> [status : Statuses, position : Nat]]
  BY DEF Finish, TypeOK, PcStates, Released, Answer

LEMMA StoredAppends ==
    ASSUME TypeOK, PositionsInv, LockInv, NEW w \in Writers, pc[w] = "commit", Store(w)
    PROVE  /\ lastRead[w] = Len(log)
           /\ log' = Append(log, cmd[w])
           /\ log' \in Seq(Commands)
           /\ Len(log') = Len(log) + 1
           /\ project' = Len(log')
           /\ \A p \in 1..Len(log) : log'[p] = log[p]
           /\ log'[Len(log) + 1] = cmd[w]
<1>1. lastRead[w] = Len(log)
  BY DEF LockInv, PositionsInv
<1>2. log \in Seq(Commands) /\ cmd[w] \in Commands
  BY DEF TypeOK
<1>3. Len(log) \in Nat /\ DOMAIN log = 1..Len(log)
  BY <1>2, LenProperties
<1> DEFINE longer == Append(log, cmd[w])
<1>4. /\ longer \in Seq(Commands)
      /\ Len(longer) = Len(log) + 1
      /\ \A p \in 1..Len(log) : longer[p] = log[p]
      /\ longer[Len(log) + 1] = cmd[w]
  BY <1>2, AppendProperties
<1>5. DOMAIN longer = 1..(Len(log) + 1) /\ longer = [p \in DOMAIN longer |-> longer[p]]
  BY <1>4, LenProperties
<1> HIDE DEF longer
<1>6. DOMAIN log \union {Len(log) + 1} = 1..(Len(log) + 1)
  BY <1>3
<1>7. log' = [p \in 1..(Len(log) + 1) |-> IF p = Len(log) + 1 THEN cmd[w] ELSE log[p]]
  BY <1>1, <1>6 DEF Store
<1>8. \A p \in 1..(Len(log) + 1) : log'[p] = longer[p]
  BY <1>3, <1>4, <1>7
<1>9. log' = longer
  BY <1>5, <1>7, <1>8
<1>10. project' = Len(log) + 1
  BY <1>1 DEF Store
<1> QED  BY <1>1, <1>4, <1>9, <1>10 DEF longer

-----------------------------------------------------------------------------
(* The steps that leave the tables alone.                                           *)

LEMMA SubmitKeeps == ASSUME LogInv, NEW w \in Writers, Submit(w) PROVE LogInv'
<1> USE DEF LogInv
<1>1. TypeOK'
  BY DEF Submit, TypeOK, PcStates, Answer, Statuses, tables
<1>2. PositionsInv'
  BY DEF Submit, PositionsInv, LastPosition, tables
<1>3. LockInv'
  BY DEF Submit, TypeOK, LockInv, LastPosition, Admissible, tables
<1>4. PublishInv'
  BY DEF Submit, TypeOK, PublishInv, tables
<1>5. AcknowledgedIsStored'
  BY DEF Submit, TypeOK, AcknowledgedIsStored, Answer, tables
<1>6. RunIsOrdered'
  BY DEF Submit, RunIsOrdered, tables
<1> QED  BY <1>1, <1>2, <1>3, <1>4, <1>5, <1>6

LEMMA LockKeeps == ASSUME LogInv, NEW w \in Writers, LockProject(w) PROVE LogInv'
<1> USE DEF LogInv
<1>1. TypeOK'
  BY LogAssumption DEF LockProject, TypeOK, PcStates, tables
<1>2. PositionsInv'
  BY DEF LockProject, PositionsInv, LastPosition, tables
<1>3. LockInv'
  BY LogAssumption DEF LockProject, TypeOK, LockInv, LastPosition, RowFree, Admissible, tables
<1>4. PublishInv'
  BY DEF LockProject, TypeOK, PublishInv, tables
<1>5. AcknowledgedIsStored'
  BY DEF LockProject, AcknowledgedIsStored, tables
<1>6. RunIsOrdered'
  BY DEF LockProject, RunIsOrdered, tables
<1> QED  BY <1>1, <1>2, <1>3, <1>4, <1>5, <1>6

\* Every way of answering without a commit of one's own in the same step.
LEMMA FinishKeeps ==
    ASSUME LogInv, NEW w \in Writers, NEW s \in Statuses, NEW p \in Nat,
           Finish(w, s, p), UNCHANGED <<tables, cmd, unannounced>>, faults' \in 0..MaxFaults,
           s \in {"created", "duplicate", "conflict"} => p \in 1..Len(log) /\ log[p].key = cmd[w].key,
           s \in {"created", "duplicate"} =>
               /\ <<log[p].type, log[p].payload>> = <<cmd[w].type, cmd[w].payload>>
               /\ cmd[w].version = "2.0" => log[p] = cmd[w],
           s = "conflict" => log[p] # cmd[w]
    PROVE  LogInv'
<1> USE DEF LogInv
<1>1. TypeOK'
  BY FinishTyped DEF TypeOK, tables
<1>2. PositionsInv'
  BY DEF PositionsInv, LastPosition, tables
<1>3. LockInv'
  BY LogAssumption DEF Finish, Released, TypeOK, LockInv, LastPosition, Admissible, tables
<1>4. PublishInv'
  BY DEF Finish, TypeOK, PublishInv, tables
<1>5. AcknowledgedIsStored'
  <2>1. outcome' = [outcome EXCEPT ![w] = [status |-> s, position |-> p]] /\ log' = log /\ cmd' = cmd
    BY DEF Finish, Answer, tables
  <2>2. outcome'[w].status = s /\ outcome'[w].position = p
    BY <2>1 DEF TypeOK
  <2>3. \A v \in Writers : v # w => outcome'[v] = outcome[v]
    BY <2>1 DEF TypeOK
  <2> QED  BY <2>1, <2>2, <2>3 DEF AcknowledgedIsStored
<1>6. RunIsOrdered'
  BY DEF RunIsOrdered, tables
<1> QED  BY <1>1, <1>2, <1>3, <1>4, <1>5, <1>6

LEMMA CheckKeeps == ASSUME LogInv, NEW w \in Writers, Check(w) PROVE LogInv'
<1>1. UNCHANGED <<tables, cmd, unannounced>> /\ faults' = faults /\ faults' \in 0..MaxFaults
  BY DEF Check, LogInv, TypeOK
<1>2. ASSUME NEW p \in Stored(w),
             IF Repeats(cmd[w], log[p]) THEN Retried(w, p) ELSE Finish(w, "conflict", p)
      PROVE  LogInv'
  <2>1. p \in 1..Len(log) /\ p \in Nat /\ log[p].key = cmd[w].key
    BY <1>2 DEF Stored
  <2>2. log[p] \in Commands /\ cmd[w] \in Commands
    BY <2>1, ElementOfSeq DEF LogInv, TypeOK
  <2>3. CASE Repeats(cmd[w], log[p])
    <3>1. /\ log[p].type = cmd[w].type /\ log[p].payload = cmd[w].payload
          /\ log[p].version = cmd[w].version
          /\ cmd[w].version = "2.0" => log[p].origin = cmd[w].origin
      BY <2>3 DEF Repeats
    <3>2. cmd[w].version = "2.0" => log[p] = cmd[w]
      BY <2>1, <2>2, <3>1, LogAssumption
    <3> QED  BY <1>1, <1>2, <2>1, <2>3, <3>1, <3>2, FinishKeeps DEF Retried, Statuses
  <2>4. CASE ~Repeats(cmd[w], log[p])
    <3>1. log[p] # cmd[w]
      BY <2>4 DEF Repeats
    <3> QED  BY <1>1, <1>2, <2>1, <2>4, <3>1, FinishKeeps DEF Statuses
  <2> QED  BY <2>3, <2>4
<1>3. CASE Finish(w, "rejected", 0)
  BY <1>1, <1>3, FinishKeeps DEF Statuses
<1>4. CASE /\ pc[w] = "check" /\ Stored(w) = {} /\ Admissible(log, cmd[w])
           /\ pc' = [pc EXCEPT ![w] = "commit"] /\ UNCHANGED <<holder, lastRead, outcome>>
  <2> USE DEF LogInv
  <2>1. TypeOK'
    BY <1>1, <1>4 DEF TypeOK, PcStates, tables
  <2>2. PositionsInv'
    BY <1>1 DEF PositionsInv, LastPosition, tables
  <2>3. LockInv'
    <3>1. \A p \in 1..Len(log) : log[p].key # cmd[w].key
      BY <1>4 DEF Stored
    <3> QED  BY <1>1, <1>4, <3>1 DEF TypeOK, LockInv, LastPosition, Admissible, tables
  <2>4. PublishInv'
    BY <1>1, <1>4 DEF TypeOK, PublishInv, tables
  <2>5. AcknowledgedIsStored'
    BY <1>1, <1>4 DEF AcknowledgedIsStored, tables
  <2>6. RunIsOrdered'
    BY <1>1 DEF RunIsOrdered, tables
  <2> QED  BY <2>1, <2>2, <2>3, <2>4, <2>5, <2>6
<1> QED  BY <1>2, <1>3, <1>4 DEF Check

LEMMA CrashKeeps == ASSUME LogInv, Crash PROVE LogInv'
<1> USE DEF LogInv
<1>1. TypeOK'
  BY LogAssumption DEF Crash, TypeOK, PcStates, Answer, Statuses, tables
<1>2. PositionsInv'
  BY DEF Crash, PositionsInv, LastPosition, tables
<1>3. LockInv'
  BY LogAssumption DEF Crash, LockInv, tables
<1>4. PublishInv'
  BY DEF Crash, PublishInv, tables
<1>5. AcknowledgedIsStored'
  BY DEF Crash, AcknowledgedIsStored, Answer, tables
<1>6. RunIsOrdered'
  BY DEF Crash, RunIsOrdered, tables
<1> QED  BY <1>1, <1>2, <1>3, <1>4, <1>5, <1>6

-----------------------------------------------------------------------------
(* The steps that commit.                                                           *)

\* What both of them make of the log, and of those who do not hold the row.
LEMMA StoreKeeps ==
    ASSUME LogInv, NEW w \in Writers, pc[w] = "commit", Store(w), UNCHANGED cmd
    PROVE  /\ PositionsInv' /\ RunIsOrdered'
           /\ holder = w /\ project' \in Nat \ {0} /\ log' \in Seq(Commands)
           /\ \A v \in Writers \ {w} : pc[v] \notin {"check", "commit"}
<1> USE DEF LogInv
<1>1. /\ log' \in Seq(Commands) /\ Len(log) \in Nat
      /\ Len(log') = Len(log) + 1
      /\ project' = Len(log')
      /\ \A p \in 1..Len(log) : log'[p] = log[p]
      /\ log'[Len(log) + 1] = cmd[w]
  BY StoredAppends, LenProperties DEF TypeOK
<1>2. /\ \A p \in 1..Len(log) : log[p].key # cmd[w].key
      /\ Admissible(log, cmd[w]) /\ holder = w
  BY DEF LockInv
<1>3. \A p \in 1..Len(log') : p \in 1..Len(log) \/ p = Len(log) + 1
  BY <1>1
<1>4. PositionsInv'
  BY <1>1, <1>2, <1>3, LogAssumption DEF PositionsInv, LastPosition
<1>5. RunIsOrdered'
  <2>1. cmd[w].type = "open" => Len(log) = 0
    <3> SUFFICES ASSUME cmd[w].type = "open", 1 \in 1..Len(log) PROVE FALSE
      BY <1>1
    <3> QED  BY <1>2 DEF Admissible, RunIsOrdered
  <2>2. cmd[w].type # "open" =>
            /\ \E p \in 1..Len(log) : log[p].type = "open"
            /\ ~ \E p \in 1..Len(log) : log[p].type = "finish"
    BY <1>2 DEF Admissible
  <2> SUFFICES ASSUME NEW p \in 1..Len(log')
               PROVE  /\ log'[p].type = "open" <=> p = 1
                      /\ log'[p].type = "finish" => p = Len(log')
    BY DEF RunIsOrdered
  <2>3. CASE p \in 1..Len(log)
    <3>1. cmd[w].type # "open"
      BY <2>1, <2>3, <1>1
    <3> QED  BY <2>2, <2>3, <3>1, <1>1 DEF RunIsOrdered
  <2>4. CASE p = Len(log) + 1
    <3>1. CASE cmd[w].type = "open"
      BY <2>1, <2>4, <3>1, <1>1
    <3>2. CASE cmd[w].type # "open"
      <4>1. p # 1
        BY <2>2, <2>4, <3>2, <1>1
      <4> QED  BY <2>4, <3>2, <4>1, <1>1
    <3> QED  BY <3>1, <3>2
  <2> QED  BY <1>3, <2>3, <2>4
<1>6. \A v \in Writers \ {w} : pc[v] \notin {"check", "commit"}
  BY <1>2 DEF LockInv
<1> QED  BY <1>1, <1>2, <1>4, <1>5, <1>6

LEMMA CommitKeeps == ASSUME LogInv, NEW w \in Writers, Commit(w) PROVE LogInv'
<1> USE DEF LogInv
<1>1. /\ pc[w] = "commit" /\ Store(w)
      /\ pc' = [pc EXCEPT ![w] = "publish"] /\ holder' = Released(w)
      /\ UNCHANGED <<cmd, lastRead, outcome, faults, unannounced>>
  BY DEF Commit
<1>2. /\ lastRead[w] = Len(log) /\ Len(log) \in Nat
      /\ Len(log') = Len(log) + 1
      /\ \A p \in 1..Len(log) : log'[p] = log[p]
      /\ log'[Len(log) + 1] = cmd[w]
  BY <1>1, StoredAppends, LenProperties DEF TypeOK
<1>3. /\ PositionsInv' /\ RunIsOrdered'
      /\ holder = w /\ project' \in Nat \ {0} /\ log' \in Seq(Commands)
      /\ \A v \in Writers \ {w} : pc[v] \notin {"check", "commit"}
  BY <1>1, StoreKeeps
<1>4. TypeOK'
  BY <1>1, <1>3 DEF TypeOK, PcStates, Released
<1>5. LockInv'
  BY <1>1, <1>3, LogAssumption DEF TypeOK, LockInv, Released
<1>6. PublishInv'
  <2>1. unannounced' \subseteq 1..Len(log')
    BY <1>1, <1>2 DEF PublishInv
  <2>2. Len(log) + 1 \notin unannounced
    BY <1>2 DEF PublishInv
  <2>3. \A v \in Writers : pc[v] = "publish" => lastRead[v] # Len(log)
    BY <1>2 DEF PublishInv, TypeOK
  <2>4. \A v \in Writers : pc'[v] = "publish" <=> pc[v] = "publish" \/ v = w
    BY <1>1 DEF TypeOK
  <2>5. ASSUME NEW v \in Writers, pc'[v] = "publish"
        PROVE  /\ lastRead'[v] + 1 \in 1..Len(log') \ unannounced'
               /\ log'[lastRead'[v] + 1] = cmd'[v]
    <3>1. CASE v = w
      BY <1>1, <1>2, <2>2, <3>1
    <3>2. CASE v # w
      <4>1. pc[v] = "publish"
        BY <2>4, <2>5, <3>2
      <4>2. lastRead[v] + 1 \in 1..Len(log) \ unannounced /\ log[lastRead[v] + 1] = cmd[v]
        BY <4>1 DEF PublishInv
      <4> QED  BY <1>1, <1>2, <4>2
    <3> QED  BY <3>1, <3>2
  <2>6. \A v, u \in Writers : pc'[v] = "publish" /\ pc'[u] = "publish" /\ lastRead'[v] = lastRead'[u] => v = u
    BY <1>1, <1>2, <2>3, <2>4 DEF PublishInv
  <2> QED  BY <2>1, <2>5, <2>6 DEF PublishInv
<1>7. AcknowledgedIsStored'
  BY <1>1, <1>2 DEF AcknowledgedIsStored
<1> QED  BY <1>3, <1>4, <1>5, <1>6, <1>7

LEMMA CommitUnknownKeeps == ASSUME LogInv, NEW w \in Writers, CommitUnknown(w) PROVE LogInv'
<1> USE DEF LogInv
<1>1. /\ pc[w] = "commit" /\ Store(w) /\ Finish(w, "error", 0)
      /\ unannounced' = unannounced \union {lastRead[w] + 1}
      /\ faults' \in 0..MaxFaults /\ cmd' = cmd
  BY LogAssumption DEF CommitUnknown, TypeOK
<1>2. /\ lastRead[w] = Len(log) /\ Len(log) \in Nat
      /\ Len(log') = Len(log) + 1
      /\ \A p \in 1..Len(log) : log'[p] = log[p]
  BY <1>1, StoredAppends, LenProperties DEF TypeOK
<1>3. /\ PositionsInv' /\ RunIsOrdered'
      /\ holder = w /\ project' \in Nat \ {0} /\ log' \in Seq(Commands)
      /\ \A v \in Writers \ {w} : pc[v] \notin {"check", "commit"}
  BY <1>1, StoreKeeps
<1>4. TypeOK'
  <2>1. unannounced' \subseteq Nat
    <3>1. unannounced' = unannounced \union {Len(log) + 1} /\ Len(log) + 1 \in Nat
      BY <1>1, <1>2
    <3> QED  BY <3>1 DEF TypeOK
  <2> QED  BY <1>1, <1>3, <2>1, FinishTyped DEF TypeOK, Statuses
<1>5. LockInv'
  BY <1>1, <1>3, LogAssumption DEF TypeOK, LockInv, Finish, Released
<1>6. PublishInv'
  <2>1. unannounced' \subseteq 1..Len(log')
    <3>1. unannounced' = unannounced \union {Len(log) + 1} /\ Len(log) + 1 \in 1..Len(log')
      BY <1>1, <1>2
    <3>2. 1..Len(log) \subseteq 1..Len(log')
      BY <1>2
    <3> QED  BY <3>1, <3>2 DEF PublishInv
  <2>2. \A v \in Writers : pc'[v] = "publish" =>
            v # w /\ pc[v] = "publish" /\ lastRead'[v] = lastRead[v] /\ cmd'[v] = cmd[v]
    BY <1>1 DEF Finish, TypeOK
  <2>3. ASSUME NEW v \in Writers, pc'[v] = "publish"
        PROVE  /\ lastRead'[v] + 1 \in 1..Len(log') \ unannounced'
               /\ log'[lastRead'[v] + 1] = cmd'[v]
    <3>1. lastRead[v] + 1 \in 1..Len(log) \ unannounced /\ log[lastRead[v] + 1] = cmd[v]
      BY <2>2, <2>3 DEF PublishInv
    <3> QED  BY <1>1, <1>2, <2>2, <2>3, <3>1
  <2>4. \A v, u \in Writers : pc'[v] = "publish" /\ pc'[u] = "publish" /\ lastRead'[v] = lastRead'[u] => v = u
    BY <2>2 DEF PublishInv
  <2> QED  BY <2>1, <2>3, <2>4 DEF PublishInv
<1>7. AcknowledgedIsStored'
  <2>1. outcome' = [outcome EXCEPT ![w] = [status |-> "error", position |-> 0]]
    BY <1>1 DEF Finish, Answer
  <2>2. outcome'[w].status = "error"
    BY <2>1 DEF TypeOK
  <2>3. \A v \in Writers : v # w => outcome'[v] = outcome[v]
    BY <2>1 DEF TypeOK
  <2> QED  BY <1>1, <1>2, <2>2, <2>3 DEF AcknowledgedIsStored
<1> QED  BY <1>3, <1>4, <1>5, <1>6, <1>7

-----------------------------------------------------------------------------

LEMMA InitLog == Init => LogInv
<1> SUFFICES ASSUME Init PROVE LogInv
  OBVIOUS
<1>1. log = <<>> /\ Len(log) = 0 /\ log \in Seq(Commands)
  BY EmptySeq DEF Init
<1>2. (CHOOSE c \in Commands : TRUE) \in Commands
  BY LogAssumption
<1>3. TypeOK
  BY <1>1, <1>2, LogAssumption DEF Init, TypeOK, PcStates, Statuses, Answer
<1>4. PositionsInv /\ RunIsOrdered /\ LockInv /\ PublishInv
  BY <1>1, LogAssumption DEF Init, PositionsInv, LastPosition, RunIsOrdered, LockInv, PublishInv
<1>5. AcknowledgedIsStored
  BY DEF Init, AcknowledgedIsStored, Answer
<1> QED  BY <1>3, <1>4, <1>5 DEF LogInv

LEMMA StepLog == LogInv /\ [Next]_vars => LogInv'
<1> SUFFICES ASSUME LogInv, [Next]_vars PROVE LogInv'
  OBVIOUS
<1>1. ASSUME NEW w \in Writers, Submit(w) PROVE LogInv'
  BY <1>1, SubmitKeeps
<1>2. ASSUME NEW w \in Writers, LockProject(w) PROVE LogInv'
  BY <1>2, LockKeeps
<1>3. ASSUME NEW w \in Writers, ProjectNotFound(w) PROVE LogInv'
  <2>1. faults' \in 0..MaxFaults /\ UNCHANGED <<tables, cmd, unannounced>>
    BY <1>3 DEF ProjectNotFound, LogInv, TypeOK
  <2> QED  BY <1>3, <2>1, FinishKeeps DEF ProjectNotFound, Statuses
<1>4. ASSUME NEW w \in Writers, Check(w) PROVE LogInv'
  BY <1>4, CheckKeeps
<1>5. ASSUME NEW w \in Writers, Commit(w) PROVE LogInv'
  BY <1>5, CommitKeeps
<1>6. ASSUME NEW w \in Writers, Publish(w) PROVE LogInv'
  <2>1. /\ lastRead[w] + 1 \in 1..Len(log) /\ lastRead[w] + 1 \in Nat
        /\ log[lastRead[w] + 1] = cmd[w]
    BY <1>6 DEF Publish, LogInv, PublishInv, TypeOK
  <2>2. faults' \in 0..MaxFaults /\ UNCHANGED <<tables, cmd, unannounced>>
    BY <1>6 DEF Publish, LogInv, TypeOK
  <2>3. Finish(w, "created", lastRead[w] + 1)
    BY <1>6 DEF Publish
  <2> QED  BY <2>1, <2>2, <2>3, FinishKeeps DEF Statuses
<1>7. ASSUME NEW w \in Writers, Fail(w) PROVE LogInv'
  <2>1. faults' \in 0..MaxFaults /\ UNCHANGED <<tables, cmd, unannounced>>
    BY <1>7, LogAssumption DEF Fail, RolledBack, LogInv, TypeOK, tables
  <2> QED  BY <1>7, <2>1, FinishKeeps DEF Fail, Statuses
<1>8. ASSUME NEW w \in Writers, CommitUnknown(w) PROVE LogInv'
  BY <1>8, CommitUnknownKeeps
<1>9. CASE Crash
  BY <1>9, CrashKeeps
<1>10. CASE UNCHANGED vars
  BY <1>10 DEF vars, tables, LogInv, TypeOK, PositionsInv, LockInv, PublishInv, AcknowledgedIsStored,
               RunIsOrdered, LastPosition, Admissible
<1> QED  BY <1>1, <1>2, <1>3, <1>4, <1>5, <1>6, <1>7, <1>8, <1>9, <1>10 DEF Next, Step

\* Positions without a gap, every key once, one transaction at a time, an
\* acknowledgement that holds, and a run that opens first and ends last (store.go
\* AppendGuarded), for any number of writers, commands and faults.
THEOREM LogInvariant == Spec => []LogInv
  BY InitLog, StepLog, PTL DEF Spec

\* A command that was answered 201 or 200 is in the log where the answer says, for good.
THEOREM AcknowledgementsHold == Spec => []AcknowledgedIsStored
<1>1. LogInv => AcknowledgedIsStored
  BY DEF LogInv
<1> QED  BY <1>1, LogInvariant, PTL

-----------------------------------------------------------------------------
(* The refinement.                                                                  *)

LEMMA StoreAccepts ==
    ASSUME LogInv, NEW w \in Writers, pc[w] = "commit", Store(w)
    PROVE  Atomic!Next
<1>1. log' = Append(log, cmd[w]) /\ cmd[w] \in Commands
  BY StoredAppends DEF LogInv, TypeOK
<1>2. (\A p \in 1..Len(log) : log[p].key # cmd[w].key) /\ Admissible(log, cmd[w])
  BY DEF LogInv, LockInv
<1> QED  BY <1>1, <1>2 DEF Atomic!Next, Atomic!Accept

LEMMA StepAtomic == LogInv /\ [Next]_vars => [Atomic!Next]_log
<1> SUFFICES ASSUME LogInv, [Next]_vars PROVE [Atomic!Next]_log
  OBVIOUS
<1>1. ASSUME NEW w \in Writers, Commit(w) \/ CommitUnknown(w) PROVE Atomic!Next
  BY <1>1, StoreAccepts DEF Commit, CommitUnknown
<1>2. ASSUME NEW w \in Writers,
             Submit(w) \/ LockProject(w) \/ ProjectNotFound(w) \/ Check(w) \/ Publish(w) \/ Fail(w)
      PROVE  log' = log
  BY <1>2 DEF Submit, LockProject, ProjectNotFound, Check, Publish, Fail, tables
<1>3. Crash => log' = log
  BY DEF Crash, tables
<1>4. UNCHANGED vars => log' = log
  BY DEF vars, tables
<1> QED  BY <1>1, <1>2, <1>3, <1>4 DEF Next, Step

\* However many submissions, retries, failures and crashes there are, commands enter
\* the log one at a time, each key once, when the log admits them.
THEOREM AppendsAtomically == Spec => ImplementsAtomicAppend
<1>1. Init => Atomic!Init
  BY DEF Init, Atomic!Init
<1>2. QED
  BY <1>1, StepAtomic, LogInvariant, PTL DEF Spec, ImplementsAtomicAppend, Atomic!Spec

\* Who is about to publish, and what.
Announcing == {v \in Writers : pc[v] = "publish"}

LEMMA FinishAnnounces ==
    ASSUME LogInv, NEW w \in Writers, NEW s \in Statuses, NEW p \in Nat, Finish(w, s, p)
    PROVE  /\ pc[w] # "publish" => Unpublished' = Unpublished
           /\ pc[w] = "publish" => Unpublished' = Unpublished \ {lastRead[w] + 1}
<1> DEFINE others == Announcing \ {w}
<1>1. Announcing' = others /\ \A v \in others : lastRead'[v] = lastRead[v]
  BY DEF Finish, Announcing, LogInv, TypeOK
<1>2. Unpublished' = {lastRead[v] + 1 : v \in others}
  BY <1>1 DEF Unpublished, Announcing
<1>3. CASE pc[w] # "publish"
  BY <1>2, <1>3 DEF Unpublished, Announcing
<1>4. CASE pc[w] = "publish"
  <2>1. \A v \in others : lastRead[v] + 1 # lastRead[w] + 1
    BY <1>4 DEF LogInv, PublishInv, TypeOK, Announcing
  <2>2. Unpublished = {lastRead[v] + 1 : v \in others} \union {lastRead[w] + 1}
    BY <1>4 DEF Unpublished, Announcing
  <2> QED  BY <1>2, <1>4, <2>1, <2>2
<1> QED  BY <1>3, <1>4

LEMMA StoreMovesHead ==
    ASSUME LogInv, NEW w \in Writers, pc[w] = "commit", Store(w)
    PROVE  LastPosition' = LastPosition + 1 /\ lastRead[w] + 1 = LastPosition'
<1>1. lastRead[w] = Len(log) /\ Len(log') = Len(log) + 1 /\ project' = Len(log')
  BY StoredAppends DEF LogInv
<1>2. Len(log) = LastPosition /\ Len(log) \in Nat
  BY LenProperties DEF LogInv, PositionsInv, TypeOK
<1>3. LastPosition' = project'
  BY <1>1, <1>2, LogAssumption DEF LastPosition
<1> QED  BY <1>1, <1>2, <1>3

LEMMA StepFeeds == LogInv /\ [Next]_vars => [Feed!Next]_(Feed!vars)
<1> SUFFICES ASSUME LogInv, [Next]_vars PROVE [Feed!Next]_(Feed!vars)
  OBVIOUS
<1> DEFINE still == UNCHANGED <<LastPosition, Unpublished, unannounced>>
<1>1. ASSUME NEW w \in Writers, Submit(w) PROVE still
  <2>1. Announcing' = Announcing /\ lastRead' = lastRead
    BY <1>1 DEF Submit, Announcing, LogInv, TypeOK
  <2> QED  BY <1>1, <2>1 DEF Submit, Unpublished, Announcing, LastPosition, tables
<1>2. ASSUME NEW w \in Writers, LockProject(w) PROVE still
  <2>1. Announcing' = Announcing /\ \A v \in Announcing : lastRead'[v] = lastRead[v]
    BY <1>2 DEF LockProject, Announcing, LogInv, TypeOK
  <2> QED  BY <1>2, <2>1 DEF LockProject, Unpublished, Announcing, LastPosition, tables
<1>3. ASSUME NEW w \in Writers, NEW s \in Statuses, NEW p \in Nat, Finish(w, s, p), pc[w] # "publish",
             UNCHANGED <<project, unannounced>>
      PROVE  still
  BY <1>3, FinishAnnounces DEF LastPosition
<1>4. ASSUME NEW w \in Writers, ProjectNotFound(w) PROVE still
  BY <1>3, <1>4 DEF ProjectNotFound, Statuses, tables
<1>5. ASSUME NEW w \in Writers, Fail(w) PROVE still
  BY <1>3, <1>5 DEF Fail, RolledBack, Statuses
<1>6. ASSUME NEW w \in Writers, Check(w) PROVE still
  <2>1. pc[w] = "check" /\ UNCHANGED <<project, unannounced>>
    BY <1>6 DEF Check, tables
  <2>2. ASSUME NEW p \in Stored(w), Retried(w, p) \/ Finish(w, "conflict", p) PROVE still
    <3>1. p \in Nat
      BY DEF Stored
    <3> QED  BY <1>3, <2>1, <2>2, <3>1 DEF Retried, Statuses
  <2>3. CASE Finish(w, "rejected", 0)
    BY <1>3, <2>1, <2>3 DEF Statuses
  <2>4. CASE pc' = [pc EXCEPT ![w] = "commit"] /\ UNCHANGED lastRead
    <3>1. Announcing' = Announcing
      BY <2>1, <2>4 DEF Announcing, LogInv, TypeOK
    <3> QED  BY <2>1, <2>4, <3>1 DEF Unpublished, Announcing, LastPosition
  <2> QED  BY <1>6, <2>2, <2>3, <2>4 DEF Check
<1>7. ASSUME NEW w \in Writers, Publish(w) PROVE Feed!Publish
  <2>1. pc[w] = "publish" /\ lastRead[w] + 1 \in Nat /\ lastRead[w] + 1 \in Unpublished
    BY <1>7 DEF Publish, Unpublished, LogInv, TypeOK
  <2>2. Unpublished' = Unpublished \ {lastRead[w] + 1}
    BY <1>7, <2>1, FinishAnnounces DEF Publish, Statuses
  <2> QED  BY <1>7, <2>1, <2>2 DEF Publish, Feed!Publish, LastPosition, tables
<1>8. ASSUME NEW w \in Writers, Commit(w) PROVE Feed!Commit
  <2>1. LastPosition' = LastPosition + 1 /\ lastRead[w] + 1 = LastPosition'
    BY <1>8, StoreMovesHead DEF Commit
  <2>2. Announcing' = Announcing \union {w} /\ lastRead' = lastRead
    BY <1>8 DEF Commit, Announcing, LogInv, TypeOK
  <2>3. Unpublished' = Unpublished \union {lastRead[w] + 1}
    BY <2>2 DEF Unpublished, Announcing
  <2> QED  BY <1>8, <2>1, <2>3 DEF Commit, Feed!Commit
<1>9. ASSUME NEW w \in Writers, CommitUnknown(w) PROVE Feed!CommitUnknown
  <2>1. LastPosition' = LastPosition + 1 /\ lastRead[w] + 1 = LastPosition'
    BY <1>9, StoreMovesHead DEF CommitUnknown
  <2>2. Unpublished' = Unpublished
    BY <1>9, FinishAnnounces DEF CommitUnknown, Statuses
  <2> QED  BY <1>9, <2>1, <2>2 DEF CommitUnknown, Feed!CommitUnknown
<1>10. CASE Crash
  <2>1. Unpublished' = {}
    BY <1>10 DEF Crash, Unpublished
  <2> QED  BY <1>10, <2>1 DEF Crash, Feed!Next, Feed!Replaced, LastPosition, tables
<1>11. CASE UNCHANGED vars
  BY <1>11 DEF vars, tables, LastPosition, Unpublished, Feed!vars
<1> HIDE DEF still
<1>12. still => [Feed!Next]_(Feed!vars)
  BY DEF still, Feed!vars
<1> QED
  BY <1>1, <1>2, <1>4, <1>5, <1>6, <1>7, <1>8, <1>9, <1>10, <1>11, <1>12 DEF Next, Step, Feed!Next

\* The streams are fed every committed position at most once and after its commit: what
\* EventStream assumes of the log is what the log does, for any number of writers.
THEOREM FeedsTheStreams == Spec => ImplementsCommitFeed
<1>1. Init => Feed!Init
  BY DEF Init, Feed!Init, LastPosition, Unpublished
<1>2. QED
  BY <1>1, StepFeeds, LogInvariant, PTL DEF Spec, ImplementsCommitFeed, Feed!Spec
=============================================================================
