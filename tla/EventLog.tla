------------------------------- MODULE EventLog -------------------------------
(* Appending to the event log of one project                                    *)
(* (backend/internal/store/store.go AppendGuarded, called by                    *)
(* backend/internal/ingest/service.go submit).  Every submission runs in its    *)
(* own goroutine and its own database transaction; the project row is the only  *)
(* lock; the event is published after the commit.  The database runs at its     *)
(* default isolation, READ COMMITTED: a statement sees what committed before    *)
(* it, and nothing of a transaction that is still open.                         *)
EXTENDS Integers, Sequences

CONSTANTS
    Writers,       \* the goroutines that may run submit at the same time
    Commands,      \* what agents submit: records of key, version, type, payload, origin
    NoWriter,      \* nobody holds the project row
    NoProject,     \* there is no project row
    MaxFaults      \* bound: faults injected in all

ASSUME LogAssumption ==
    /\ NoWriter \notin Writers
    /\ NoProject \notin Int
    /\ Commands # {}
    /\ \A c \in Commands :
          c = [key |-> c.key, version |-> c.version, type |-> c.type, payload |-> c.payload,
               origin |-> c.origin]
    /\ MaxFaults \in Nat

VARIABLES
    project,       \* the committed project row: last_position, or NoProject
    log,           \* the committed events: the accepted command at each position
    holder,        \* the transaction that holds the project row
    pc,            \* where a goroutine is
    cmd,           \* the command it submits
    lastRead,      \* project.LastPosition as its transaction read it
    outcome,       \* what its last submission was answered
    faults,        \* how many faults were injected
    unannounced    \* history: committed by this process, and never published

tables == <<project, log>>
vars == <<tables, holder, pc, cmd, lastRead, outcome, faults, unannounced>>

PcStates == {"idle", "lock", "check", "commit", "publish"}

Statuses == {"none", "created", "duplicate", "conflict", "rejected",
             "project_not_found", "error"}

Answer(status, position) == [status |-> status, position |-> position]

Init ==
    /\ project = NoProject
    /\ log = <<>>
    /\ holder = NoWriter
    /\ pc = [w \in Writers |-> "idle"]
    /\ cmd = [w \in Writers |-> CHOOSE c \in Commands : TRUE]
    /\ lastRead = [w \in Writers |-> 0]
    /\ outcome = [w \in Writers |-> Answer("none", 0)]
    /\ faults = 0
    /\ unannounced = {}

-----------------------------------------------------------------------------
(* What a submission is compared with and checked against.                      *)

\* A command outside contract 2.0, or the one that opens a context, brings its
\* project into being; any other needs one that exists.
CreatesProject(c) == c.version = "1.0" \/ c.type = "open"

\* Mutant: any reuse of a key is taken for a retry.
SameKey(c, e) == c.key = e.key

\* Whether a submission repeats the stored command e: the content is the same and,
\* under contract 2.0, so is the rest of the command (commandIdentity and
\* replayCommand; a 1.0 event has an empty identity).
Repeats(c, e) ==
    /\ <<c.payload, c.type, c.version>> = <<e.payload, e.type, e.version>>
    /\ c.version = "2.0" => c.origin = e.origin

\* findByClientEventID: where the key of the submission is in the log already.
Stored(w) == {p \in 1..Len(log) : log[p].key = cmd[w].key}

\* The guard, as far as the order of appends matters to it: a run opens once, and
\* work enters it between its opening and its end.  RunLifecycle has all of it.
Admissible(l, c) ==
    LET Has(type) == \E p \in 1..Len(l) : l[p].type = type
    IN  IF c.type = "open" THEN ~Has("open") ELSE Has("open") /\ ~Has("finish")

\* Mutant: nothing serialises the transactions of a project.
NeverLocked(w) == TRUE

\* The row lock is free: no transaction holds the project row, or the uncommitted
\* insertion of it.
RowFree(w) == holder = NoWriter

\* Mutant: the row inserted for a new project outlives the transaction.
KeepInserted(w) == IF holder = w /\ project = NoProject THEN 0 ELSE project

\* The project row after the transaction of w was rolled back.
RolledBack(w) == project

-----------------------------------------------------------------------------

\* Mutant: a path that answers without ending its transaction.
StillHeld(w) == holder

\* The row lock once the transaction of w is over.
Released(w) == IF holder = w THEN NoWriter ELSE holder

\* The goroutine answers, and its transaction, if it had one, is over.
Finish(w, status, position) ==
    /\ pc' = [pc EXCEPT ![w] = "idle"]
    /\ holder' = Released(w)
    /\ lastRead' = [lastRead EXCEPT ![w] = 0]
    /\ outcome' = [outcome EXCEPT ![w] = Answer(status, position)]

\* A request arrives: a new command, or the retry of one sent before.
Submit(w) ==
    /\ pc[w] = "idle"
    /\ pc' = [pc EXCEPT ![w] = "lock"]
    /\ \E c \in Commands : cmd' = [cmd EXCEPT ![w] = c]
    /\ outcome' = [outcome EXCEPT ![w] = Answer("none", 0)]
    /\ UNCHANGED <<tables, holder, lastRead, faults, unannounced>>

\* SELECT ... FOR UPDATE of the project row, which lockProject inserts first when
\* it is missing.
LockProject(w) ==
    /\ pc[w] = "lock"
    /\ CreatesProject(cmd[w]) \/ project # NoProject
    /\ RowFree(w)
    /\ holder' = w
    /\ lastRead' = [lastRead EXCEPT ![w] = IF project = NoProject THEN 0 ELSE project]
    /\ pc' = [pc EXCEPT ![w] = "check"]
    /\ UNCHANGED <<tables, cmd, outcome, faults, unannounced>>

\* A project that is being created is not there yet for anyone else.
ProjectNotFound(w) ==
    /\ pc[w] = "lock"
    /\ ~CreatesProject(cmd[w]) /\ project = NoProject
    /\ Finish(w, "project_not_found", 0)
    /\ UNCHANGED <<tables, cmd, faults, unannounced>>

\* Mutant: a retry is published like a new event.
PublishAgain(w, p) ==
    /\ pc' = [pc EXCEPT ![w] = "publish"]
    /\ holder' = Released(w)
    /\ lastRead' = [lastRead EXCEPT ![w] = p - 1]
    /\ UNCHANGED outcome

\* A retry is answered from the stored event; nothing is written or published.
Retried(w, p) == Finish(w, "duplicate", p)

\* The lookup of the key, the comparison with what it finds, and the guard.
Check(w) ==
    /\ pc[w] = "check"
    /\ \/ \E p \in Stored(w) :
              IF Repeats(cmd[w], log[p]) THEN Retried(w, p) ELSE Finish(w, "conflict", p)
       \/ /\ Stored(w) = {}
          /\ IF Admissible(log, cmd[w])
             THEN /\ pc' = [pc EXCEPT ![w] = "commit"]
                  /\ UNCHANGED <<holder, lastRead, outcome>>
             ELSE Finish(w, "rejected", 0)
    /\ UNCHANGED <<tables, cmd, faults, unannounced>>

\* The transaction commits the event at the position after the one it read and,
\* with it, the project head that Apply advances.
Store(w) ==
    /\ log' = [p \in DOMAIN log \union {lastRead[w] + 1} |->
                  IF p = lastRead[w] + 1 THEN cmd[w] ELSE log[p]]
    /\ project' = lastRead[w] + 1

Commit(w) ==
    /\ pc[w] = "commit"
    /\ Store(w)
    /\ pc' = [pc EXCEPT ![w] = "publish"]
    /\ holder' = Released(w)
    /\ UNCHANGED <<cmd, lastRead, outcome, faults, unannounced>>

\* submit publishes after the commit and outside the lock, then answers 201.
Publish(w) ==
    /\ pc[w] = "publish"
    /\ Finish(w, "created", lastRead[w] + 1)
    /\ UNCHANGED <<tables, cmd, faults, unannounced>>

\* A statement fails, a projection fails or the request is cancelled before the
\* commit: everything is rolled back.
Fail(w) ==
    /\ pc[w] \in {"lock", "check", "commit"}
    /\ faults < MaxFaults
    /\ faults' = faults + 1
    /\ project' = RolledBack(w)
    /\ Finish(w, "error", 0)
    /\ UNCHANGED <<log, cmd, unannounced>>

\* The commit takes place, but its outcome does not come back: for submit the
\* append failed, so it answers with an error and does not publish.
CommitUnknown(w) ==
    /\ pc[w] = "commit"
    /\ faults < MaxFaults
    /\ faults' = faults + 1
    /\ Store(w)
    /\ unannounced' = unannounced \union {lastRead[w] + 1}
    /\ Finish(w, "error", 0)
    /\ UNCHANGED cmd

\* The process dies and another one starts.  Open transactions are rolled back.
Crash ==
    /\ faults < MaxFaults
    /\ faults' = faults + 1
    /\ holder' = NoWriter
    /\ pc' = [w \in Writers |-> "idle"]
    /\ outcome' = [w \in Writers |-> Answer("none", 0)]
    /\ lastRead' = [w \in Writers |-> 0]
    /\ unannounced' = {}
    /\ UNCHANGED <<tables, cmd>>

Step(w) ==
    LockProject(w) \/ ProjectNotFound(w) \/ Check(w) \/ Commit(w) \/ Publish(w)

Next ==
    \/ \E w \in Writers : Submit(w) \/ Step(w) \/ Fail(w) \/ CommitUnknown(w)
    \/ Crash

Spec == Init /\ [][Next]_vars

\* Goroutines run, and the database grants a row lock in the order it was asked
\* for.  Nothing makes an agent submit.
Fairness == \A w \in Writers : WF_vars(Step(w)) /\ SF_vars(LockProject(w))

FairSpec == Spec /\ Fairness

-----------------------------------------------------------------------------
(* Properties.                                                                  *)

\* The position of the last committed event.
LastPosition == IF project = NoProject THEN 0 ELSE project

\* Committed positions whose goroutine is about to publish them.
Unpublished == {lastRead[w] + 1 : w \in {v \in Writers : pc[v] = "publish"}}

TypeOK ==
    /\ project \in {NoProject} \union (Nat \ {0})
    /\ log \in Seq(Commands)
    /\ holder \in {NoWriter} \union Writers
    /\ pc \in [Writers -> PcStates]
    /\ cmd \in [Writers -> Commands]
    /\ lastRead \in [Writers -> Nat]
    /\ outcome \in [Writers -> [status : Statuses, position : Nat]]
    /\ faults \in 0..MaxFaults
    /\ unannounced \subseteq Nat

\* The positions are handed out without a gap and the project row names the last
\* one; a project exists only with an event; every key was accepted once.
PositionsInv ==
    /\ Len(log) = LastPosition
    /\ \A p, q \in 1..Len(log) : log[p].key = log[q].key => p = q

\* The transaction that holds the project row is the only one that read it, and
\* what it read and decided is still true when it commits.
LockInv ==
    \A w \in Writers :
        /\ pc[w] \in {"check", "commit"} <=> holder = w
        /\ holder = w => lastRead[w] = LastPosition
        /\ pc[w] = "commit" => /\ \A p \in 1..Len(log) : log[p].key # cmd[w].key
                               /\ Admissible(log, cmd[w])

\* Whoever publishes holds a position of the log that is its own.
PublishInv ==
    /\ unannounced \subseteq 1..Len(log)
    /\ \A w \in Writers :
           pc[w] = "publish" =>
               /\ lastRead[w] + 1 \in 1..Len(log) \ unannounced
               /\ log[lastRead[w] + 1] = cmd[w]
               /\ \A v \in Writers : pc[v] = "publish" /\ lastRead[v] = lastRead[w] => v = w

\* An acknowledgement holds for good: a command answered 201 or 200 is in the log
\* at the position answered, with its content and, under contract 2.0, all of it;
\* a 409 names the position of another command (store.go, "the originally assigned
\* position is repeated unchanged").
AcknowledgedIsStored ==
    \A w \in Writers :
        LET p == outcome[w].position
            status == outcome[w].status
        IN  /\ status \in {"created", "duplicate", "conflict"} =>
                   p \in 1..Len(log) /\ log[p].key = cmd[w].key
            /\ status \in {"created", "duplicate"} =>
                   /\ <<log[p].type, log[p].payload>> = <<cmd[w].type, cmd[w].payload>>
                   /\ cmd[w].version = "2.0" => log[p] = cmd[w]
            /\ status = "conflict" => log[p] # cmd[w]

\* A run opens once and first, and nothing follows its end: the guard's answer
\* still holds when the event commits (store.go Guard, "without racing").
RunIsOrdered ==
    \A p \in 1..Len(log) :
        /\ log[p].type = "open" <=> p = 1
        /\ log[p].type = "finish" => p = Len(log)

LogInv ==
    TypeOK /\ PositionsInv /\ LockInv /\ PublishInv /\ AcknowledgedIsStored /\ RunIsOrdered

\* Concurrent submissions, retries, failures and crashes amount to commands that
\* enter the log one at a time.
Atomic == INSTANCE AtomicAppend
ImplementsAtomicAppend == Atomic!Spec

\* The stream is fed every committed position at most once, and only after its
\* commit.
Feed == INSTANCE CommitFeed WITH head <- LastPosition, unpublished <- Unpublished
ImplementsCommitFeed == Feed!Spec

\* Every submission is answered: no transaction keeps the project row for ever.
Answered == \A w \in Writers : pc[w] = "lock" ~> pc[w] = "idle"

\* A retry that is answered as a duplicate repeats an event that was published, or
\* is about to be, unless its process is gone (publisher.go:30, "the event it
\* repeats was published when it was first accepted").
DuplicateWasPublished ==
    \A w \in Writers :
        outcome[w].status = "duplicate" => outcome[w].position \notin unannounced

=============================================================================
