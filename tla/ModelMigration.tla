---------------------------- MODULE ModelMigration ----------------------------
(* How the model of a project that is older than its tracking comes to be tracked        *)
(* (backend/internal/store/model_migration.go): by the migration every process runs when  *)
(* it starts, or by the first event that is appended, each in a transaction that holds    *)
(* the row of the project.  From then on the ids and the revision are those of            *)
(* ArchitectureModel.  A component is its id here.                                        *)
EXTENDS Integers, Sequences, FiniteSets, ModelRows

CONSTANTS
    Ids,
    Processes,
    NotTracked,       \* ModelActivatedAtPosition is null
    MaxLegacy,        \* bound: events before the tracking
    MaxEvents         \* bound: events in all

ASSUME MigrationAssumption ==
    /\ IsFiniteSet(Ids) /\ {Top, Absent} \cap Ids = {} /\ Top # Absent /\ Absent \notin Ids \X Ids
    /\ NotTracked \notin Nat /\ MaxLegacy \in Nat /\ MaxEvents \in Nat

VARIABLES
    old,          \* the version that does not track still writes
    log,          \* the effects of the events on the model
    live,         \* the components of the current projection
    listed,       \* the processes whose migration found the project untracked
    tracked,      \* Project.ModelActivatedAtPosition
    modelIdentities, reused,     \* ModelIdentity, and HistoricalReuse of it
    modelRevision

migrationVars == <<old, log, live, listed, tracked, modelIdentities, reused, modelRevision>>

\* modelEffect of an event, or of the content of a correction.
Effects ==
    [kind : {"snapshot"}, ids : SUBSET Ids]
    \cup [kind : {"write", "remove"}, ids : {{id} : id \in Ids}]
    \cup {[kind |-> "none", ids |-> {}]}

\* The ids an effect writes a row for.
Materialised(effect) == IF effect.kind \in {"snapshot", "write"} THEN effect.ids ELSE {}

After(ids, effect) ==
    CASE effect.kind = "snapshot" -> effect.ids
      [] effect.kind = "write" -> ids \cup effect.ids
      [] effect.kind = "remove" -> ids \ effect.ids
      [] effect.kind = "none" -> ids

\* A database may have been imported without its log.
MigrationInit ==
    /\ old = TRUE /\ log = <<>> /\ live \in SUBSET Ids
    /\ listed = {} /\ tracked = NotTracked
    /\ modelIdentities = {} /\ reused = {} /\ modelRevision = 0

-----------------------------------------------------------------------------
(* activateModelTracking                                                         *)

Nothing == [live |-> {}, ids |-> {}, reused |-> {}]

\* An event, after what is found in those before it.
Found(before, effect) ==
    [live |-> After(before.live, effect),
     ids |-> before.ids \cup Materialised(effect),
     reused |-> before.reused \cup ((Materialised(effect) \cap before.ids) \ before.live)]

Replayed ==
    LET replay[n \in 0..Len(log)] == IF n = 0 THEN Nothing ELSE Found(replay[n - 1], log[n])
    IN  replay[Len(log)]

Evidence == Replayed.ids \cup live

\* Mutant: whoever comes second activates again.
Always == TRUE

Untracked == tracked = NotTracked

Activated ==
    IF Untracked
    THEN [at |-> Len(log), identities |-> Evidence, reused |-> Replayed.reused, revision |-> 0]
    ELSE [at |-> tracked, identities |-> modelIdentities, reused |-> reused, revision |-> modelRevision]

-----------------------------------------------------------------------------

\* An event under the earlier version.
Legacy(effect) ==
    /\ old /\ Len(log) < MaxLegacy
    /\ log' = Append(log, effect) /\ live' = After(live, effect)
    /\ UNCHANGED <<old, listed, tracked, modelIdentities, reused, modelRevision>>

\* A process starts, for the first time or after a crash, and looks for projects
\* outside of any transaction.
Start(m) ==
    /\ old' = FALSE
    /\ listed' = IF Untracked THEN listed \cup {m} ELSE listed \ {m}
    /\ UNCHANGED <<log, live, tracked, modelIdentities, reused, modelRevision>>

\* migrateModelTracking, which reads the row again under its lock.
Migrate(m) ==
    /\ m \in listed /\ listed' = listed \ {m}
    /\ tracked' = Activated.at /\ modelIdentities' = Activated.identities
    /\ reused' = Activated.reused /\ modelRevision' = Activated.revision
    /\ UNCHANGED <<old, log, live>>

\* AppendGuarded, which gives up the activation with an event it rejects.
AppendEvent(effect) ==
    LET next == After(live, effect)
    IN  /\ ~old /\ Len(log) < MaxEvents
        /\ effect.kind # "none" => (next \ live) \cap Activated.identities = {}
        /\ log' = Append(log, effect) /\ live' = next
        /\ tracked' = Activated.at /\ reused' = Activated.reused
        /\ IF effect.kind = "none"
           THEN modelIdentities' = Activated.identities /\ modelRevision' = Activated.revision
           ELSE modelIdentities' = Activated.identities \cup next /\ modelRevision' = Activated.revision + 1
        /\ UNCHANGED <<old, listed>>

MigrationNext ==
    \/ \E effect \in Effects : Legacy(effect) \/ AppendEvent(effect)
    \/ \E m \in Processes : Start(m) \/ Migrate(m)

MigrationSpec == MigrationInit /\ [][MigrationNext]_migrationVars

-----------------------------------------------------------------------------

\* What a project will have reserved, whoever activates it.
EverUsed == live \cup UNION {Materialised(log[i]) : i \in DOMAIN log}

Model == INSTANCE ArchitectureModel WITH
    Components <- Ids, Relationships <- {}, Agents <- {}, MaxRevision <- MaxEvents,
    parent <- [id \in Ids |-> IF id \in live THEN Top ELSE Absent],
    ends <- [r \in {} |-> Absent],
    identities <- IF tracked = NotTracked THEN EverUsed ELSE modelIdentities,
    revision <- modelRevision,
    readAt <- [a \in {} |-> 0],
    used <- IF tracked = NotTracked THEN EverUsed ELSE modelIdentities,
    behind <- {}, writer <- NoAgent

\* An id of the log that was gone before one of its events brought it back.
UsedAgain(id, upTo) ==
    \E i, k, j \in 1..upTo :
        /\ i < k /\ k < j
        /\ id \in Materialised(log[i]) /\ id \in Materialised(log[j])
        /\ id \notin After({id}, log[k])

\* The model of a project that is activated begins as ArchitectureModel begins, and
\* whatever is reused in its log is marked (model_migration.go:31-135).
ActivatedAsReported ==
    /\ ~old /\ modelRevision = 0 => Model!Init
    /\ tracked # NotTracked => reused = {id \in Ids : UsedAgain(id, tracked)}

\* And it goes on as ArchitectureModel does: activating is no step of the model.
ModelGoesOn == ~old => [Model!Next]_(Model!vars)

\* Whichever process activates an older project, once or again, the project is from
\* then on one whose model ArchitectureModel describes (model_migration.go:10-135).
MigrationStartsTheModel == []ActivatedAsReported /\ [][ModelGoesOn]_migrationVars
=============================================================================
