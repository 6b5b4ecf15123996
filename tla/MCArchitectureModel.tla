-------------------------- MODULE MCArchitectureModel --------------------------
(* ArchitectureModel; another model of fewer ids with the views that are saved beside    *)
(* it (SavedViews); and the migration of an older project (ModelMigration).  A behaviour *)
(* explores one of the three.  Who saves a view must read it again before the next save,   *)
(* so one agent is stale as soon as two are.  With the symmetry of the ids, of which the  *)
(* others use the first two: no definition tells one component or one agent from another. *)
EXTENDS ArchitectureModel, ModelMigration, TLC

CONSTANTS SeenComponents, SeenRelationships, SeenAgents, Views, MaxWritesBesideViews, MaxViewRevision

VARIABLES part,
          seenParent, seenEnds, seenIdentities, seenRevision, seenAt, seenUsed, seenBehind, seenWriter,
          views, viewReadAt, savedAt, outdated, reader

Saved == INSTANCE SavedViews WITH
    Components <- SeenComponents, Relationships <- SeenRelationships, Agents <- SeenAgents,
    MaxRevision <- MaxWritesBesideViews,
    parent <- seenParent, ends <- seenEnds, identities <- seenIdentities,
    revision <- seenRevision, readAt <- seenAt, used <- seenUsed, behind <- seenBehind,
    writer <- seenWriter

seen == <<seenParent, seenEnds, seenIdentities, seenRevision, seenAt, seenUsed, seenBehind,
          seenWriter, views, viewReadAt, savedAt, outdated, reader>>
allVars == <<vars, seen, migrationVars, part>>

Empty ==
    /\ parent = [c \in Components |-> Absent] /\ ends = [r \in Relationships |-> Absent]
    /\ identities = {} /\ revision = 0 /\ readAt = [a \in Agents |-> 0]
    /\ used = {} /\ behind = {} /\ writer = NoAgent

NoViews ==
    /\ seenParent = Absent /\ seenEnds = Absent /\ seenIdentities = Absent /\ seenRevision = Absent
    /\ seenAt = Absent /\ seenUsed = Absent /\ seenBehind = Absent /\ seenWriter = Absent
    /\ views = Absent /\ viewReadAt = Absent /\ savedAt = Absent /\ outdated = Absent
    /\ reader = Absent

\* A project no migration has to do with.
NoMigration ==
    /\ old = TRUE /\ log = <<>> /\ live = {} /\ listed = {} /\ tracked = NotTracked
    /\ modelIdentities = {} /\ reused = {} /\ modelRevision = 0

MCInit ==
    /\ part \in {"model", "views", "migration"}
    /\ IF part = "model" THEN Init ELSE Empty
    /\ IF part = "views" THEN Saved!ViewsInit ELSE NoViews
    /\ IF part = "migration" THEN MigrationInit ELSE NoMigration

MCNext ==
    \/ part = "model" /\ Next /\ UNCHANGED <<part, seen, migrationVars>>
    \/ part = "views" /\ Saved!ViewsNext /\ UNCHANGED <<part, vars, migrationVars>>
    \/ part = "migration" /\ MigrationNext /\ UNCHANGED <<part, vars, seen>>

MCSpec == MCInit /\ [][MCNext]_allVars

Symmetry == Permutations(Components) \union Permutations(Agents)

\* SavedViews: who saves, removes or renders a view has read it, and what a view
\* misses is gone for good (view_commands.go:60-134, views.go:55-74).
ViewsAreSighted ==
    [][part = "views" => Saved!ViewsAreRead /\ Saved!ViewsMissWhatIsGone]_allVars
=============================================================================
