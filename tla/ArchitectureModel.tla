--------------------------- MODULE ArchitectureModel ---------------------------
(* The architecture model of one project: components in a hierarchy and         *)
(* relationships between them, written by conditional mutations and by the      *)
(* unconditional legacy events (backend/internal/store/model.go, projector.go). *)
(* A write is checked and applied inside one append transaction under the       *)
(* project row lock (EventLog), so an accepted write is one step here and a     *)
(* rejected one changes nothing.  Of a descriptor only what the graph rules     *)
(* read is kept: the parent of a component, the endpoints of a relationship.    *)
EXTENDS Integers, FiniteSets, ModelRows

CONSTANTS
    Components,      \* component ids
    Relationships,   \* relationship ids
    Agents,          \* agents that read the model and then mutate it
    MaxRevision      \* bound: accepted model writes

ASSUME ModelAssumption ==
    /\ IsFiniteSet(Components)
    /\ Components \intersect Relationships = {}
    /\ {Top, Absent} \intersect Components = {}
    /\ Top # Absent
    /\ Absent \notin Components \X Components
    /\ NoAgent \notin Agents
    /\ MaxRevision \in Nat

ComponentRows == Components \union {Top, Absent}
RelationshipRows == (Components \X Components) \union {Absent}

VARIABLES
    parent,       \* Component.ParentComponentID of every row of components
    ends,         \* source and target of every row of relationships
    identities,   \* ModelIdentity: the ids that are reserved for ever
    revision,     \* Project.ModelRevision
    readAt,       \* the revision an agent read the model at
    \* history
    used,         \* the ids that were live at some time
    behind,       \* the agents whose model changed since they read it
    writer        \* the agent whose mutation was accepted last

graph == <<parent, ends>>
vars == <<parent, ends, identities, revision, readAt, used, behind, writer>>

LiveComponents(p) == {c \in Components : p[c] # Absent}
LiveRelationships(e) == {r \in Relationships : e[r] # Absent}
Live(p, e) == LiveComponents(p) \union LiveRelationships(e)

-----------------------------------------------------------------------------
(* graphDiagnostics: what is wrong with a graph.                                *)

MissingParents(p) == {c \in LiveComponents(p) : p[c] # Top /\ p[c] \notin LiveComponents(p)}

\* Mutant: the walk looks at the parent of a component and no further.
SelfParents(p) == {c \in LiveComponents(p) : p[c] = c}

\* The walk up the hierarchy comes back to a component it has visited.
Walk(p) ==
    LET walk[visited \in SUBSET Components] ==
            [c \in Components |->
                c \in visited \/ (p[c] \in Components /\ walk[visited \union {c}][p[c]])]
    IN  walk

InCycles(p) == {c \in LiveComponents(p) : Walk(p)[{}][c]}

MissingEndpoints(p, e) ==
    {r \in LiveRelationships(e) : \E i \in {1, 2} : e[r][i] \notin LiveComponents(p)}

NoDiagnostics(p, e) == MissingParents(p) = {} /\ InCycles(p) = {} /\ MissingEndpoints(p, e) = {}

-----------------------------------------------------------------------------

\* A project that was created before the model was tracked keeps its graph as it
\* is, defects included, and the ids its events had used; a new one is empty.
Init ==
    /\ parent \in [Components -> ComponentRows]
    /\ ends \in [Relationships -> RelationshipRows]
    /\ identities \in {ids \in SUBSET (Components \union Relationships) : Live(parent, ends) \subseteq ids}
    /\ revision = 0
    /\ readAt = [a \in Agents |-> 0]
    /\ used = identities
    /\ behind = {}
    /\ writer = NoAgent

\* readModelSnapshot: the graph and its revision from one snapshot.
Read(a) ==
    /\ readAt' = [readAt EXCEPT ![a] = revision]
    /\ behind' = behind \ {a}
    /\ writer' = NoAgent
    /\ UNCHANGED <<parent, ends, identities, revision, used>>

\* The ids a write leaves reserved.
Reserved(p, e) == Live(p, e)

\* Mutant: only the operations of a mutation are checked for retired ids.
NothingRetired(p, e) == {}

\* The ids an accepted write must not bring to life: reserved, and not live before.
Retired(p, e) == identities \ Live(p, e)

NextRevision == revision + 1

\* finishModelWrite: the graph p, e after the write has no defect and revives no
\* retired id; its ids are reserved and the revision moves on.
Finish(p, e) ==
    /\ revision < MaxRevision
    /\ NoDiagnostics(p, e)
    /\ Live(p, e) \intersect Retired(parent, ends) = {}
    /\ parent' = p
    /\ ends' = e
    /\ identities' = identities \union Reserved(p, e)
    /\ revision' = NextRevision
    /\ used' = used \union Live(p, e)
    /\ behind' = IF <<p, e>> = graph THEN behind ELSE Agents
    /\ UNCHANGED readAt

\* Mutant: the expected revision may be the one before the current revision.
Recent(a) == revision <= readAt[a] + 1

\* The expected revision of a mutation is the one its agent read.
Expected(a) == readAt[a] = revision

\* The rows of a table after a mutation that gives the rows in the domain of
\* writes a new value, or Absent.
Written(rows, writes) == [id \in DOMAIN rows |-> IF id \in DOMAIN writes THEN writes[id] ELSE rows[id]]

\* An operation removes or updates a row that is there, or adds one under an id
\* that was never used.  A target occurs once, so the order plays no part.
Applicable(rows, writes) ==
    \A id \in DOMAIN writes :
        rows[id] = Absent => writes[id] # Absent /\ id \notin identities

Writes(ids, rows) == UNION {[S -> rows] : S \in SUBSET ids}

\* model.mutation_applied.
Mutate(a, cw, rw) ==
    /\ Expected(a)
    /\ Applicable(parent, cw)
    /\ Applicable(ends, rw)
    /\ Finish(Written(parent, cw), Written(ends, rw))
    /\ writer' = a

\* architecture.snapshot_published, also as the content of a correction: what the
\* snapshot leaves out is removed.
PublishSnapshot(p, e) ==
    /\ Finish(p, e)
    /\ writer' = NoAgent

\* component.change_applied, also as the content of a correction: add and modify
\* both write the row, a remove deletes it if it is there.
ChangeComponent(c, row) ==
    /\ Finish([parent EXCEPT ![c] = row], ends)
    /\ writer' = NoAgent

\* relationship.change_applied, also as the content of a correction.
ChangeRelationship(r, row) ==
    /\ Finish(parent, [ends EXCEPT ![r] = row])
    /\ writer' = NoAgent

Next ==
    \/ \E a \in Agents : Read(a)
    \/ \E a \in Agents, cw \in Writes(Components, ComponentRows),
          rw \in Writes(Relationships, RelationshipRows) :
              DOMAIN cw \union DOMAIN rw # {} /\ Mutate(a, cw, rw)
    \/ \E p \in [Components -> ComponentRows], e \in [Relationships -> RelationshipRows] :
              PublishSnapshot(p, e)
    \/ \E c \in Components, row \in ComponentRows : ChangeComponent(c, row)
    \/ \E r \in Relationships, row \in RelationshipRows : ChangeRelationship(r, row)

Spec == Init /\ [][Next]_vars

-----------------------------------------------------------------------------
(* Properties.                                                                  *)

TypeOK ==
    /\ parent \in [Components -> ComponentRows]
    /\ ends \in [Relationships -> RelationshipRows]
    /\ identities \subseteq Components \union Relationships
    /\ revision \in 0..MaxRevision
    /\ readAt \in [Agents -> 0..MaxRevision]
    /\ used \subseteq Components \union Relationships
    /\ behind \subseteq Agents
    /\ writer \in Agents \union {NoAgent}

\* The components are a forest and no reference dangles, said without the walk:
\* every set of components has a member whose parent is outside of it.
Sound(p, e) ==
    /\ \A c \in LiveComponents(p) : p[c] \in LiveComponents(p) \union {Top}
    /\ \A S \in SUBSET LiveComponents(p) : S # {} => \E c \in S : p[c] \notin S
    /\ \A r \in LiveRelationships(e) : e[r] \in LiveComponents(p) \X LiveComponents(p)

\* Once a write was accepted the model is sound, whatever legacy graph it started
\* from and whichever operations one mutation combines (model.go graphDiagnostics,
\* whose walk finds every defect there is).
AcceptedModelIsSound == revision > 0 => Sound(parent, ends)

\* No revision is given to two different graphs: an agent that read the current
\* revision knows the current graph (model.go, "Pagination/adapters must bind these
\* counters").
RevisionIdentifiesGraph == \A a \in behind : readAt[a] < revision

\* What the writes keep: everything live or ever used is reserved, and nobody has
\* read a revision that is still to come (model.go finishModelWrite).
ModelInv ==
    /\ TypeOK
    /\ used \subseteq identities
    /\ Live(parent, ends) \subseteq used
    /\ \A a \in Agents : readAt[a] <= revision
    /\ RevisionIdentifiesGraph

\* An id that was removed once never becomes live again, by no kind of write
\* (model.go, "is retired and cannot be reused").
RetiredStaysRetired ==
    [][used \intersect (Live(parent', ends') \ Live(parent, ends)) = {}]_vars

\* A conditional mutation is applied to the very graph its agent had read, so it
\* never undoes a write the agent has not seen (model.go prepareModelWrite).
NoLostUpdate ==
    [][\A a \in Agents : writer' = a => a \notin behind]_vars

=============================================================================
