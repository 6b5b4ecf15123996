------------------------ MODULE ArchitectureModelProofs ------------------------
(* The invariants of the architecture model, of the views saved beside it and   *)
(* of the migration that begins it, for every number of components,             *)
(* relationships, agents and views and every sequence of writes; and what the    *)
(* diagnostics of a graph find.                                                  *)
EXTENDS SavedViews, ModelMigration, FiniteSetTheorems, WellFoundedInduction, TLAPS

\* What an accepted write does, whichever event it is.
Effect(p, e) ==
    /\ p \in [Components -> ComponentRows]
    /\ e \in [Relationships -> RelationshipRows]
    /\ Finish(p, e)
    /\ writer' \in Agents \union {NoAgent}
    /\ writer' \in Agents => readAt[writer'] = revision

-----------------------------------------------------------------------------
(* The rows an event writes are rows of the tables.                             *)

LEMMA MutateEffect ==
    ASSUME TypeOK, NEW a \in Agents, NEW cw \in Writes(Components, ComponentRows),
           NEW rw \in Writes(Relationships, RelationshipRows), Mutate(a, cw, rw)
    PROVE  Effect(Written(parent, cw), Written(ends, rw))
  <1>1. PICK S \in SUBSET Components : cw \in [S -> ComponentRows]
    BY DEF Writes
  <1>2. PICK R \in SUBSET Relationships : rw \in [R -> RelationshipRows]
    BY DEF Writes
  <1>3. Written(parent, cw) \in [Components -> ComponentRows]
    BY <1>1 DEF Written, TypeOK
  <1>4. Written(ends, rw) \in [Relationships -> RelationshipRows]
    BY <1>2 DEF Written, TypeOK
  <1>5. Finish(Written(parent, cw), Written(ends, rw)) /\ writer' = a /\ readAt[a] = revision
    BY DEF Mutate, Expected
  <1> QED
    BY <1>3, <1>4, <1>5 DEF Effect

LEMMA UnconditionalEffect ==
    ASSUME NEW p \in [Components -> ComponentRows], NEW e \in [Relationships -> RelationshipRows],
           Finish(p, e), writer' = NoAgent
    PROVE  Effect(p, e)
  BY ModelAssumption DEF ModelAssumption, Effect

\* Every step is a reading, or a write with the effect above, or changes nothing.
LEMMA StepCases ==
    ASSUME TypeOK, [Next]_vars
    PROVE  \/ UNCHANGED vars
           \/ \E a \in Agents : Read(a)
           \/ \E p \in [Components -> ComponentRows], e \in [Relationships -> RelationshipRows] :
                  Effect(p, e)
  <1>1. ASSUME NEW a \in Agents, NEW cw \in Writes(Components, ComponentRows),
               NEW rw \in Writes(Relationships, RelationshipRows), Mutate(a, cw, rw)
        PROVE  \E p \in [Components -> ComponentRows], e \in [Relationships -> RelationshipRows] :
                  Effect(p, e)
    <2>1. Effect(Written(parent, cw), Written(ends, rw))
      BY <1>1, MutateEffect
    <2> QED
      BY <2>1 DEF Effect
  <1>2. ASSUME NEW p \in [Components -> ComponentRows], NEW e \in [Relationships -> RelationshipRows],
               PublishSnapshot(p, e)
        PROVE  Effect(p, e)
    BY <1>2, UnconditionalEffect DEF PublishSnapshot
  <1>3. ASSUME NEW c \in Components, NEW row \in ComponentRows, ChangeComponent(c, row)
        PROVE  Effect([parent EXCEPT ![c] = row], ends)
    <2>1. [parent EXCEPT ![c] = row] \in [Components -> ComponentRows]
          /\ ends \in [Relationships -> RelationshipRows]
      BY DEF TypeOK
    <2> QED
      BY <1>3, <2>1, UnconditionalEffect DEF ChangeComponent
  <1>4. ASSUME NEW r \in Relationships, NEW row \in RelationshipRows, ChangeRelationship(r, row)
        PROVE  Effect(parent, [ends EXCEPT ![r] = row])
    <2>1. [ends EXCEPT ![r] = row] \in [Relationships -> RelationshipRows]
          /\ parent \in [Components -> ComponentRows]
      BY DEF TypeOK
    <2> QED
      BY <1>4, <2>1, UnconditionalEffect DEF ChangeRelationship
  <1>5. CASE Next
    <2>1. \/ \E a \in Agents : Read(a)
          \/ \E a \in Agents, cw \in Writes(Components, ComponentRows),
                rw \in Writes(Relationships, RelationshipRows) : Mutate(a, cw, rw)
          \/ \E p \in [Components -> ComponentRows], e \in [Relationships -> RelationshipRows] :
                PublishSnapshot(p, e)
          \/ \E c \in Components, row \in ComponentRows : ChangeComponent(c, row)
          \/ \E r \in Relationships, row \in RelationshipRows : ChangeRelationship(r, row)
      BY <1>5 DEF Next
    <2>2. ASSUME NEW c \in Components, NEW row \in ComponentRows, ChangeComponent(c, row)
          PROVE  \E p \in [Components -> ComponentRows], e \in [Relationships -> RelationshipRows] :
                    Effect(p, e)
      <3>1. Effect([parent EXCEPT ![c] = row], ends)
        BY <1>3, <2>2
      <3> QED
        BY <3>1 DEF Effect
    <2>3. ASSUME NEW r \in Relationships, NEW row \in RelationshipRows, ChangeRelationship(r, row)
          PROVE  \E p \in [Components -> ComponentRows], e \in [Relationships -> RelationshipRows] :
                    Effect(p, e)
      <3>1. Effect(parent, [ends EXCEPT ![r] = row])
        BY <1>4, <2>3
      <3> QED
        BY <3>1 DEF Effect
    <2> QED
      BY <1>1, <1>2, <2>1, <2>2, <2>3
  <1> QED
    BY <1>5

-----------------------------------------------------------------------------
(* The inductive invariant.                                                     *)

LEMMA LiveTyped ==
    ASSUME NEW p, NEW e
    PROVE  Live(p, e) \subseteq Components \union Relationships
  BY DEF Live, LiveComponents, LiveRelationships

LEMMA InitModel == Init => ModelInv
  <1> SUFFICES ASSUME Init PROVE ModelInv
    OBVIOUS
  <1>1. TypeOK
    BY ModelAssumption DEF ModelAssumption, Init, TypeOK
  <1>2. Live(parent, ends) \subseteq identities /\ used = identities
    BY DEF Init
  <1>3. \A a \in Agents : readAt[a] <= revision
    BY DEF Init
  <1>4. RevisionIdentifiesGraph
    BY DEF Init, RevisionIdentifiesGraph
  <1> QED
    BY <1>1, <1>2, <1>3, <1>4 DEF ModelInv

LEMMA ReadKeeps ==
    ASSUME ModelInv, NEW a \in Agents, Read(a)
    PROVE  ModelInv'
  <1> USE DEF Read
  <1>1. revision \in Nat /\ \A b \in Agents : readAt[b] \in Nat
    BY ModelAssumption DEF ModelAssumption, ModelInv, TypeOK
  <1>2. readAt'[a] = revision /\ \A b \in Agents : b # a => readAt'[b] = readAt[b]
    BY DEF ModelInv, TypeOK
  <1>3. TypeOK'
    BY DEF ModelInv, TypeOK
  <1>4. (\A b \in Agents : readAt[b] <= revision)'
    BY <1>1, <1>2 DEF ModelInv
  <1>5. RevisionIdentifiesGraph'
    BY <1>2 DEF ModelInv, TypeOK, RevisionIdentifiesGraph
  <1>6. (used \subseteq identities /\ Live(parent, ends) \subseteq used)'
    BY DEF ModelInv
  <1> QED
    BY <1>3, <1>4, <1>5, <1>6 DEF ModelInv

LEMMA WriteKeeps ==
    ASSUME ModelInv, NEW p, NEW e, Effect(p, e)
    PROVE  ModelInv'
  <1> USE DEF Effect, Finish, NextRevision, Reserved
  <1>1. revision \in Nat /\ MaxRevision \in Nat /\ \A b \in Agents : readAt[b] \in 0..MaxRevision
    BY ModelAssumption DEF ModelAssumption, ModelInv, TypeOK
  <1>2. revision' \in 0..MaxRevision /\ revision' = revision + 1
    BY <1>1
  <1>3. behind' \subseteq Agents
    BY DEF ModelInv, TypeOK
  <1>4. TypeOK'
    BY <1>2, <1>3, LiveTyped DEF ModelInv, TypeOK
  <1>5. (\A b \in Agents : readAt[b] <= revision)'
    BY <1>1, <1>2 DEF ModelInv
  <1>6. RevisionIdentifiesGraph'
    BY <1>1, <1>2, <1>3 DEF ModelInv, RevisionIdentifiesGraph
  <1>7. (used \subseteq identities /\ Live(parent, ends) \subseteq used)'
    BY DEF ModelInv
  <1> QED
    BY <1>4, <1>5, <1>6, <1>7 DEF ModelInv

LEMMA StepModel == ModelInv /\ [Next]_vars => ModelInv'
  <1> SUFFICES ASSUME ModelInv, [Next]_vars PROVE ModelInv'
    OBVIOUS
  <1>1. CASE UNCHANGED vars
    BY <1>1 DEF vars, ModelInv, TypeOK, RevisionIdentifiesGraph
  <1> QED
    BY <1>1, ReadKeeps, WriteKeeps, StepCases DEF ModelInv

\* Reserved identities and revisions keep up with every accepted write
\* (model.go finishModelWrite).
THEOREM ModelInvariant == Spec => []ModelInv
  <1> QED
    BY InitModel, StepModel, PTL DEF Spec

\* Every state of the tables is well formed (projector.go writeComponent,
\* writeRelationship).
THEOREM TypeCorrect == Spec => []TypeOK
  <1>1. ModelInv => TypeOK
    BY DEF ModelInv
  <1> QED
    BY <1>1, ModelInvariant, PTL

\* No revision is given to two graphs (model.go finishModelWrite).
THEOREM RevisionsIdentify == Spec => []RevisionIdentifiesGraph
  <1>1. ModelInv => RevisionIdentifiesGraph
    BY DEF ModelInv
  <1> QED
    BY <1>1, ModelInvariant, PTL

-----------------------------------------------------------------------------
(* What a write may never do.                                                   *)

LEMMA NothingRevived ==
    ASSUME ModelInv, [Next]_vars
    PROVE  used \intersect (Live(parent', ends') \ Live(parent, ends)) = {}
  <1>1. CASE UNCHANGED vars
    BY <1>1 DEF vars
  <1>2. ASSUME NEW a \in Agents, Read(a)
        PROVE  used \intersect (Live(parent', ends') \ Live(parent, ends)) = {}
    BY <1>2 DEF Read
  <1>3. ASSUME NEW p, NEW e, Effect(p, e)
        PROVE  used \intersect (Live(parent', ends') \ Live(parent, ends)) = {}
    BY <1>3 DEF Effect, Finish, Retired, ModelInv
  <1> QED
    BY <1>1, <1>2, <1>3, StepCases DEF ModelInv

\* Whatever mixture of mutations, snapshots, changes and corrections is accepted,
\* an id that was removed once is never live again (model.go finishModelWrite).
THEOREM NoRevival == Spec => RetiredStaysRetired
  <1>1. ModelInv /\ [Next]_vars
            => [used \intersect (Live(parent', ends') \ Live(parent, ends)) = {}]_vars
    BY NothingRevived
  <1> QED
    BY <1>1, ModelInvariant, PTL DEF Spec, RetiredStaysRetired

LEMMA WriterIsUpToDate ==
    ASSUME ModelInv, [Next]_vars
    PROVE  [\A a \in Agents : writer' = a => a \notin behind]_vars
  <1>1. ASSUME NEW a \in Agents, Read(a)
        PROVE  \A b \in Agents : writer' = b => b \notin behind
    BY <1>1, ModelAssumption DEF Read, ModelAssumption
  <1>2. ASSUME NEW p, NEW e, Effect(p, e)
        PROVE  \A b \in Agents : writer' = b => b \notin behind
    <2>1. revision \in Nat
      BY ModelAssumption DEF ModelAssumption, ModelInv, TypeOK
    <2>2. ASSUME NEW b \in Agents, writer' = b, b \in behind
          PROVE  FALSE
      BY <1>2, <2>1, <2>2 DEF Effect, ModelInv, RevisionIdentifiesGraph
    <2> QED
      BY <2>2
  <1> QED
    BY <1>1, <1>2, StepCases DEF ModelInv

\* A conditional mutation never undoes a write its agent has not seen (model.go
\* prepareModelWrite).
THEOREM UpdatesAreNotLost == Spec => NoLostUpdate
  <1>1. ModelInv /\ [Next]_vars => [\A a \in Agents : writer' = a => a \notin behind]_vars
    BY WriterIsUpToDate
  <1> QED
    BY <1>1, ModelInvariant, PTL DEF Spec, NoLostUpdate

-----------------------------------------------------------------------------
(* Finite sets.                                                                 *)

\* A family of subsets of a finite set that is not empty has a largest member.
LEMMA LargestMember ==
    ASSUME NEW S, IsFiniteSet(S), NEW F \in SUBSET SUBSET S, F # {}
    PROVE  \E V \in F : \A W \in F : V \subseteq W => W = V
  <1> DEFINE G == {S \ V : V \in F}
  <1>1. G \subseteq SUBSET S /\ G # {}
    <2>1. PICK V \in F : TRUE
      OBVIOUS
    <2>2. S \ V \in G
      OBVIOUS
    <2>3. G \subseteq SUBSET S
      OBVIOUS
    <2> HIDE DEF G
    <2> QED
      BY <2>2, <2>3
  <1>2. IsWellFoundedOn(StrictSubsetOrdering(S), SUBSET S)
    BY FS_StrictSubsetOrderingWellFounded, FS_FiniteSubsetsOfFinite
  <1>3. PICK g \in G : \A h \in G : <<h, g>> \notin StrictSubsetOrdering(S)
    BY <1>1, <1>2, WFMin
  <1>4. PICK V \in F : g = S \ V
    OBVIOUS
  <1>5. ASSUME NEW W \in F, V \subseteq W, W # V
        PROVE  FALSE
    <2>1. S \ W \in G /\ S \ W \subseteq S \ V /\ S \ W # S \ V
      BY <1>5
    <2>2. <<S \ W, S \ V>> \in StrictSubsetOrdering(S)
      BY <2>1 DEF StrictSubsetOrdering
    <2> QED
      BY <1>3, <1>4, <2>1, <2>2
  <1> QED
    BY <1>5

-----------------------------------------------------------------------------
(* The walk.  There is a function that satisfies its equation: the smallest set *)
(* of arguments that is closed under it.                                        *)

Arguments == (SUBSET Components) \X Components

\* The arguments for which the walk ends at once, or goes on to one in A.
Back(p, A) ==
    {d \in Arguments : d[2] \in d[1] \/ (p[d[2]] \in Components /\ <<d[1] \union {d[2]}, p[d[2]]>> \in A)}

Smallest(p) == {d \in Arguments : \A A \in SUBSET Arguments : Back(p, A) \subseteq A => d \in A}

LEMMA SmallestIsFixed ==
    ASSUME NEW p
    PROVE  Back(p, Smallest(p)) = Smallest(p)
  <1> DEFINE L == Smallest(p)
  <1>1. L \in SUBSET Arguments
    BY DEF Smallest
  <1>2. ASSUME NEW A \in SUBSET Arguments, Back(p, A) \subseteq A
        PROVE  L \subseteq A
    BY <1>2 DEF Smallest
  <1>3. ASSUME NEW A, NEW B, A \subseteq B
        PROVE  Back(p, A) \subseteq Back(p, B)
    BY <1>3 DEF Back
  <1>4. Back(p, L) \subseteq L
    <2>1. ASSUME NEW A \in SUBSET Arguments, Back(p, A) \subseteq A
          PROVE  Back(p, L) \subseteq A
      BY <1>2, <1>3, <2>1
    <2>2. ASSUME NEW d \in Back(p, L)
          PROVE  d \in L
      <3>1. d \in Arguments
        BY <2>2 DEF Back
      <3> QED
        BY <2>1, <3>1 DEF Smallest
    <2> QED
      BY <2>2
  <1>5. L \subseteq Back(p, L)
    <2>1. Back(p, L) \in SUBSET Arguments /\ Back(p, Back(p, L)) \subseteq Back(p, L)
      BY <1>3, <1>4 DEF Back
    <2> QED
      BY <1>2, <2>1
  <1> QED
    BY <1>4, <1>5

LEMMA WalkExists ==
    ASSUME NEW p
    PROVE  \E f : f = [visited \in SUBSET Components |-> [c \in Components |->
                          c \in visited \/ (p[c] \in Components /\ f[visited \union {c}][p[c]])]]
  <1> DEFINE L == Smallest(p)
             f == [visited \in SUBSET Components |-> [c \in Components |-> <<visited, c>> \in L]]
  <1>1. ASSUME NEW v \in SUBSET Components, NEW c \in Components
        PROVE  <<v, c>> \in L <=> (c \in v \/ (p[c] \in Components /\ f[v \union {c}][p[c]]))
    <2>1. <<v, c>>[1] = v /\ <<v, c>>[2] = c /\ <<v, c>> \in Arguments
      BY DEF Arguments
    <2>2. <<v, c>> \in L <=> <<v, c>> \in Back(p, L)
      BY SmallestIsFixed
    <2>3. <<v, c>> \in L <=> (c \in v \/ (p[c] \in Components /\ <<v \union {c}, p[c]>> \in L))
      BY <2>1, <2>2 DEF Back
    <2> HIDE DEF L
    <2>4. v \union {c} \in SUBSET Components
      OBVIOUS
    <2>5. p[c] \in Components => f[v \union {c}][p[c]] = (<<v \union {c}, p[c]>> \in L)
      BY <2>4
    <2> HIDE DEF f
    <2> QED
      BY <2>3, <2>5
  <1> HIDE DEF L
  <1>3. ASSUME NEW v \in SUBSET Components, NEW c \in Components
        PROVE  (<<v, c>> \in L) = (c \in v \/ (p[c] \in Components /\ f[v \union {c}][p[c]]))
    <2> HIDE DEF f
    <2> QED
      BY <1>1
  <1>2. f = [visited \in SUBSET Components |-> [c \in Components |->
                          c \in visited \/ (p[c] \in Components /\ f[visited \union {c}][p[c]])]]
    BY <1>3, Zenon
  <1> QED
    BY <1>2, Zenon

LEMMA WalkSteps ==
    ASSUME NEW p, NEW v \in SUBSET Components, NEW c \in Components
    PROVE  Walk(p)[v][c] <=> (c \in v \/ (p[c] \in Components /\ Walk(p)[v \union {c}][p[c]]))
  <1> DEFINE w == Walk(p)
  <1>1. w = [visited \in SUBSET Components |-> [d \in Components |->
                 d \in visited \/ (p[d] \in Components /\ w[visited \union {d}][p[d]])]]
    BY WalkExists, Zenon DEF Walk
  <1> HIDE DEF w
  <1>2. w[v] = [d \in Components |->
                 d \in v \/ (p[d] \in Components /\ w[v \union {d}][p[d]])]
    BY <1>1
  <1>3. w[v][c] = (c \in v \/ (p[c] \in Components /\ w[v \union {c}][p[c]]))
    BY <1>2
  <1> QED
    BY <1>3, Zenon DEF w

-----------------------------------------------------------------------------
(* What the diagnostics find is what makes a graph unsound.                     *)

Graph(p, e) == p \in [Components -> ComponentRows] /\ e \in [Relationships -> RelationshipRows]

\* A set of components that none of them leads out of is a walk without an end: of the
\* sets it may have visited, the largest could be made larger by a step.
LEMMA ClosedSetIsACycle ==
    ASSUME NEW p, NEW S \in SUBSET Components, S # {}, \A c \in S : p[c] \in S
    PROVE  \E c \in S : Walk(p)[{}][c]
  <1> SUFFICES ASSUME \A c \in S : ~Walk(p)[{}][c] PROVE FALSE
    OBVIOUS
  <1> DEFINE F == {V \in SUBSET Components : \E c \in S : ~Walk(p)[V][c]}
  <1>1. F \in SUBSET SUBSET Components /\ F # {}
    <2>1. {} \in F
      OBVIOUS
    <2> QED
      BY <2>1
  <1>2. PICK V \in F : \A W \in F : V \subseteq W => W = V
    <2> HIDE DEF F
    <2> QED
      BY <1>1, LargestMember, ModelAssumption DEF ModelAssumption
  <1>3. PICK c \in S : ~Walk(p)[V][c]
    OBVIOUS
  <1>4. c \in Components /\ p[c] \in S /\ p[c] \in Components
    OBVIOUS
  <1>5. c \notin V /\ ~Walk(p)[V \union {c}][p[c]]
    BY <1>3, <1>4, WalkSteps
  <1>6. V \union {c} \in F
    BY <1>4, <1>5
  <1> QED
    BY <1>2, <1>5, <1>6

\* A walk that comes back has visited a set that none of its members leads out of.
LEMMA CycleIsAClosedSet ==
    ASSUME NEW p, NEW c0 \in Components, Walk(p)[{}][c0]
    PROVE  \E S \in SUBSET Components : S # {} /\ \A c \in S : p[c] \in S
  <1> DEFINE F == {V \in SUBSET Components :
                     \E c \in Components : Walk(p)[V][c] /\ \A d \in V : p[d] \in V \union {c}}
  <1>1. F \in SUBSET SUBSET Components /\ F # {}
    <2>1. {} \in F
      OBVIOUS
    <2> QED
      BY <2>1
  <1>2. PICK V \in F : \A W \in F : V \subseteq W => W = V
    <2> HIDE DEF F
    <2> QED
      BY <1>1, LargestMember, ModelAssumption DEF ModelAssumption
  <1>3. PICK c \in Components : Walk(p)[V][c] /\ \A d \in V : p[d] \in V \union {c}
    OBVIOUS
  <1>4. c \in V
    <2> SUFFICES ASSUME c \notin V PROVE FALSE
      OBVIOUS
    <2>1. p[c] \in Components /\ Walk(p)[V \union {c}][p[c]]
      BY <1>3, WalkSteps
    <2>2. V \union {c} \in F
      BY <1>3, <2>1
    <2> QED
      BY <1>2, <2>2
  <1>5. V # {} /\ \A d \in V : p[d] \in V
    BY <1>3, <1>4
  <1> QED
    BY <1>5

\* The diagnostics find every defect of a graph, however long its cycles, and report
\* nothing else (model.go graphDiagnostics).
THEOREM DiagnosticsAreExact ==
    ASSUME NEW p, NEW e, Graph(p, e)
    PROVE  NoDiagnostics(p, e) <=> Sound(p, e)
  <1> USE DEF LiveComponents, LiveRelationships
  <1>0. /\ p \in [Components -> Components \union {Top, Absent}]
        /\ e \in [Relationships -> (Components \X Components) \union {Absent}]
    BY DEF Graph, ComponentRows, RelationshipRows
  <1>1. MissingParents(p) = {} <=> \A c \in LiveComponents(p) : p[c] \in LiveComponents(p) \union {Top}
    BY DEF MissingParents
  <1>2. MissingEndpoints(p, e) = {}
            <=> \A r \in LiveRelationships(e) : e[r] \in LiveComponents(p) \X LiveComponents(p)
    <2>1. ASSUME NEW r \in LiveRelationships(e)
          PROVE  (\A i \in {1, 2} : e[r][i] \in LiveComponents(p))
                    <=> e[r] \in LiveComponents(p) \X LiveComponents(p)
      <3>1. e[r] \in Components \X Components
        BY <1>0
      <3> QED
        BY <3>1
    <2> QED
      BY <2>1 DEF MissingEndpoints
  <1>3. ASSUME InCycles(p) # {}
        PROVE  \E S \in SUBSET LiveComponents(p) : S # {} /\ \A c \in S : p[c] \in S
    <2>1. PICK c \in Components : Walk(p)[{}][c]
      BY <1>3 DEF InCycles
    <2>2. PICK S \in SUBSET Components : S # {} /\ \A d \in S : p[d] \in S
      BY <2>1, CycleIsAClosedSet
    <2>3. S \subseteq LiveComponents(p)
      BY <2>2, ModelAssumption DEF ModelAssumption
    <2> QED
      BY <2>2, <2>3
  <1>4. ASSUME NEW S \in SUBSET LiveComponents(p), S # {}, \A c \in S : p[c] \in S
        PROVE  InCycles(p) # {}
    <2>1. PICK c \in S : Walk(p)[{}][c]
      BY <1>4, ClosedSetIsACycle
    <2> QED
      BY <2>1 DEF InCycles
  <1>5. InCycles(p) = {} <=> \A S \in SUBSET LiveComponents(p) : S # {} => \E c \in S : p[c] \notin S
    BY <1>3, <1>4
  <1> QED
    BY <1>1, <1>2, <1>5 DEF NoDiagnostics, Sound

-----------------------------------------------------------------------------
(* What was accepted is sound.                                                  *)

LEMMA StepSound ==
    ASSUME ModelInv, AcceptedModelIsSound, [Next]_vars
    PROVE  AcceptedModelIsSound'
  <1>1. CASE UNCHANGED vars
    BY <1>1 DEF vars, AcceptedModelIsSound
  <1>2. ASSUME NEW a \in Agents, Read(a)
        PROVE  AcceptedModelIsSound'
    BY <1>2 DEF Read, AcceptedModelIsSound
  <1>3. ASSUME NEW p \in [Components -> ComponentRows],
               NEW e \in [Relationships -> RelationshipRows], Effect(p, e)
        PROVE  AcceptedModelIsSound'
    <2>1. NoDiagnostics(p, e) /\ parent' = p /\ ends' = e
      BY <1>3 DEF Effect, Finish
    <2>2. Sound(p, e)
      BY <2>1, DiagnosticsAreExact DEF Graph
    <2> QED
      BY <2>1, <2>2 DEF AcceptedModelIsSound
  <1> QED
    BY <1>1, <1>2, <1>3, StepCases DEF ModelInv

\* Once a write was accepted the hierarchy is a forest and no reference dangles, for any
\* number of components and whatever legacy graph the project began with (model.go
\* finishModelWrite).
THEOREM AcceptedModelsAreSound == Spec => []AcceptedModelIsSound
  <1>1. Init => AcceptedModelIsSound
    BY DEF Init, AcceptedModelIsSound
  <1>2. ModelInv /\ AcceptedModelIsSound /\ [Next]_vars => AcceptedModelIsSound'
    BY StepSound
  <1> QED
    BY <1>1, <1>2, ModelInvariant, PTL DEF Spec

-----------------------------------------------------------------------------
(* The saved views (SavedViews).                                                *)

Definition == [all : BOOLEAN, components : SUBSET Components,
               relationships : SUBSET Relationships, collapsed : SUBSET Components]
ViewRow == [revision : Nat, removed : BOOLEAN, definition : Definition]

ViewTypes ==
    /\ views \in [Views -> ViewRow]
    /\ viewReadAt \in [Agents -> [Views -> Nat]]
    /\ savedAt \in [Views -> Nat]
    /\ outdated \subseteq Agents \X Views

\* Nobody has read a revision of a view that is still to come, and whoever does not know
\* the view as it is has read an earlier one.
ReadsAreBehind ==
    \A a \in Agents, v \in Views :
        /\ viewReadAt[a][v] <= views[v].revision
        /\ <<a, v>> \in outdated => viewReadAt[a][v] < views[v].revision

\* What a view refers to was live when it was saved, and if the model has not moved on
\* since, it still is.
ReferencesWereLive ==
    \A v \in Views :
        /\ views[v].definition.components \union views[v].definition.relationships
               \union views[v].definition.collapsed \subseteq used
        /\ views[v].definition.all => /\ views[v].definition.components = {}
                                      /\ views[v].definition.relationships = {}
        /\ savedAt[v] <= revision
        /\ savedAt[v] = revision /\ views[v].revision > 0
               => MissingOf(views[v].definition, parent, ends) = {}

ViewsInv == ModelInv /\ ViewTypes /\ ReadsAreBehind /\ ReferencesWereLive

LEMMA InitViews == ViewsInit => ViewsInv
  <1> SUFFICES ASSUME ViewsInit PROVE ViewsInv
    OBVIOUS
  <1>1. ModelInv /\ revision = 0
    BY InitModel DEF ViewsInit, Init
  <1>2. NoView \in ViewRow /\ NoView.revision = 0
    BY DEF NoView, ViewRow, Definition
  <1>3. /\ NoView.definition.components = {} /\ NoView.definition.relationships = {}
        /\ NoView.definition.collapsed = {}
    BY DEF NoView
  <1>4. ViewTypes
    BY <1>2 DEF ViewsInit, ViewTypes
  <1>5. ReadsAreBehind
    BY <1>2 DEF ViewsInit, ReadsAreBehind
  <1>6. ReferencesWereLive
    BY <1>1, <1>2, <1>3 DEF ViewsInit, ReferencesWereLive
  <1> QED
    BY <1>1, <1>4, <1>5, <1>6 DEF ViewsInv

\* A command or a capture of a view leaves the model alone.
LEMMA ModelRests ==
    ASSUME ModelInv, writer' = NoAgent,
           UNCHANGED <<parent, ends, identities, revision, readAt, used, behind>>
    PROVE  ModelInv'
  BY DEF ModelInv, TypeOK, RevisionIdentifiesGraph

\* Every step of the views is a step of the model, or a command or capture of one view.
LEMMA ViewSteps ==
    ASSUME ViewsInv, [ViewsNext]_<<vars, viewVars>>
    PROVE  \/ [Next]_vars /\ UNCHANGED <<views, viewReadAt, savedAt, outdated>> /\ reader' \in {<<>>, reader}
           \/ \E a \in Agents, v \in Views :
                  \/ ReadView(a, v)
                  \/ \E definition \in Definitions : SaveView(a, v, definition)
                  \/ RemoveView(a, v)
                  \/ CaptureView(a, v)
  BY DEF ViewsNext, WriteModel, viewVars

\* What a view refers to and the model has lost never comes back.
LEMMA LostStaysLost ==
    ASSUME ViewsInv, [Next]_vars, NEW v \in Views
    PROVE  MissingOf(views[v].definition, parent, ends) \subseteq MissingOf(views[v].definition, parent', ends')
  <1> DEFINE d == views[v].definition
  <1>1. used \intersect (Live(parent', ends') \ Live(parent, ends)) = {}
    BY NothingRevived DEF ViewsInv
  <1>2. d \in Definition
    BY DEF ViewsInv, ViewTypes, ViewRow
  <1>3. d.components \union d.relationships \union d.collapsed \subseteq used
    BY DEF ViewsInv, ReferencesWereLive
  <1>4. Components \intersect Relationships = {}
    BY ModelAssumption DEF ModelAssumption
  <1> HIDE DEF d
  <1>5. LiveComponents(parent) \subseteq Components /\ LiveRelationships(ends) \subseteq Relationships
    BY DEF LiveComponents, LiveRelationships
  <1>6. ASSUME NEW x \in (d.components \union d.collapsed) \ LiveComponents(parent)
        PROVE  x \notin LiveComponents(parent')
    <2>1. x \in Components /\ x \in used
      BY <1>2, <1>3 DEF Definition
    <2>2. x \notin Live(parent, ends)
      BY <1>4, <1>5, <2>1 DEF Live
    <2> QED
      BY <1>1, <2>1, <2>2 DEF Live
  <1>7. ASSUME NEW x \in d.relationships \ LiveRelationships(ends)
        PROVE  x \notin LiveRelationships(ends')
    <2>1. x \in Relationships /\ x \in used
      BY <1>2, <1>3 DEF Definition
    <2>2. x \notin Live(parent, ends)
      BY <1>4, <1>5, <2>1 DEF Live
    <2> QED
      BY <1>1, <2>1, <2>2 DEF Live
  <1> SUFFICES MissingOf(d, parent, ends) \subseteq MissingOf(d, parent', ends')
    BY DEF d
  <1>8. CASE d.all
    BY <1>6, <1>8 DEF MissingOf, Selects, SelectsEdges
  <1>9. CASE ~d.all
    BY <1>6, <1>7, <1>9 DEF MissingOf, Selects, SelectsEdges
  <1> QED
    BY <1>8, <1>9

\* A step of the model reserves more, and changes the graph with the revision only.
LEMMA ModelMovesOn ==
    ASSUME ModelInv, [Next]_vars
    PROVE  /\ used \subseteq used' /\ revision <= revision'
           /\ revision' = revision => parent' = parent /\ ends' = ends
  <1>1. revision \in Nat
    BY ModelAssumption DEF ModelAssumption, ModelInv, TypeOK
  <1>2. CASE UNCHANGED vars
    BY <1>1, <1>2 DEF vars
  <1>3. ASSUME NEW a \in Agents, Read(a)
        PROVE  used \subseteq used' /\ revision' = revision /\ parent' = parent /\ ends' = ends
    BY <1>3 DEF Read
  <1>4. ASSUME NEW p, NEW e, Effect(p, e)
        PROVE  used \subseteq used' /\ revision' = revision + 1
    BY <1>4 DEF Effect, Finish, NextRevision
  <1> QED
    BY <1>1, <1>2, <1>3, <1>4, StepCases DEF ModelInv

LEMMA ModelStepKeepsViews ==
    ASSUME ViewsInv, [Next]_vars, UNCHANGED <<views, viewReadAt, savedAt, outdated>>
    PROVE  ViewsInv'
  <1>1. ModelInv'
    BY StepModel DEF ViewsInv
  <1>2. ViewTypes' /\ ReadsAreBehind'
    BY DEF ViewsInv, ViewTypes, ReadsAreBehind
  <1>3. /\ used \subseteq used' /\ revision <= revision'
        /\ revision' = revision => parent' = parent /\ ends' = ends
    BY ModelMovesOn DEF ViewsInv
  <1>4. revision \in Nat /\ revision' \in Nat /\ \A v \in Views : savedAt[v] \in Nat
    BY <1>1, ModelAssumption DEF ModelAssumption, ViewsInv, ModelInv, TypeOK, ViewTypes
  <1>5. ReferencesWereLive'
    BY <1>3, <1>4 DEF ViewsInv, ReferencesWereLive
  <1> QED
    BY <1>1, <1>2, <1>5 DEF ViewsInv

LEMMA ReadViewKeeps ==
    ASSUME ViewsInv, NEW a \in Agents, NEW v \in Views, ReadView(a, v)
    PROVE  ViewsInv'
  <1> USE DEF ReadView
  <1>1. ModelInv'
    BY ReadKeeps DEF ViewsInv
  <1>2. ViewTypes'
    BY DEF ViewsInv, ViewTypes, ViewRow
  <1>3. \A b \in Agents, w \in Views :
            viewReadAt'[b][w] = IF b = a /\ w = v THEN views[v].revision ELSE viewReadAt[b][w]
    BY DEF ViewsInv, ViewTypes
  <1>4. ReadsAreBehind'
    <2> SUFFICES ASSUME NEW b \in Agents, NEW w \in Views
                 PROVE  /\ viewReadAt'[b][w] <= views[w].revision
                        /\ <<b, w>> \in outdated' => viewReadAt'[b][w] < views[w].revision
      BY DEF ReadsAreBehind
    <2>1. views[w].revision \in Nat
      BY DEF ViewsInv, ViewTypes, ViewRow
    <2>2. CASE b = a /\ w = v
      BY <1>3, <2>1, <2>2
    <2>3. CASE ~(b = a /\ w = v)
      BY <1>3, <2>3 DEF ViewsInv, ReadsAreBehind
    <2> QED
      BY <2>2, <2>3
  <1>5. ReferencesWereLive'
    BY DEF Read, ViewsInv, ReferencesWereLive
  <1> QED
    BY <1>1, <1>2, <1>4, <1>5 DEF ViewsInv

\* A row that is written is one revision on, and nobody has read it yet.
LEMMA WriteKeepsReads ==
    ASSUME ViewsInv, NEW a \in Agents, NEW v \in Views, NEW row \in ViewRow, Write(a, v, row)
    PROVE  /\ ModelInv' /\ ReadsAreBehind'
           /\ views' \in [Views -> ViewRow] /\ outdated' \subseteq Agents \X Views
           /\ views'[v].definition = row.definition /\ views'[v].removed = row.removed
           /\ views'[v].revision = views[v].revision + 1
           /\ \A w \in Views \ {v} : views'[w] = views[w]
  <1> DEFINE new == [row EXCEPT !.revision = views[v].revision + 1]
  <1>1. views[v].revision \in Nat /\ views \in [Views -> ViewRow]
    BY DEF ViewsInv, ViewTypes, ViewRow
  <1>2. /\ new \in ViewRow /\ new.revision = views[v].revision + 1
        /\ new.definition = row.definition /\ new.removed = row.removed
    BY <1>1 DEF ViewRow
  <1>3. views' = [views EXCEPT ![v] = new]
    BY DEF Write
  <1> HIDE DEF new
  <1>4. views' \in [Views -> ViewRow] /\ views'[v] = new /\ \A w \in Views \ {v} : views'[w] = views[w]
    BY <1>1, <1>2, <1>3
  <1>5. ModelInv'
    BY ModelRests DEF Write, ViewsInv
  <1>6. UNCHANGED viewReadAt /\ outdated' = outdated \union (Agents \X {v})
    BY DEF Write
  <1>7. ReadsAreBehind'
    <2> SUFFICES ASSUME NEW b \in Agents, NEW w \in Views
                 PROVE  /\ viewReadAt[b][w] <= views'[w].revision
                        /\ <<b, w>> \in outdated' => viewReadAt[b][w] < views'[w].revision
      BY <1>6 DEF ReadsAreBehind
    <2>1. viewReadAt[b][w] \in Nat /\ viewReadAt[b][w] <= views[w].revision
      BY DEF ViewsInv, ViewTypes, ReadsAreBehind
    <2>2. CASE w = v
      BY <1>1, <1>2, <1>4, <2>1, <2>2
    <2>3. CASE w # v
      <3>1. <<b, w>> \in outdated' => <<b, w>> \in outdated
        BY <1>6, <2>3
      <3> QED
        BY <1>4, <2>3, <3>1 DEF ViewsInv, ReadsAreBehind
    <2> QED
      BY <2>2, <2>3
  <1> QED
    BY <1>2, <1>4, <1>5, <1>6, <1>7 DEF ViewsInv, ViewTypes

LEMMA SaveViewKeeps ==
    ASSUME ViewsInv, NEW a \in Agents, NEW v \in Views, NEW definition \in Definitions,
           SaveView(a, v, definition)
    PROVE  ViewsInv'
  <1> DEFINE row == [views[v] EXCEPT !.definition = definition]
  <1>1. /\ definition \in Definition
        /\ definition.all => definition.components = {} /\ definition.relationships = {}
    <2>1. ASSUME NEW c \in SUBSET Components,
                 definition = [all |-> TRUE, components |-> {}, relationships |-> {}, collapsed |-> c]
          PROVE  definition \in Definition /\ definition.components = {} /\ definition.relationships = {}
      BY <2>1 DEF Definition
    <2>2. ASSUME NEW s \in SUBSET Components, NEW r \in SUBSET Relationships,
                 definition = [all |-> FALSE, components |-> s, relationships |-> r, collapsed |-> {}]
          PROVE  definition \in Definition /\ ~definition.all
      BY <2>2 DEF Definition
    <2> QED
      BY <2>1, <2>2 DEF Definitions
  <1>2. row \in ViewRow /\ row.definition = definition
    BY <1>1 DEF ViewsInv, ViewTypes, ViewRow
  <1>3. Write(a, v, row) /\ savedAt' = [savedAt EXCEPT ![v] = revision]
        /\ MissingOf(definition, parent, ends) = {}
    BY DEF SaveView, Valid
  <1> HIDE DEF row
  <1>4. /\ ModelInv' /\ ReadsAreBehind'
        /\ views' \in [Views -> ViewRow] /\ outdated' \subseteq Agents \X Views
        /\ views'[v].definition = definition
        /\ \A w \in Views \ {v} : views'[w] = views[w]
    BY <1>2, <1>3, WriteKeepsReads
  <1>5. UNCHANGED <<parent, ends, used, revision, viewReadAt>>
    BY <1>3 DEF Write
  <1>6. revision \in Nat
    BY ModelAssumption DEF ModelAssumption, ViewsInv, ModelInv, TypeOK
  <1>7. ViewTypes'
    BY <1>3, <1>4, <1>5, <1>6 DEF ViewsInv, ViewTypes
  <1>8. definition.components \union definition.relationships \union definition.collapsed \subseteq used
    <2>1. definition.components \union definition.relationships \union definition.collapsed
              \subseteq Live(parent, ends)
      BY <1>1, <1>3 DEF MissingOf, Selects, SelectsEdges, Live
    <2> QED
      BY <2>1 DEF ViewsInv, ModelInv
  <1>9. ReferencesWereLive'
    <2> SUFFICES ASSUME NEW w \in Views
                 PROVE  /\ views'[w].definition.components \union views'[w].definition.relationships
                               \union views'[w].definition.collapsed \subseteq used
                        /\ views'[w].definition.all => /\ views'[w].definition.components = {}
                                                       /\ views'[w].definition.relationships = {}
                        /\ savedAt'[w] <= revision
                        /\ savedAt'[w] = revision /\ views'[w].revision > 0
                               => MissingOf(views'[w].definition, parent, ends) = {}
      BY <1>5 DEF ReferencesWereLive
    <2>1. CASE w = v
      BY <1>1, <1>3, <1>4, <1>6, <1>8, <2>1 DEF ViewsInv, ViewTypes
    <2>2. CASE w # v
      BY <1>3, <1>4, <2>2 DEF ViewsInv, ViewTypes, ReferencesWereLive
    <2> QED
      BY <2>1, <2>2
  <1> QED
    BY <1>4, <1>7, <1>9 DEF ViewsInv

LEMMA RemoveViewKeeps ==
    ASSUME ViewsInv, NEW a \in Agents, NEW v \in Views, RemoveView(a, v)
    PROVE  ViewsInv'
  <1> DEFINE row == [views[v] EXCEPT !.removed = TRUE]
  <1>1. row \in ViewRow /\ row.definition = views[v].definition
    BY DEF ViewsInv, ViewTypes, ViewRow
  <1>2. Write(a, v, row) /\ UNCHANGED savedAt /\ views[v].revision > 0
    BY DEF RemoveView, IsThere
  <1> HIDE DEF row
  <1>3. /\ ModelInv' /\ ReadsAreBehind'
        /\ views' \in [Views -> ViewRow] /\ outdated' \subseteq Agents \X Views
        /\ views'[v].definition = views[v].definition
        /\ \A w \in Views \ {v} : views'[w] = views[w]
    BY <1>1, <1>2, WriteKeepsReads
  <1>4. UNCHANGED <<parent, ends, used, revision, viewReadAt>>
    BY <1>2 DEF Write
  <1>5. ViewTypes'
    BY <1>2, <1>3, <1>4 DEF ViewsInv, ViewTypes
  <1>6. \A w \in Views : views'[w].definition = views[w].definition
                          /\ (views'[w].revision > 0 => views[w].revision > 0)
    BY <1>2, <1>3
  <1>7. ReferencesWereLive'
    BY <1>2, <1>4, <1>6 DEF ViewsInv, ReferencesWereLive
  <1> QED
    BY <1>3, <1>5, <1>7 DEF ViewsInv

LEMMA CaptureViewKeeps ==
    ASSUME ViewsInv, NEW a \in Agents, NEW v \in Views, CaptureView(a, v)
    PROVE  ViewsInv'
  <1> USE DEF CaptureView
  <1>1. ModelInv'
    BY ModelRests DEF ViewsInv
  <1>2. ViewTypes' /\ ReadsAreBehind' /\ ReferencesWereLive'
    BY DEF ViewsInv, ViewTypes, ReadsAreBehind, ReferencesWereLive
  <1> QED
    BY <1>1, <1>2 DEF ViewsInv

LEMMA StepViews == ViewsInv /\ [ViewsNext]_<<vars, viewVars>> => ViewsInv'
  BY ViewSteps, ModelStepKeepsViews, ReadViewKeeps, SaveViewKeeps, RemoveViewKeeps, CaptureViewKeeps

\* The inductive invariant of the views: what is read is behind, what is referred to was
\* live (view_commands.go prepareViewWrite, validateViewReferences).
THEOREM ViewsInvariant == ViewsSpec => []ViewsInv
  <1> QED
    BY InitViews, StepViews, PTL DEF ViewsSpec

LEMMA CommandsAreSighted ==
    ASSUME ViewsInv, [ViewsNext]_<<vars, viewVars>>
    PROVE  [ViewsAreRead]_<<vars, viewVars>>
  <1> SUFFICES ASSUME NEW b \in Agents, NEW w \in Views, reader' = <<b, w>>,
                      ~UNCHANGED <<vars, viewVars>>
               PROVE  /\ <<b, w>> \notin outdated
                      /\ views'[w].removed \/ b \notin behind
    BY DEF ViewsAreRead
  <1>1. <<b, w>> # <<>>
    OBVIOUS
  <1>2. \A a \in Agents, v \in Views : viewReadAt[a][v] = views[v].revision => <<a, v>> \notin outdated
    BY DEF ViewsInv, ViewTypes, ViewRow, ReadsAreBehind
  <1>3. \A a \in Agents : readAt[a] = revision => a \notin behind
    <2>1. revision \in Nat
      BY ModelAssumption DEF ModelAssumption, ViewsInv, ModelInv, TypeOK
    <2> QED
      BY <2>1 DEF ViewsInv, ModelInv, RevisionIdentifiesGraph
  <1>4. ASSUME NEW a \in Agents, NEW v \in Views, NEW definition \in Definitions,
               SaveView(a, v, definition)
        PROVE  <<a, v>> = <<b, w>> /\ ExpectedView(a, v) /\ Expected(a)
    BY <1>4 DEF SaveView, Write
  <1>5. ASSUME NEW a \in Agents, NEW v \in Views, CaptureView(a, v)
        PROVE  <<a, v>> = <<b, w>> /\ ExpectedView(a, v) /\ Expected(a)
    BY <1>5 DEF CaptureView
  <1>6. ASSUME NEW a \in Agents, NEW v \in Views, RemoveView(a, v)
        PROVE  <<a, v>> = <<b, w>> /\ ExpectedView(a, v) /\ views'[v].removed
    <2> DEFINE row == [views[v] EXCEPT !.removed = TRUE]
    <2>1. row \in ViewRow /\ row.removed
      BY DEF ViewsInv, ViewTypes, ViewRow
    <2>2. Write(a, v, row) /\ ExpectedView(a, v)
      BY <1>6 DEF RemoveView
    <2>3. reader' = <<a, v>>
      BY <2>2 DEF Write
    <2> HIDE DEF row
    <2> QED
      BY <2>1, <2>2, <2>3, WriteKeepsReads
  <1>7. CASE \E a \in Agents, v \in Views :
                 \/ \E definition \in Definitions : SaveView(a, v, definition)
                 \/ RemoveView(a, v) \/ CaptureView(a, v)
    <2>1. PICK a \in Agents, v \in Views :
                 \/ \E definition \in Definitions : SaveView(a, v, definition)
                 \/ RemoveView(a, v) \/ CaptureView(a, v)
      BY <1>7
    <2>2. /\ <<a, v>> = <<b, w>> /\ ExpectedView(a, v)
          /\ Expected(a) \/ views'[v].removed
      BY <1>4, <1>5, <1>6, <2>1
    <2>3. a = b /\ v = w
      BY <2>2
    <2> QED
      BY <1>2, <1>3, <2>2, <2>3 DEF ExpectedView, Expected
  <1>8. CASE \E a \in Agents, v \in Views : ReadView(a, v)
    BY <1>1, <1>8 DEF ReadView
  <1>9. CASE WriteModel
    BY <1>1, <1>9 DEF WriteModel
  <1> QED
    BY <1>7, <1>8, <1>9 DEF ViewsNext

LEMMA LossesAreFinal ==
    ASSUME ViewsInv, [ViewsNext]_<<vars, viewVars>>
    PROVE  ViewsMissWhatIsGone
  <1>1. ViewsInv'
    BY StepViews
  <1>2. ASSUME NEW v \in Views, savedAt'[v] = revision', views'[v].revision > 0
        PROVE  MissingOf(views'[v].definition, parent', ends') = {}
    BY <1>1, <1>2 DEF ViewsInv, ReferencesWereLive
  <1>3. ASSUME NEW v \in Views, views[v].definition = views'[v].definition
        PROVE  MissingOf(views[v].definition, parent, ends)
                   \subseteq MissingOf(views'[v].definition, parent', ends')
    <2>1. CASE [Next]_vars
      BY <1>3, <2>1, LostStaysLost
    <2>2. CASE UNCHANGED <<parent, ends>>
      BY <1>3, <2>2
    <2>3. ASSUME NEW a \in Agents, NEW u \in Views
          PROVE  /\ ReadView(a, u) => UNCHANGED <<parent, ends>>
                 /\ \A definition \in Definitions : SaveView(a, u, definition) => UNCHANGED <<parent, ends>>
                 /\ RemoveView(a, u) => UNCHANGED <<parent, ends>>
                 /\ CaptureView(a, u) => UNCHANGED <<parent, ends>>
      BY DEF ReadView, Read, SaveView, RemoveView, CaptureView, Write
    <2> QED
      BY <2>1, <2>2, <2>3, ViewSteps
  <1>4. ASSUME NEW v \in Views, views[v].removed
        PROVE  views'[v] = views[v]
    <2>1. ASSUME NEW a \in Agents, NEW u \in Views, NEW definition \in Definitions,
                 SaveView(a, u, definition)
          PROVE  views'[v] = views[v]
      <3>1. u # v /\ Write(a, u, [views[u] EXCEPT !.definition = definition])
        BY <1>4, <2>1 DEF SaveView
      <3> QED
        BY <3>1 DEF Write, ViewsInv, ViewTypes
    <2>2. ASSUME NEW a \in Agents, NEW u \in Views, RemoveView(a, u)
          PROVE  views'[v] = views[v]
      <3>1. u # v /\ Write(a, u, [views[u] EXCEPT !.removed = TRUE])
        BY <1>4, <2>2 DEF RemoveView, IsThere
      <3> QED
        BY <3>1 DEF Write, ViewsInv, ViewTypes
    <2>3. ASSUME NEW a \in Agents, NEW u \in Views, ReadView(a, u) \/ CaptureView(a, u)
          PROVE  views'[v] = views[v]
      BY <2>3 DEF ReadView, CaptureView
    <2> QED
      BY <2>1, <2>2, <2>3, ViewSteps
  <1> QED
    BY <1>2, <1>3, <1>4 DEF ViewsMissWhatIsGone

\* A view is saved, removed or rendered only as its agent has read it, and on the model it
\* has read; what a view misses is gone for good, and a removed view stays removed
\* (view_commands.go:60-134, views.go:55-74).
THEOREM ViewsAreReadAndKept ==
    ViewsSpec => [][ViewsAreRead /\ ViewsMissWhatIsGone]_<<vars, viewVars>>
  <1>1. ViewsInv /\ [ViewsNext]_<<vars, viewVars>>
            => [ViewsAreRead /\ ViewsMissWhatIsGone]_<<vars, viewVars>>
    BY CommandsAreSighted, LossesAreFinal
  <1> QED
    BY <1>1, ViewsInvariant, PTL DEF ViewsSpec

-----------------------------------------------------------------------------
(* The migration: what is read from a log of any length.                        *)

\* A set of numbers has a least one.
LEMMA LeastNumber ==
    ASSUME NEW T \in SUBSET Nat, T # {}
    PROVE  \E m \in T : \A n \in T : m <= n
  <1> DEFINE Less == {ss \in Nat \X Nat : ss[1] < ss[2]}
  <1>1. IsWellFoundedOn(Less, Nat)
    BY NatLessThanWellFounded DEF OpToRel
  <1> HIDE DEF Less
  <1>2. PICK m \in T : \A n \in T : ~(<<n, m>> \in Less)
    BY <1>1, WFMin
  <1>3. ASSUME NEW n \in T PROVE m <= n
    <2>1. n \in Nat /\ m \in Nat
      OBVIOUS
    <2>2. <<n, m>> \notin Less
      BY <1>2
    <2> QED
      BY <2>1, <2>2 DEF Less
  <1> QED
    BY <1>3

\* The replay, as a function of the number of events it has read.
IsReplay(f, last) ==
    f = [n \in 0..last |-> IF n = 0 THEN Nothing ELSE Found(f[n - 1], log[n])]

LEMMA ReplayExists ==
    ASSUME NEW last \in Nat
    PROVE  \E f : IsReplay(f, last)
  <1> DEFINE Endless == {n \in Nat : ~ \E f : IsReplay(f, n)}
  <1> SUFFICES ASSUME Endless # {} PROVE FALSE
    OBVIOUS
  <1>1. PICK n \in Endless : \A m \in Endless : n <= m
    BY LeastNumber
  <1>2. n # 0
    <2> DEFINE f == [k \in 0..0 |-> Nothing]
    <2>1. IsReplay(f, 0)
      BY DEF IsReplay
    <2> QED
      BY <2>1
  <1>3. n - 1 \in Nat /\ n - 1 \notin Endless
    BY <1>1, <1>2
  <1>4. PICK g : IsReplay(g, n - 1)
    BY <1>3
  <1> DEFINE f == [k \in 0..n |-> IF k = n THEN Found(g[n - 1], log[n]) ELSE g[k]]
  <1>5. ASSUME NEW k \in 0..n
        PROVE  f[k] = IF k = 0 THEN Nothing ELSE Found(f[k - 1], log[k])
    <2>1. k # n => k \in 0..(n - 1)
      BY <1>1
    <2>2. k # 0 => k - 1 \in 0..n /\ k - 1 # n
      BY <1>1
    <2>3. k # n => g[k] = IF k = 0 THEN Nothing ELSE Found(g[k - 1], log[k])
      BY <1>4, <2>1 DEF IsReplay
    <2> QED
      BY <1>2, <2>2, <2>3
  <1>6. f = [k \in 0..n |-> IF k = 0 THEN Nothing ELSE Found(f[k - 1], log[k])]
    <2> DEFINE h == [k \in 0..n |-> IF k = 0 THEN Nothing ELSE Found(f[k - 1], log[k])]
    <2>1. \A k \in 0..n : f[k] = h[k]
      BY <1>5
    <2> QED
      BY <2>1
  <1>7. IsReplay(f, n)
    BY <1>6 DEF IsReplay
  <1> QED
    BY <1>1, <1>7

\* An id is live after so many events: one of them wrote a row for it, and none has
\* taken it away since.
LiveAfter(id, n) ==
    \E j \in 1..n :
        /\ id \in Materialised(log[j])
        /\ \A k \in (j + 1)..n : id \in After({id}, log[k])

\* What the replay has found in so many events.
FindsWhatIs(f, n) ==
    /\ f[n].live \subseteq Ids /\ f[n].ids \subseteq Ids /\ f[n].reused \subseteq Ids
    /\ \A id \in Ids :
           /\ id \in f[n].ids <=> \E i \in 1..n : id \in Materialised(log[i])
           /\ id \in f[n].live <=> LiveAfter(id, n)
           /\ id \in f[n].reused <=> UsedAgain(id, n)

\* The rows of an event, and what it leaves of an id.
LEMMA EffectFacts ==
    ASSUME NEW effect \in Effects, NEW ids \in SUBSET Ids
    PROVE  /\ Materialised(effect) \subseteq Ids /\ After(ids, effect) \subseteq Ids
           /\ \A id \in Ids :
                  id \in After(ids, effect) <=>
                      id \in Materialised(effect) \/ (id \in ids /\ id \in After({id}, effect))
  <1>1. effect.kind \in {"snapshot", "write", "remove", "none"} /\ effect.ids \subseteq Ids
    BY DEF Effects
  <1>2. CASE effect.kind = "snapshot"
    BY <1>1, <1>2 DEF Materialised, After
  <1>3. CASE effect.kind = "write"
    BY <1>1, <1>3 DEF Materialised, After
  <1>4. CASE effect.kind = "remove"
    BY <1>1, <1>4 DEF Materialised, After
  <1>5. CASE effect.kind = "none"
    BY <1>1, <1>5 DEF Materialised, After
  <1> QED
    BY <1>1, <1>2, <1>3, <1>4, <1>5

\* One event more.
LEMMA FindsOneMore ==
    ASSUME log \in Seq(Effects), NEW f, NEW n \in 1..Len(log), FindsWhatIs(f, n - 1),
           f[n] = Found(f[n - 1], log[n])
    PROVE  FindsWhatIs(f, n)
  <1> DEFINE effect == log[n]
             m == n - 1
  <1>1. effect \in Effects /\ n \in Nat /\ n >= 1 /\ m \in Nat /\ n = m + 1
    OBVIOUS
  <1>2. /\ f[n].live = After(f[m].live, effect)
        /\ f[n].ids = f[m].ids \cup Materialised(effect)
        /\ f[n].reused = f[m].reused \cup ((Materialised(effect) \cap f[m].ids) \ f[m].live)
    BY DEF Found
  <1>3. f[m].live \subseteq Ids /\ f[m].ids \subseteq Ids /\ f[m].reused \subseteq Ids
    BY DEF FindsWhatIs
  <1>4. Materialised(effect) \subseteq Ids
    BY <1>1, EffectFacts
  <1>5. f[n].live \subseteq Ids /\ f[n].ids \subseteq Ids /\ f[n].reused \subseteq Ids
    BY <1>1, <1>2, <1>3, <1>4, EffectFacts
  <1> SUFFICES ASSUME NEW id \in Ids
               PROVE  /\ id \in f[n].ids <=> \E i \in 1..n : id \in Materialised(log[i])
                      /\ id \in f[n].live <=> LiveAfter(id, n)
                      /\ id \in f[n].reused <=> UsedAgain(id, n)
    BY <1>5 DEF FindsWhatIs
  <1>6. /\ id \in f[m].ids <=> \E i \in 1..m : id \in Materialised(log[i])
        /\ id \in f[m].live <=> LiveAfter(id, m)
        /\ id \in f[m].reused <=> UsedAgain(id, m)
    BY DEF FindsWhatIs
  <1>7. \A i : i \in 1..n <=> i \in 1..m \/ i = n
    BY <1>1
  <1>8. id \in f[n].live <=> id \in Materialised(effect) \/ (id \in f[m].live /\ id \in After({id}, effect))
    BY <1>1, <1>2, <1>3, EffectFacts
  \* What an event writes a row for, it does not take away.
  <1>9. \A j \in 1..n : id \in Materialised(log[j]) => id \in After({id}, log[j])
    <2> TAKE j \in 1..n
    <2>1. log[j] \in Effects
      BY <1>1
    <2> QED
      BY <2>1, EffectFacts
  <1> HIDE DEF m, effect
  <1>10. id \in f[n].ids <=> \E i \in 1..n : id \in Materialised(log[i])
    BY <1>2, <1>6, <1>7 DEF effect
  <1>11. id \in f[n].live <=> LiveAfter(id, n)
    <2>1. ASSUME LiveAfter(id, n) PROVE id \in f[n].live
      <3>1. PICK j \in 1..n : /\ id \in Materialised(log[j])
                              /\ \A k \in (j + 1)..n : id \in After({id}, log[k])
        BY <2>1 DEF LiveAfter
      <3>2. CASE j = n
        BY <1>8, <3>1, <3>2 DEF effect
      <3>3. CASE j # n
        <4>1. j \in 1..m /\ n \in (j + 1)..n /\ \A k \in (j + 1)..m : k \in (j + 1)..n
          BY <1>1, <3>3
        <4>2. LiveAfter(id, m)
          BY <3>1, <4>1 DEF LiveAfter
        <4> QED
          BY <1>6, <1>8, <3>1, <4>1, <4>2 DEF effect
      <3> QED
        BY <3>2, <3>3
    <2>2. ASSUME id \in Materialised(effect) PROVE LiveAfter(id, n)
      <3>1. \A k \in (n + 1)..n : FALSE
        BY <1>1
      <3> QED
        BY <2>2, <3>1 DEF LiveAfter, effect
    <2>3. ASSUME LiveAfter(id, m), id \in After({id}, effect) PROVE LiveAfter(id, n)
      <3>1. PICK j \in 1..m : /\ id \in Materialised(log[j])
                              /\ \A k \in (j + 1)..m : id \in After({id}, log[k])
        BY <2>3 DEF LiveAfter
      <3>2. j \in 1..n /\ \A k \in (j + 1)..n : k \in (j + 1)..m \/ k = n
        BY <1>1
      <3> QED
        BY <2>3, <3>1, <3>2 DEF LiveAfter, effect
    <2> QED
      BY <1>6, <1>8, <2>1, <2>2, <2>3
  <1>12. ASSUME id \in f[n].reused PROVE UsedAgain(id, n)
    <2>1. CASE id \in f[m].reused
      <3>1. UsedAgain(id, m)
        BY <1>6, <2>1
      <3> QED
        BY <1>7, <3>1 DEF UsedAgain
    <2>2. CASE id \in Materialised(effect) /\ id \in f[m].ids /\ id \notin f[m].live
      <3>1. PICK i \in 1..m : id \in Materialised(log[i])
        BY <1>6, <2>2
      <3>2. PICK k \in (i + 1)..m : id \notin After({id}, log[k])
        BY <1>6, <2>2, <3>1 DEF LiveAfter
      <3>3. i \in 1..n /\ k \in 1..n /\ n \in 1..n /\ i < k /\ k < n
        BY <1>1
      <3> QED
        BY <2>2, <3>1, <3>2, <3>3 DEF UsedAgain, effect
    <2> QED
      BY <1>2, <1>12, <2>1, <2>2
  <1>13. ASSUME UsedAgain(id, n) PROVE id \in f[n].reused
    <2>1. PICK i \in 1..n, k \in 1..n, j \in 1..n :
              /\ i < k /\ k < j
              /\ id \in Materialised(log[i]) /\ id \in Materialised(log[j])
              /\ id \notin After({id}, log[k])
      BY <1>13 DEF UsedAgain
    <2>2. i \in 1..m /\ k \in 1..m
      BY <1>1, <2>1
    <2>3. CASE j \in 1..m
      <3>1. UsedAgain(id, m)
        BY <2>1, <2>2, <2>3 DEF UsedAgain
      <3> QED
        BY <1>2, <1>6, <3>1
    <2>4. CASE j = n /\ id \notin f[m].live
      <3>1. id \in f[m].ids
        BY <1>6, <2>1, <2>2
      <3> QED
        BY <1>2, <2>1, <2>4, <3>1 DEF effect
    \* It came back before.
    <2>5. CASE id \in f[m].live
      <3>1. PICK l \in 1..m : /\ id \in Materialised(log[l])
                              /\ \A o \in (l + 1)..m : id \in After({id}, log[o])
        BY <1>6, <2>5 DEF LiveAfter
      <3>2. l # k
        BY <1>7, <1>9, <2>1, <3>1
      <3>3. ~(l < k)
        <4>1. l < k => k \in (l + 1)..m
          BY <1>1, <2>2
        <4> QED
          BY <2>1, <3>1, <4>1
      <3>4. k < l
        BY <1>1, <2>2, <3>2, <3>3
      <3>5. UsedAgain(id, m)
        BY <2>1, <2>2, <3>1, <3>4 DEF UsedAgain
      <3> QED
        BY <1>2, <1>6, <3>5
    <2> QED
      BY <1>7, <2>3, <2>4, <2>5
  <1> QED
    BY <1>10, <1>11, <1>12, <1>13

\* What the activation reads of the log, by its events.
LEMMA ReplayedIsFound ==
    ASSUME log \in Seq(Effects)
    PROVE  /\ Replayed.live \subseteq Ids /\ Replayed.ids \subseteq Ids /\ Replayed.reused \subseteq Ids
           /\ \A id \in Ids :
                  /\ id \in Replayed.ids <=> \E i \in 1..Len(log) : id \in Materialised(log[i])
                  /\ id \in Replayed.live <=> LiveAfter(id, Len(log))
                  /\ id \in Replayed.reused <=> UsedAgain(id, Len(log))
  <1> DEFINE last == Len(log)
             f == CHOOSE g : IsReplay(g, last)
  <1>1. last \in Nat
    OBVIOUS
  <1>2. IsReplay(f, last)
    BY <1>1, ReplayExists
  <1>3. Replayed = f[last]
    BY Zenon DEF Replayed, IsReplay
  <1> HIDE DEF f
  <1>4. \A n \in 0..last : f[n] = IF n = 0 THEN Nothing ELSE Found(f[n - 1], log[n])
    BY <1>2 DEF IsReplay
  <1> DEFINE Wrong == {n \in 0..last : ~FindsWhatIs(f, n)}
  <1>5. Wrong = {}
    <2> SUFFICES ASSUME Wrong # {} PROVE FALSE
      OBVIOUS
    <2>1. Wrong \in SUBSET Nat
      BY <1>1
    <2>2. PICK n \in Wrong : \A m \in Wrong : n <= m
      BY <2>1, LeastNumber
    <2>3. CASE n = 0
      <3>1. f[0] = Nothing
        BY <1>1, <1>4
      <3>2. FindsWhatIs(f, 0)
        BY <3>1 DEF FindsWhatIs, Nothing, LiveAfter, UsedAgain
      <3> QED
        BY <2>2, <2>3, <3>2
    <2>4. CASE n # 0
      <3>1. n \in 1..last /\ n - 1 \in 0..last /\ ~(n <= n - 1)
        BY <1>1, <2>2, <2>4
      <3>2. FindsWhatIs(f, n - 1)
        BY <2>2, <3>1
      <3>3. f[n] = Found(f[n - 1], log[n])
        BY <1>4, <2>4, <3>1
      <3>4. FindsWhatIs(f, n)
        BY <3>1, <3>2, <3>3, FindsOneMore
      <3> QED
        BY <2>2, <3>4
    <2> QED
      BY <2>3, <2>4
  <1>6. FindsWhatIs(f, last)
    BY <1>1, <1>5
  <1> QED
    BY <1>3, <1>6 DEF FindsWhatIs

-----------------------------------------------------------------------------

\* The ids the events have used, with those of the current model, are the ones the
\* activation reserves.
LEMMA EvidenceIsEverUsed ==
    ASSUME log \in Seq(Effects), live \subseteq Ids
    PROVE  Evidence = EverUsed /\ Evidence \subseteq Ids /\ live \subseteq Evidence
  <1>1. DOMAIN log = 1..Len(log) /\ \A i \in 1..Len(log) : Materialised(log[i]) \subseteq Ids
    BY EffectFacts
  <1>2. Replayed.ids = UNION {Materialised(log[i]) : i \in DOMAIN log}
    BY <1>1, ReplayedIsFound
  <1> QED
    BY <1>2, ReplayedIsFound DEF Evidence, EverUsed

\* The earlier version writes only while nobody has looked for untracked projects; a
\* project that is tracked has reserved what is live, and has marked what was used
\* again before.
MigrationInv ==
    /\ log \in Seq(Effects) /\ live \subseteq Ids
    /\ old => listed = {} /\ tracked = NotTracked
    /\ modelIdentities \subseteq Ids
    /\ modelRevision \in 0..Len(log)
    /\ tracked = NotTracked => modelIdentities = {} /\ reused = {} /\ modelRevision = 0
    /\ tracked # NotTracked =>
           /\ tracked \in 0..Len(log) /\ live \subseteq modelIdentities
           /\ reused = {id \in Ids : UsedAgain(id, tracked)}

\* What an activation, or none that is left to do, makes of the project.
LEMMA ActivatedFacts ==
    ASSUME MigrationInv
    PROVE  /\ Activated.at # NotTracked /\ Activated.at \in 0..Len(log)
           /\ Activated.identities = IF tracked = NotTracked THEN EverUsed ELSE modelIdentities
           /\ live \subseteq Activated.identities /\ Activated.identities \subseteq Ids
           /\ Activated.reused = {id \in Ids : UsedAgain(id, Activated.at)}
           /\ Activated.revision = modelRevision
  <1>1. CASE tracked = NotTracked
    <2>1. Activated = [at |-> Len(log), identities |-> Evidence, reused |-> Replayed.reused, revision |-> 0]
      BY <1>1 DEF Activated, Untracked
    <2>2. Replayed.reused = {id \in Ids : UsedAgain(id, Len(log))}
      BY ReplayedIsFound DEF MigrationInv
    <2>3. Len(log) \in Nat
      BY DEF MigrationInv
    <2> QED
      BY <1>1, <2>1, <2>2, <2>3, EvidenceIsEverUsed, MigrationAssumption DEF MigrationInv
  <1>2. CASE tracked # NotTracked
    BY <1>2 DEF Activated, Untracked, MigrationInv
  <1> QED
    BY <1>1, <1>2

LEMMA MigrationInitial == MigrationInit => MigrationInv
  BY MigrationAssumption DEF MigrationInit, MigrationInv

LEMMA LegacyKeeps ==
    ASSUME MigrationInv, NEW effect \in Effects, Legacy(effect)
    PROVE  MigrationInv'
  <1>1. log \in Seq(Effects) /\ live \subseteq Ids
    BY DEF MigrationInv
  <1>2. log' \in Seq(Effects) /\ Len(log') = Len(log) + 1 /\ live' \subseteq Ids
    BY <1>1, EffectFacts DEF Legacy
  <1>3. tracked' = NotTracked /\ listed' = {}
    BY DEF Legacy, MigrationInv
  <1>4. modelRevision' \in 0..Len(log')
    BY <1>1, <1>2 DEF Legacy, MigrationInv
  <1> QED
    BY <1>2, <1>3, <1>4 DEF Legacy, MigrationInv

LEMMA StartKeeps ==
    ASSUME MigrationInv, NEW m \in Processes, Start(m)
    PROVE  MigrationInv'
  <1>1. {id \in Ids : UsedAgain(id, tracked)}' = {id \in Ids : UsedAgain(id, tracked)}
    BY DEF Start, UsedAgain
  <1> QED
    BY <1>1 DEF Start, MigrationInv

LEMMA MigrateKeeps ==
    ASSUME MigrationInv, NEW m \in Processes, Migrate(m)
    PROVE  MigrationInv'
  <1>1. tracked' = Activated.at /\ tracked' # NotTracked /\ tracked' \in 0..Len(log')
    BY ActivatedFacts DEF Migrate
  <1>2. {id \in Ids : UsedAgain(id, tracked)}' = {id \in Ids : UsedAgain(id, Activated.at)}
    BY <1>1 DEF Migrate, UsedAgain
  <1>3. ~old'
    BY DEF Migrate, MigrationInv
  <1>4. /\ modelIdentities' \subseteq Ids /\ live' \subseteq modelIdentities'
        /\ modelRevision' \in 0..Len(log') /\ reused' = {id \in Ids : UsedAgain(id, tracked)}'
    BY <1>2, ActivatedFacts DEF Migrate, MigrationInv
  <1> QED
    BY <1>1, <1>3, <1>4 DEF Migrate, MigrationInv

LEMMA AppendKeeps ==
    ASSUME MigrationInv, NEW effect \in Effects, AppendEvent(effect)
    PROVE  MigrationInv'
  <1>1. log \in Seq(Effects) /\ live \subseteq Ids /\ modelRevision \in 0..Len(log)
    BY DEF MigrationInv
  <1>2. /\ log' = Append(log, effect) /\ live' = After(live, effect)
        /\ tracked' = Activated.at /\ reused' = Activated.reused /\ ~old'
    BY DEF AppendEvent
  <1>3. log' \in Seq(Effects) /\ Len(log') = Len(log) + 1 /\ live' \subseteq Ids
    BY <1>1, <1>2, EffectFacts
  <1>4. tracked' # NotTracked /\ tracked' \in 0..Len(log')
    BY <1>1, <1>2, <1>3, ActivatedFacts
  <1>5. reused' = {id \in Ids : UsedAgain(id, tracked)}'
    <2>1. {id \in Ids : UsedAgain(id, Activated.at)} = {id \in Ids : UsedAgain(id, tracked)}'
      <3>1. \A i \in 1..tracked' : log'[i] = log[i]
        BY <1>1, <1>2, ActivatedFacts
      <3> QED
        BY <1>2, <3>1 DEF UsedAgain
    <2> QED
      BY <1>2, <2>1, ActivatedFacts
  <1>6. CASE effect.kind = "none"
    <2>1. live' = live
      BY <1>2, <1>6 DEF After
    <2>2. modelIdentities' = Activated.identities /\ modelRevision' = modelRevision
      BY <1>6, ActivatedFacts DEF AppendEvent
    <2>3. modelIdentities' \subseteq Ids /\ live' \subseteq modelIdentities'
      BY <2>1, <2>2, ActivatedFacts
    <2>4. modelRevision' \in 0..Len(log')
      BY <1>1, <1>3, <2>2
    <2> QED
      BY <1>2, <1>3, <1>4, <1>5, <2>3, <2>4 DEF MigrationInv
  <1>7. CASE effect.kind # "none"
    <2>1. modelIdentities' = Activated.identities \cup live' /\ modelRevision' = modelRevision + 1
      BY <1>2, <1>7, ActivatedFacts DEF AppendEvent
    <2>2. modelIdentities' \subseteq Ids /\ live' \subseteq modelIdentities'
      BY <1>3, <2>1, ActivatedFacts
    <2>3. modelRevision' \in 0..Len(log')
      BY <1>1, <1>3, <2>1
    <2> QED
      BY <1>2, <1>3, <1>4, <1>5, <2>2, <2>3 DEF MigrationInv
  <1> QED
    BY <1>6, <1>7

LEMMA MigrationKept == MigrationInv /\ [MigrationNext]_migrationVars => MigrationInv'
  <1> SUFFICES ASSUME MigrationInv, [MigrationNext]_migrationVars PROVE MigrationInv'
    OBVIOUS
  <1>1. CASE MigrationNext
    BY <1>1, LegacyKeeps, AppendKeeps, StartKeeps, MigrateKeeps DEF MigrationNext
  <1>2. CASE UNCHANGED migrationVars
    BY <1>2 DEF migrationVars, MigrationInv, UsedAgain
  <1> QED
    BY <1>1, <1>2

-----------------------------------------------------------------------------
(* The migration: the model it hands over.                                      *)

\* The components that are live, of the rows of the tables, and no defect in them: they
\* lie side by side.
LEMMA ModelOfLive ==
    ASSUME NEW ids \in SUBSET Ids
    PROVE  LET rows == [id \in Ids |-> IF id \in ids THEN Top ELSE Absent]
               none == [r \in {} |-> Absent]
           IN  /\ rows \in [Ids -> Model!ComponentRows]
               /\ none \in [{} -> Model!RelationshipRows]
               /\ Model!Live(rows, none) = ids
               /\ Model!NoDiagnostics(rows, none)
  <1> DEFINE rows == [id \in Ids |-> IF id \in ids THEN Top ELSE Absent]
             none == [r \in {} |-> Absent]
  <1>1. rows \in [Ids -> Model!ComponentRows] /\ none \in [{} -> Model!RelationshipRows]
    BY DEF Model!ComponentRows
  <1>2. Model!LiveComponents(rows) = ids /\ Model!LiveRelationships(none) = {}
    BY MigrationAssumption DEF Model!LiveComponents, Model!LiveRelationships
  <1>3. Model!MissingParents(rows) = {} /\ Model!MissingEndpoints(rows, none) = {}
    BY <1>2 DEF Model!MissingParents, Model!MissingEndpoints
  <1>4. Model!InCycles(rows) = {}
    <2>1. \A c \in Ids : rows[c] \notin Ids
      BY MigrationAssumption
    <2> DEFINE walk == [visited \in SUBSET Ids |-> [c \in Ids |-> c \in visited]]
    <2>2. walk = [visited \in SUBSET Ids |-> [c \in Ids |->
                     c \in visited \/ (rows[c] \in Ids /\ walk[visited \union {c}][rows[c]])]]
      BY <2>1
    <2>3. \E f : f = [visited \in SUBSET Ids |-> [c \in Ids |->
                         c \in visited \/ (rows[c] \in Ids /\ f[visited \union {c}][rows[c]])]]
      BY <2>2, Zenon
    <2> DEFINE w == Model!Walk(rows)
    <2> HIDE DEF walk, rows
    <2>4. w = [visited \in SUBSET Ids |-> [c \in Ids |->
                  c \in visited \/ (rows[c] \in Ids /\ w[visited \union {c}][rows[c]])]]
      BY <2>3, Zenon DEF Model!Walk
    <2> HIDE DEF w
    <2>5. w[{}] = [c \in Ids |-> c \in {} \/ (rows[c] \in Ids /\ w[{} \union {c}][rows[c]])]
      BY <2>4
    <2>6. ASSUME NEW c \in Ids PROVE ~w[{}][c]
      <3>1. w[{}][c] = (c \in {} \/ (rows[c] \in Ids /\ w[{} \union {c}][rows[c]]))
        BY <2>5
      <3> QED
        BY <2>1, <3>1, Zenon
    <2> QED
      BY <2>6 DEF Model!InCycles, Model!LiveComponents, w
  <1> HIDE DEF rows, none
  <1>5. Model!Live(rows, none) = ids /\ Model!NoDiagnostics(rows, none)
    BY <1>2, <1>3, <1>4 DEF Model!Live, Model!NoDiagnostics
  <1> QED
    BY <1>1, <1>5 DEF rows, none

\* The ids that are reserved, or will be with the first event.
ReservedIds == IF tracked = NotTracked THEN EverUsed ELSE modelIdentities
RowsOfLive == [id \in Ids |-> IF id \in live THEN Top ELSE Absent]

LEMMA BeginsAsModel == MigrationInv => ActivatedAsReported
  <1> SUFFICES ASSUME MigrationInv PROVE ActivatedAsReported
    OBVIOUS
  <1>1. live \subseteq Ids
    BY DEF MigrationInv
  <1>2. live \subseteq ReservedIds /\ ReservedIds \subseteq Ids
    BY ActivatedFacts DEF ReservedIds
  <1>3. ASSUME ~old, modelRevision = 0 PROVE Model!Init
    <2> DEFINE rows == [id \in Ids |-> IF id \in live THEN Top ELSE Absent]
               none == [r \in {} |-> Absent]
    <2>1. /\ rows \in [Ids -> Model!ComponentRows] /\ none \in [{} -> Model!RelationshipRows]
          /\ Model!Live(rows, none) = live
      BY <1>1, ModelOfLive
    <2>2. ReservedIds \in {ids \in SUBSET (Ids \union {}) : Model!Live(rows, none) \subseteq ids}
      BY <1>2, <2>1
    <2> QED
      BY <1>3, <2>1, <2>2, Zenon DEF Model!Init, ReservedIds
  <1> QED
    BY <1>3 DEF ActivatedAsReported, MigrationInv

\* An event that changes the model is to ArchitectureModel a write of the rows it
\* leaves; one that does not, and an activation, are no step of it.
LEMMA AppendGoesOn ==
    ASSUME MigrationInv, NEW effect \in Effects, AppendEvent(effect)
    PROVE  [Model!Next]_(Model!vars)
  <1>1. log \in Seq(Effects) /\ live \subseteq Ids /\ modelRevision \in 0..Len(log)
    BY DEF MigrationInv
  <1>2. /\ Activated.identities = ReservedIds
        /\ Activated.at # NotTracked /\ Activated.revision = modelRevision
    BY ActivatedFacts DEF ReservedIds
  <1>3. live' = After(live, effect) /\ live' \subseteq Ids /\ tracked' # NotTracked
    BY <1>1, <1>2, EffectFacts DEF AppendEvent
  <1>4. ReservedIds' = modelIdentities'
    BY <1>3 DEF ReservedIds
  <1>5. CASE effect.kind = "none"
    <2>1. live' = live /\ ReservedIds' = ReservedIds /\ modelRevision' = modelRevision
      BY <1>2, <1>3, <1>4, <1>5 DEF AppendEvent, After
    <2> QED
      BY <2>1 DEF Model!vars, ReservedIds
  <1>6. CASE effect.kind # "none"
    <2>1. /\ (live' \ live) \cap ReservedIds = {} /\ modelRevision < MaxEvents
          /\ ReservedIds' = ReservedIds \cup live' /\ modelRevision' = modelRevision + 1
      BY <1>1, <1>2, <1>3, <1>4, <1>6, MigrationAssumption DEF AppendEvent
    <2> DEFINE none == [r \in {} |-> Absent]
    <2>2. /\ RowsOfLive \in [Ids -> Model!ComponentRows] /\ Model!Live(RowsOfLive, none) = live
          /\ RowsOfLive' \in [Ids -> Model!ComponentRows] /\ Model!Live(RowsOfLive', none) = live'
          /\ Model!NoDiagnostics(RowsOfLive', none)
          /\ none \in [{} -> Model!RelationshipRows]
      BY <1>1, <1>3, ModelOfLive DEF RowsOfLive
    <2>3. PICK p \in [Ids -> Model!ComponentRows], e \in [{} -> Model!RelationshipRows] :
              p = RowsOfLive' /\ e = none
      BY <2>2
    <2>4. Model!Finish(p, e)
      BY <2>1, <2>2, <2>3 DEF Model!Finish, Model!Retired, Model!Reserved, Model!NextRevision,
                              Model!graph, RowsOfLive, ReservedIds
    <2>5. Model!PublishSnapshot(p, e)
      BY <2>4 DEF Model!PublishSnapshot
    <2>6. Model!Next
      BY <2>5 DEF Model!Next
    <2> QED
      BY <2>6
  <1> QED
    BY <1>5, <1>6

LEMMA GoesOnAsModel == MigrationInv /\ [MigrationNext]_migrationVars => ModelGoesOn
  <1> SUFFICES ASSUME MigrationInv, [MigrationNext]_migrationVars, ~old PROVE [Model!Next]_(Model!vars)
    BY DEF ModelGoesOn
  <1>1. ASSUME NEW effect \in Effects, Legacy(effect) PROVE FALSE
    BY <1>1 DEF Legacy
  <1>2. ASSUME NEW effect \in Effects, AppendEvent(effect) PROVE [Model!Next]_(Model!vars)
    BY <1>2, AppendGoesOn
  <1>3. ASSUME NEW m \in Processes, Start(m) PROVE UNCHANGED Model!vars
    BY <1>3 DEF Start, Model!vars, EverUsed
  <1>4. ASSUME NEW m \in Processes, Migrate(m) PROVE UNCHANGED Model!vars
    BY <1>4, ActivatedFacts DEF Migrate, Model!vars, EverUsed
  <1>5. CASE UNCHANGED migrationVars
    BY <1>5 DEF migrationVars, Model!vars, EverUsed
  <1> QED
    BY <1>1, <1>2, <1>3, <1>4, <1>5 DEF MigrationNext

\* Whichever process activates an older project, when it starts or with the first event,
\* once or again, and whatever its log and its current model are: the model begins as
\* ArchitectureModel says, exactly the ids that were used again in the log are marked,
\* and every later event is a step of ArchitectureModel or none (model_migration.go:10-135).
THEOREM MigrationHandsOver == MigrationSpec => MigrationStartsTheModel
  <1>1. MigrationSpec => []MigrationInv
    BY MigrationInitial, MigrationKept, PTL DEF MigrationSpec
  <1>2. MigrationSpec => []ActivatedAsReported
    BY <1>1, BeginsAsModel, PTL
  <1>3. MigrationSpec => [][ModelGoesOn]_migrationVars
    BY <1>1, GoesOnAsModel, PTL DEF MigrationSpec
  <1> QED
    BY <1>2, <1>3 DEF MigrationStartsTheModel
=============================================================================
