-------------------------- MODULE RunLifecycleProofs --------------------------
(* The agent tree, the closing of runs, the ownership of work steps and the     *)
(* published plans, for every number of runs, agents, steps and plans and every *)
(* sequence of events.                                                          *)
EXTENDS Plans, WellFoundedInduction, TLAPS

\* A set of naturals that is not empty has a least element.
LEMMA LeastNat ==
    ASSUME NEW T \in SUBSET Nat, T # {}
    PROVE  \E m \in T : \A n \in T : m <= n
  <1> DEFINE Less == {ss \in Nat \X Nat : ss[1] < ss[2]}
  <1>1. IsWellFoundedOn(Less, Nat)
    BY NatLessThanWellFounded DEF OpToRel
  <1> HIDE DEF Less
  <1>2. PICK m \in T : \A n \in T : ~(<<n, m>> \in Less)
    BY <1>1, WFMin
  <1>3. ASSUME NEW n \in T PROVE m <= n
    <2>1. n \in Nat /\ m \in Nat
      OBVIOUS
    <2>2. <<n, m>> \notin Less
      BY <1>2
    <2> QED
      BY <2>1, <2>2 DEF Less
  <1> QED
    BY <1>3

-----------------------------------------------------------------------------
(* Type correctness.                                                            *)

LEMMA InitTyped == Init => TypeOK
  BY LifecycleAssumption DEF LifecycleAssumption, Init, TypeOK, Roles, Columns

\* The position of an accepted event is within the bound.
LEMMA AcceptTyped ==
    ASSUME TypeOK, Accept
    PROVE  head \in Nat /\ head' = head + 1 /\ head' \in 0..MaxEvents
  BY LifecycleAssumption DEF LifecycleAssumption, TypeOK, Accept

LEMMA StepTyped == TypeOK /\ [Next]_vars => TypeOK'
  <1> SUFFICES ASSUME TypeOK, [Next]_vars PROVE TypeOK'
    OBVIOUS
  <1> USE DEF TypeOK
  <1>1. CASE UNCHANGED vars
    BY <1>1 DEF vars, runVars, agentVars, stepVars, history
  <1>2. ASSUME NEW r \in Runs, NEW a \in Agents, NEW p \in Agents \union {Nobody},
               NEW ro \in Roles, ApplyAgentStarted(r, a, p, ro)
        PROVE  /\ currentRun' \in Runs \union {NoRun}
               /\ root' \in [Runs -> Agents \union {Nobody}]
               /\ open' \in [Runs -> BOOLEAN]
               /\ started' \in [Runs -> SUBSET Agents]
               /\ parent' \in [Runs -> [Agents -> Agents \union {Nobody}]]
               /\ role' \in [Runs -> [Agents -> Roles]]
               /\ reported' \in [Runs -> [Agents -> SUBSET Columns]]
               /\ owner' \in [Runs -> [Steps -> Agents \union {Nobody}]]
               /\ done' \in [Runs -> SUBSET Steps]
               /\ closer' \in [Runs -> Agents \union {Nobody}]
               /\ completer' \in [Runs -> [Steps -> Agents \union {Nobody}]]
    BY <1>2 DEF ApplyAgentStarted, NextCurrentRun, stepVars
  <1>3. ASSUME NEW r \in Runs, NEW a \in Agents, OpenRun(r, a)
        PROVE  TypeOK'
    <2>1. head' \in 0..MaxEvents
      BY <1>3, AcceptTyped DEF OpenRun
    <2> QED
      BY <1>2, <1>3, <2>1 DEF OpenRun, Roles
  <1>4. ASSUME NEW r \in Runs, NEW a \in Agents, NEW p \in Agents, NEW ro \in Roles,
               StartAgent(r, a, p, ro)
        PROVE  TypeOK'
    <2>1. head' \in 0..MaxEvents
      BY <1>4, AcceptTyped DEF StartAgent
    <2> QED
      BY <1>2, <1>4, <2>1 DEF StartAgent
  <1>5. ASSUME NEW r \in Runs, NEW a \in Agents, NEW ro \in Roles, CorrectStart(r, a, ro)
        PROVE  TypeOK'
    <2>1. head' \in 0..MaxEvents
      BY <1>5, AcceptTyped DEF CorrectStart
    <2>2. parent[r][a] \in Agents \union {Nobody}
      OBVIOUS
    <2>3. ApplyAgentStarted(r, a, parent[r][a], ro) /\ UNCHANGED <<since, lastOpened>>
      BY <1>5 DEF CorrectStart
    <2> QED
      BY <1>2, <2>1, <2>2, <2>3
  <1>6. ASSUME NEW r \in Runs, NEW a \in Agents, NEW column \in Columns,
               Report(r, a, column) \/ CorrectReport(r, a, column)
        PROVE  TypeOK'
    <2>1. head' \in 0..MaxEvents
      BY <1>6, AcceptTyped DEF Report, CorrectReport
    <2>2. ApplyReport(r, a, column)
      BY <1>6 DEF Report, CorrectReport
    <2>3. reported' \in [Runs -> [Agents -> SUBSET Columns]]
      <3>1. reported[r][a] \union {column} \in SUBSET Columns
        OBVIOUS
      <3> QED
        BY <2>2, <3>1 DEF ApplyReport
    <2> QED
      BY <2>1, <2>2, <2>3 DEF ApplyReport, runVars, stepVars, history
  <1>7. ASSUME NEW r \in Runs, NEW a \in Agents, NEW s \in Steps,
               StartStep(r, a, s) \/ CorrectStepStart(r, a, s)
        PROVE  TypeOK'
    <2>1. head' \in 0..MaxEvents
      BY <1>7, AcceptTyped DEF StartStep, CorrectStepStart
    <2>2. ApplyStepStarted(r, a, s)
      BY <1>7 DEF StartStep, CorrectStepStart
    <2>3. owner' \in [Runs -> [Steps -> Agents \union {Nobody}]]
      BY <2>2 DEF ApplyStepStarted
    <2> QED
      BY <2>1, <2>2, <2>3 DEF ApplyStepStarted, runVars, agentVars, history
  <1>8. ASSUME NEW r \in Runs, NEW a \in Agents, NEW s \in Steps,
               CompleteStep(r, a, s) \/ CorrectStepCompletion(r, a, s)
        PROVE  TypeOK'
    <2>1. head' \in 0..MaxEvents
      BY <1>8, AcceptTyped DEF CompleteStep, CorrectStepCompletion
    <2>2. ApplyStepCompleted(r, a, s)
      BY <1>8 DEF CompleteStep, CorrectStepCompletion
    <2>3. done' \in [Runs -> SUBSET Steps]
      BY <2>2 DEF ApplyStepCompleted
    <2>4. completer' \in [Runs -> [Steps -> Agents \union {Nobody}]]
      BY <2>2 DEF ApplyStepCompleted
    <2> QED
      BY <2>1, <2>2, <2>3, <2>4 DEF ApplyStepCompleted, runVars, agentVars
  <1>9. ASSUME NEW r \in Runs, NEW a \in Agents, FinishRun(r, a) \/ CorrectFinish(r, a)
        PROVE  TypeOK'
    <2>1. head' \in 0..MaxEvents
      BY <1>9, AcceptTyped DEF FinishRun, CorrectFinish
    <2>2. ApplyRunFinished(r, a)
      BY <1>9 DEF FinishRun, CorrectFinish
    <2>3. open' \in [Runs -> BOOLEAN] /\ closer' \in [Runs -> Agents \union {Nobody}]
      BY <2>2 DEF ApplyRunFinished
    <2> QED
      BY <2>1, <2>2, <2>3 DEF ApplyRunFinished, agentVars, stepVars
  <1>10. ASSUME NEW r \in Runs, NEW a \in Agents, Note(r, a)
         PROVE  TypeOK'
    <2>1. head' \in 0..MaxEvents
      BY <1>10, AcceptTyped DEF Note
    <2> QED
      BY <1>10, <2>1 DEF Note, runVars, agentVars, stepVars, history
  <1> QED
    BY <1>1, <1>3, <1>4, <1>5, <1>6, <1>7, <1>8, <1>9, <1>10 DEF Next, ByAgent

\* Every state the ingestion can reach is well formed (lifecycle.go, projector.go).
THEOREM TypeCorrect == Spec => []TypeOK
  <1> QED
    BY InitTyped, StepTyped, PTL DEF Spec

-----------------------------------------------------------------------------
(* The inductive invariant.                                                     *)

RunInv(r) == TreeInv(r) /\ CloseInv(r) /\ StepInv(r)

LEMMA InitLifecycle == Init => \A r \in Runs : RunInv(r)
  <1> SUFFICES ASSUME Init, NEW r \in Runs PROVE RunInv(r)
    OBVIOUS
  <1>1. root[r] = Nobody /\ started[r] = {} /\ open[r] = TRUE /\ done[r] = {}
    BY DEF Init
  <1>2. \A s \in Steps : owner[r][s] = Nobody
    BY DEF Init
  <1> QED
    BY <1>1, <1>2 DEF RunInv, TreeInv, CloseInv, StepInv

\* Nothing of run r changed in a step but the reports of its agents.
RunUnchanged(r) ==
    /\ root'[r] = root[r] /\ open'[r] = open[r] /\ started'[r] = started[r]
    /\ parent'[r] = parent[r] /\ role'[r] = role[r] /\ since'[r] = since[r]
    /\ owner'[r] = owner[r] /\ done'[r] = done[r]
    /\ closer'[r] = closer[r] /\ completer'[r] = completer[r]

\* An event that leaves a run alone leaves its invariant alone.
LEMMA Frame ==
    ASSUME TypeOK, NEW r \in Runs, RunInv(r), RunUnchanged(r),
           head' = head \/ (head \in Nat /\ head' = head + 1)
    PROVE  RunInv(r)'
  <1>1. \A a \in started[r] : since[r][a] \in Nat /\ since[r][a] <= head => since[r][a] <= head'
    BY DEF TypeOK
  <1>2. \A a \in started[r] : since[r][a] \in Nat
    BY LifecycleAssumption DEF TypeOK, LifecycleAssumption
  <1>3. TreeInv(r)'
    BY <1>1, <1>2 DEF RunUnchanged, RunInv, TreeInv
  <1>4. CloseInv(r)' /\ StepInv(r)'
    BY DEF RunUnchanged, RunInv, CloseInv, StepInv
  <1> QED
    BY <1>3, <1>4 DEF RunInv

\* The opening event makes a tree of one agent.
LEMMA OpenRunKeeps ==
    ASSUME TypeOK, \A q \in Runs : RunInv(q), NEW r \in Runs, NEW a \in Agents, OpenRun(r, a)
    PROVE  \A q \in Runs : RunInv(q)'
  <1>0. head \in Nat /\ head' = head + 1
    BY AcceptTyped DEF OpenRun
  <1> USE DEF OpenRun, ApplyAgentStarted, NextCurrentRun, stepVars
  <1>1. ASSUME NEW q \in Runs, q # r PROVE RunInv(q)'
    <2>1. RunUnchanged(q)
      BY <1>1 DEF RunUnchanged, TypeOK
    <2> QED
      BY <1>0, <2>1, Frame
  <1>2. RunInv(r)'
    <2>1. started[r] = {} /\ root[r] = Nobody
      BY DEF RunInv, TreeInv, Opened
    <2>2. root'[r] = a /\ started'[r] = {a} /\ parent'[r][a] = Nobody
          /\ role'[r][a] = "orchestrator" /\ since'[r][a] = head'
      BY <2>1 DEF TypeOK
    <2>3. a # Nobody
      BY LifecycleAssumption DEF LifecycleAssumption
    <2>4. open'[r] = open[r] /\ closer'[r] = closer[r] /\ owner'[r] = owner[r]
          /\ done'[r] = done[r] /\ completer'[r] = completer[r]
      OBVIOUS
    <2>5. TreeInv(r)'
      BY <1>0, <2>2, <2>3 DEF TreeInv
    <2>6. CloseInv(r)'
      BY <2>1, <2>4 DEF RunInv, CloseInv
    <2>7. StepInv(r)'
      BY <2>1, <2>4, <2>2 DEF RunInv, StepInv
    <2> QED
      BY <2>5, <2>6, <2>7 DEF RunInv
  <1> QED
    BY <1>1, <1>2

\* An agent joins below an agent that is there already.
LEMMA StartAgentKeeps ==
    ASSUME TypeOK, \A q \in Runs : RunInv(q), NEW r \in Runs, NEW a \in Agents,
           NEW p \in Agents, NEW ro \in Roles, StartAgent(r, a, p, ro)
    PROVE  \A q \in Runs : RunInv(q)'
  <1>0. head \in Nat /\ head' = head + 1
    BY AcceptTyped DEF StartAgent
  <1>p. p # Nobody /\ p \in started[r] /\ a \notin started[r] /\ root[r] # Nobody
    BY DEF StartAgent, KnownParent, AcceptsWork, Opened
  <1> USE DEF StartAgent, ApplyAgentStarted, stepVars
  <1>1. ASSUME NEW q \in Runs, q # r PROVE RunInv(q)'
    <2>1. RunUnchanged(q)
      BY <1>1, <1>p DEF RunUnchanged, TypeOK
    <2> QED
      BY <1>0, <2>1, Frame
  <1>2. RunInv(r)'
    <2>1. root'[r] = root[r] /\ started'[r] = started[r] \union {a}
      BY <1>p DEF TypeOK
    <2>2. parent'[r][a] = p /\ since'[r][a] = head'
      BY DEF TypeOK
    <2>3. \A b \in started[r] : b # a /\ parent'[r][b] = parent[r][b]
                               /\ role'[r][b] = role[r][b] /\ since'[r][b] = since[r][b]
      BY <1>p DEF TypeOK
    <2>4. open'[r] = open[r] /\ closer'[r] = closer[r] /\ owner'[r] = owner[r]
          /\ done'[r] = done[r] /\ completer'[r] = completer[r]
      OBVIOUS
    <2>5. TreeInv(r)'
      <3>1. \A b \in started[r] : since[r][b] \in Nat /\ since[r][b] <= head
        BY LifecycleAssumption DEF RunInv, TreeInv, TypeOK, LifecycleAssumption
      <3>2. root[r] \in started[r] /\ parent[r][root[r]] = Nobody
            /\ role[r][root[r]] = "orchestrator"
        BY <1>p DEF RunInv, TreeInv
      <3>3. \A b \in started[r] :
               /\ parent[r][b] = Nobody => b = root[r]
               /\ parent[r][b] # Nobody => /\ parent[r][b] \in started[r]
                                           /\ since[r][parent[r][b]] < since[r][b]
        BY DEF RunInv, TreeInv
      <3>4. \A b \in started[r] :
               /\ since'[r][b] <= head'
               /\ parent'[r][b] = Nobody => b = root'[r]
               /\ parent'[r][b] # Nobody => /\ parent'[r][b] \in started'[r]
                                            /\ since'[r][parent'[r][b]] < since'[r][b]
        BY <1>0, <2>1, <2>3, <3>1, <3>3
      <3>5. /\ since'[r][a] <= head'
            /\ parent'[r][a] # Nobody
            /\ parent'[r][a] \in started'[r]
            /\ since'[r][parent'[r][a]] < since'[r][a]
        BY <1>0, <1>p, <2>1, <2>2, <2>3, <3>1
      <3> QED
        BY <1>p, <2>1, <2>3, <3>2, <3>4, <3>5 DEF TreeInv
    <2>6. CloseInv(r)'
      BY <2>1, <2>4 DEF RunInv, CloseInv
    <2>7. StepInv(r)'
      BY <2>1, <2>4 DEF RunInv, StepInv
    <2> QED
      BY <2>5, <2>6, <2>7 DEF RunInv
  <1> QED
    BY <1>1, <1>2

\* A corrected agent.started repeats the parent and the role, so it changes nothing
\* of its run.
LEMMA CorrectStartKeeps ==
    ASSUME TypeOK, \A q \in Runs : RunInv(q), NEW r \in Runs, NEW a \in Agents,
           NEW ro \in Roles, CorrectStart(r, a, ro)
    PROVE  (\A q \in Runs : RunInv(q)') /\ \A q \in Runs : RunUnchanged(q)
  <1>0. head \in Nat /\ head' = head + 1
    BY AcceptTyped DEF CorrectStart
  <1>1. a \in started[r] /\ role[r][a] = ro
        /\ (parent[r][a] = Nobody => root[r] = a)
    BY DEF CorrectStart, Registered, SameIdentity
  <1>2. started' = started
    BY <1>1 DEF CorrectStart, ApplyAgentStarted, TypeOK
  <1>3. parent' = parent /\ role' = role
    <2>1. parent' = [parent EXCEPT ![r][a] = parent[r][a]] /\ role' = [role EXCEPT ![r][a] = ro]
      BY DEF CorrectStart, ApplyAgentStarted
    <2> QED
      BY <1>1, <2>1 DEF TypeOK
  <1>4. root' = root
    BY <1>1 DEF CorrectStart, ApplyAgentStarted, TypeOK
  <1>5. \A q \in Runs : RunUnchanged(q)
    BY <1>2, <1>3, <1>4 DEF CorrectStart, ApplyAgentStarted, RunUnchanged, stepVars
  <1> QED
    BY <1>0, <1>5, Frame

\* A step is started by an agent of the run, or corrected by the one who started it.
LEMMA StepStartKeeps ==
    ASSUME TypeOK, \A q \in Runs : RunInv(q), NEW r \in Runs, NEW a \in Agents,
           NEW s \in Steps, StartStep(r, a, s) \/ CorrectStepStart(r, a, s)
    PROVE  \A q \in Runs : RunInv(q)'
  <1>0. head \in Nat /\ head' = head + 1
    BY AcceptTyped DEF StartStep, CorrectStepStart
  <1>1. ApplyStepStarted(r, a, s) /\ a \in started[r]
        /\ (owner[r][s] = Nobody \/ owner[r][s] = a)
    BY DEF StartStep, CorrectStepStart, Registered, Owns
  <1> USE <1>1 DEF ApplyStepStarted, runVars, agentVars, history
  <1>2. ASSUME NEW q \in Runs, q # r PROVE RunInv(q)'
    <2>1. RunUnchanged(q)
      BY <1>2 DEF RunUnchanged, TypeOK
    <2> QED
      BY <1>0, <2>1, Frame
  <1>3. RunInv(r)'
    <2>1. owner'[r][s] = a /\ \A t \in Steps : t # s => owner'[r][t] = owner[r][t]
      BY DEF TypeOK
    <2>2. s \in done[r] => owner[r][s] = a
      BY DEF RunInv, StepInv
    <2>3. StepInv(r)'
      BY <2>1, <2>2 DEF RunInv, StepInv
    <2>4. \A b \in started[r] : since[r][b] <= head'
      BY <1>0, LifecycleAssumption DEF RunInv, TreeInv, TypeOK, LifecycleAssumption
    <2>5. TreeInv(r)' /\ CloseInv(r)'
      BY <2>4 DEF RunInv, TreeInv, CloseInv
    <2> QED
      BY <2>3, <2>5 DEF RunInv
  <1> QED
    BY <1>2, <1>3

\* A step is completed, or its completion corrected, by its owner.
LEMMA StepCompletionKeeps ==
    ASSUME TypeOK, \A q \in Runs : RunInv(q), NEW r \in Runs, NEW a \in Agents,
           NEW s \in Steps, CompleteStep(r, a, s) \/ CorrectStepCompletion(r, a, s)
    PROVE  \A q \in Runs : RunInv(q)'
  <1>0. head \in Nat /\ head' = head + 1
    BY AcceptTyped DEF CompleteStep, CorrectStepCompletion
  <1>1. ApplyStepCompleted(r, a, s) /\ owner[r][s] = a /\ a # Nobody
    BY LifecycleAssumption DEF CompleteStep, CorrectStepCompletion, Owns, LifecycleAssumption
  <1> USE <1>1 DEF ApplyStepCompleted, runVars, agentVars
  <1>2. ASSUME NEW q \in Runs, q # r PROVE RunInv(q)'
    <2>1. RunUnchanged(q)
      BY <1>2 DEF RunUnchanged, TypeOK
    <2> QED
      BY <1>0, <2>1, Frame
  <1>3. RunInv(r)'
    <2>1. done'[r] = done[r] \union {s} /\ completer'[r][s] = a
          /\ \A t \in Steps : t # s => completer'[r][t] = completer[r][t]
      BY DEF TypeOK
    <2>2. owner' = owner /\ started' = started
      OBVIOUS
    <2>3. StepInv(r)'
      BY <2>1, <2>2 DEF RunInv, StepInv
    <2>4. \A b \in started[r] : since[r][b] <= head'
      BY <1>0, LifecycleAssumption DEF RunInv, TreeInv, TypeOK, LifecycleAssumption
    <2>5. TreeInv(r)' /\ CloseInv(r)'
      BY <2>4 DEF RunInv, TreeInv, CloseInv
    <2> QED
      BY <2>3, <2>5 DEF RunInv
  <1> QED
    BY <1>2, <1>3

\* The root orchestrator closes the run.
LEMMA FinishKeeps ==
    ASSUME TypeOK, \A q \in Runs : RunInv(q), NEW r \in Runs, NEW a \in Agents,
           FinishRun(r, a) \/ CorrectFinish(r, a)
    PROVE  \A q \in Runs : RunInv(q)'
  <1>0. head \in Nat /\ head' = head + 1
    BY AcceptTyped DEF FinishRun, CorrectFinish
  <1>1. ApplyRunFinished(r, a) /\ root[r] = a /\ root[r] # Nobody
    BY DEF FinishRun, CorrectFinish, IsRunOrchestrator, Registered, Opened
  <1> USE <1>1 DEF ApplyRunFinished, agentVars, stepVars
  <1>2. ASSUME NEW q \in Runs, q # r PROVE RunInv(q)'
    <2>1. RunUnchanged(q)
      BY <1>2 DEF RunUnchanged, TypeOK
    <2> QED
      BY <1>0, <2>1, Frame
  <1>3. RunInv(r)'
    <2>1. closer'[r] = a /\ root' = root
      BY DEF TypeOK
    <2>2. CloseInv(r)'
      BY <2>1 DEF CloseInv
    <2>3. \A b \in started[r] : since[r][b] <= head'
      BY <1>0, LifecycleAssumption DEF RunInv, TreeInv, TypeOK, LifecycleAssumption
    <2>4. TreeInv(r)' /\ StepInv(r)'
      BY <2>3 DEF RunInv, TreeInv, StepInv
    <2> QED
      BY <2>2, <2>4 DEF RunInv
  <1> QED
    BY <1>2, <1>3

\* A report or any other event leaves the runs alone.
LEMMA OtherKeeps ==
    ASSUME TypeOK, \A q \in Runs : RunInv(q), NEW r \in Runs, NEW a \in Agents,
           \/ \E column \in Columns : Report(r, a, column) \/ CorrectReport(r, a, column)
           \/ Note(r, a)
    PROVE  \A q \in Runs : RunInv(q)'
  <1>1. head \in Nat /\ head' = head + 1
    BY AcceptTyped DEF Report, CorrectReport, Note
  <1>2. \A q \in Runs : RunUnchanged(q)
    BY DEF Report, CorrectReport, ApplyReport, Note, RunUnchanged, runVars, agentVars, stepVars,
           history
  <1> QED
    BY <1>1, <1>2, Frame

LEMMA StepLifecycle ==
    TypeOK /\ (\A q \in Runs : RunInv(q)) /\ [Next]_vars => \A q \in Runs : RunInv(q)'
  <1> SUFFICES ASSUME TypeOK, \A q \in Runs : RunInv(q), [Next]_vars
               PROVE  \A q \in Runs : RunInv(q)'
    OBVIOUS
  <1>1. CASE UNCHANGED vars
    <2>1. head' = head /\ \A q \in Runs : RunUnchanged(q)
      BY <1>1 DEF vars, runVars, agentVars, stepVars, history, RunUnchanged
    <2> QED
      BY <2>1, Frame
  <1>2. CASE Next
    <2> SUFFICES ASSUME NEW r \in Runs, NEW a \in Agents, ByAgent(r, a)
                 PROVE  \A q \in Runs : RunInv(q)'
      BY <1>2 DEF Next
    <2> QED
      BY OpenRunKeeps, StartAgentKeeps, CorrectStartKeeps, StepStartKeeps,
         StepCompletionKeeps, FinishKeeps, OtherKeeps DEF ByAgent
  <1> QED
    BY <1>1, <1>2

\* The inductive invariant of lifecycle.go and work.go holds in every project.
THEOREM LifecycleInvariant == Spec => []LifecycleInv
  <1>1. Init => LifecycleInv
    BY InitTyped, InitLifecycle DEF LifecycleInv, RunInv
  <1>2. LifecycleInv /\ [Next]_vars => LifecycleInv'
    BY StepTyped, StepLifecycle DEF LifecycleInv, RunInv
  <1> QED
    BY <1>1, <1>2, PTL DEF Spec

-----------------------------------------------------------------------------
(* What follows from it.                                                        *)

LEMMA TreeFromInv == LifecycleInv => AgentTree
  <1> SUFFICES ASSUME LifecycleInv, NEW r \in Runs
               PROVE  /\ \A a \in started[r] : parent[r][a] = Nobody <=> a = root[r]
                      /\ Opened(r) => root[r] \in started[r]
                      /\ \A a \in started[r] : parent[r][a] \in started[r] \union {Nobody}
                      /\ \A S \in SUBSET started[r] : S # {} => \E a \in S : parent[r][a] \notin S
    BY DEF AgentTree
  <1>1. TypeOK /\ TreeInv(r)
    BY DEF LifecycleInv
  <1>2. Nobody \notin started[r]
    BY <1>1, LifecycleAssumption DEF TypeOK, LifecycleAssumption
  <1>3. \A a \in started[r] : parent[r][a] = Nobody <=> a = root[r]
    BY <1>1, <1>2 DEF TreeInv
  <1>4. Opened(r) => root[r] \in started[r]
    BY <1>1 DEF TreeInv, Opened
  <1>5. \A a \in started[r] : parent[r][a] \in started[r] \union {Nobody}
    BY <1>1 DEF TreeInv
  <1>6. ASSUME NEW S \in SUBSET started[r], S # {}
        PROVE  \E a \in S : parent[r][a] \notin S
    <2> DEFINE T == {since[r][a] : a \in S}
    <2>1. \A a \in S : since[r][a] \in Nat
      BY <1>1, LifecycleAssumption DEF TypeOK, LifecycleAssumption
    <2>2. T \in SUBSET Nat /\ T # {}
      BY <1>6, <2>1
    <2>3. PICK m \in T : \A n \in T : m <= n
      BY <2>2, LeastNat
    <2>4. PICK a \in S : since[r][a] = m
      BY <2>3
    <2>5. ASSUME parent[r][a] \in S PROVE FALSE
      <3>1. since[r][a] <= since[r][parent[r][a]]
        BY <2>3, <2>4, <2>5
      <3>2. parent[r][a] # Nobody
        BY <1>2, <2>5
      <3>3. since[r][parent[r][a]] < since[r][a]
        BY <1>1, <3>2 DEF TreeInv
      <3> QED
        BY <2>1, <2>5, <3>1, <3>3
    <2> QED
      BY <2>5
  <1> QED
    BY <1>3, <1>4, <1>5, <1>6

\* In every run of every project the agents are one tree below the root
\* orchestrator, however many agents join and whatever is corrected.
THEOREM OneTree == Spec => []AgentTree
  <1> QED
    BY LifecycleInvariant, TreeFromInv, PTL

LEMMA CloseFromInv == LifecycleInv => OnlyRootCloses
  BY DEF LifecycleInv, OnlyRootCloses, CloseInv, TreeInv

\* A closed run was closed by its root orchestrator (lifecycle.go isRunOrchestrator).
THEOREM RootCloses == Spec => []OnlyRootCloses
  <1> QED
    BY LifecycleInvariant, CloseFromInv, PTL

LEMMA StepsFromInv == LifecycleInv => StepsFinishedByOwner
  BY DEF LifecycleInv, StepsFinishedByOwner, StepInv

\* A finished step was finished by its owner (work.go ValidateWork).
THEOREM OwnersFinish == Spec => []StepsFinishedByOwner
  <1> QED
    BY LifecycleInvariant, StepsFromInv, PTL

-----------------------------------------------------------------------------
(* What an event may never do.                                                  *)

\* The identities of the runs a step of run r leaves alone.
RunGrows(r) ==
    /\ Opened(r) => root'[r] = root[r]
    /\ \A a \in started[r] : /\ a \in started'[r]
                             /\ parent'[r][a] = parent[r][a]
                             /\ role'[r][a] = role[r][a]
    /\ \A s \in Steps : owner[r][s] # Nobody => owner'[r][s] = owner[r][s]
    /\ ~open[r] => /\ ~open'[r]
                   /\ started'[r] = started[r]
                   /\ \A s \in Steps : owner'[r][s] = owner[r][s]

\* The runs grow by an event: identities stay, and a finished run grows no more.
LEMMA StepGrows ==
    ASSUME LifecycleInv, [Next]_vars
    PROVE  \A q \in Runs : RunGrows(q)
  <1> USE DEF LifecycleInv
  <1>1. ASSUME NEW q \in Runs, RunUnchanged(q) PROVE RunGrows(q)
    BY <1>1 DEF RunUnchanged, RunGrows
  <1>2. CASE UNCHANGED vars
    BY <1>1, <1>2 DEF vars, runVars, agentVars, stepVars, history, RunUnchanged
  <1>3. ASSUME NEW r \in Runs, NEW a \in Agents, OpenRun(r, a), NEW q \in Runs
        PROVE  RunGrows(q)
    <2>1. CASE q # r
      BY <1>1, <1>3, <2>1 DEF OpenRun, ApplyAgentStarted, stepVars, RunUnchanged, TypeOK
    <2>2. CASE q = r
      <3>1. started[r] = {} /\ open[r]
        BY <1>3 DEF OpenRun, Opened, TreeInv, CloseInv
      <3>2. owner' = owner
        BY <1>3 DEF OpenRun, ApplyAgentStarted, stepVars
      <3> QED
        BY <1>3, <2>2, <3>1, <3>2 DEF OpenRun, RunGrows
    <2> QED
      BY <2>1, <2>2
  <1>4. ASSUME NEW r \in Runs, NEW a \in Agents, NEW p \in Agents, NEW ro \in Roles,
               StartAgent(r, a, p, ro), NEW q \in Runs
        PROVE  RunGrows(q)
    <2> USE <1>4 DEF StartAgent, ApplyAgentStarted, stepVars
    <2>1. p # Nobody
      BY LifecycleAssumption DEF LifecycleAssumption
    <2>2. CASE q # r
      BY <1>1, <2>1, <2>2 DEF RunUnchanged, TypeOK
    <2>3. CASE q = r
      <3>1. open[r] /\ a \notin started[r] /\ root' = root /\ owner' = owner
        BY <2>1 DEF AcceptsWork
      <3>2. started'[r] = started[r] \union {a}
        BY DEF TypeOK
      <3>3. \A b \in started[r] : parent'[r][b] = parent[r][b] /\ role'[r][b] = role[r][b]
        BY <3>1 DEF TypeOK
      <3> QED
        BY <2>3, <3>1, <3>2, <3>3 DEF RunGrows
    <2> QED
      BY <2>2, <2>3
  <1>5. ASSUME NEW r \in Runs, NEW a \in Agents, NEW ro \in Roles, CorrectStart(r, a, ro)
        PROVE  \A q \in Runs : RunGrows(q)
    <2>1. \A q \in Runs : RunInv(q)
      BY DEF RunInv
    <2> QED
      BY <1>1, <1>5, <2>1, CorrectStartKeeps
  <1>6. ASSUME NEW r \in Runs, NEW a \in Agents, NEW column \in Columns,
               Report(r, a, column) \/ CorrectReport(r, a, column)
        PROVE  \A q \in Runs : RunGrows(q)
    BY <1>1, <1>6 DEF Report, CorrectReport, ApplyReport, RunUnchanged, runVars, stepVars, history
  <1>7. ASSUME NEW r \in Runs, NEW a \in Agents, NEW s \in Steps,
               StartStep(r, a, s) \/ CorrectStepStart(r, a, s), NEW q \in Runs
        PROVE  RunGrows(q)
    <2>1. /\ ApplyStepStarted(r, a, s)
          /\ (owner[r][s] = Nobody /\ open[r]) \/ owner[r][s] = a
      BY <1>7 DEF StartStep, CorrectStepStart, AcceptsWork, Owns
    <2> USE <2>1 DEF ApplyStepStarted, runVars, agentVars, history
    <2>2. CASE q # r
      BY <1>1, <2>2 DEF RunUnchanged, TypeOK
    <2>3. CASE q = r
      <3>1. owner'[r][s] = a /\ \A t \in Steps : t # s => owner'[r][t] = owner[r][t]
        BY DEF TypeOK
      <3> QED
        BY <2>3, <3>1 DEF RunGrows
    <2> QED
      BY <2>2, <2>3
  <1>8. ASSUME NEW r \in Runs, NEW a \in Agents, NEW s \in Steps,
               CompleteStep(r, a, s) \/ CorrectStepCompletion(r, a, s)
        PROVE  \A q \in Runs : RunGrows(q)
    <2>1. ApplyStepCompleted(r, a, s)
      BY <1>8 DEF CompleteStep, CorrectStepCompletion
    <2> QED
      BY <2>1 DEF ApplyStepCompleted, runVars, agentVars, RunGrows
  <1>9. ASSUME NEW r \in Runs, NEW a \in Agents, FinishRun(r, a) \/ CorrectFinish(r, a)
        PROVE  \A q \in Runs : RunGrows(q)
    <2>1. ApplyRunFinished(r, a)
      BY <1>9 DEF FinishRun, CorrectFinish
    <2>2. \A q \in Runs : ~open[q] => ~open'[q]
      BY <2>1 DEF ApplyRunFinished, TypeOK
    <2> QED
      BY <2>1, <2>2 DEF ApplyRunFinished, agentVars, stepVars, RunGrows
  <1>10. ASSUME NEW r \in Runs, NEW a \in Agents, Note(r, a)
         PROVE  \A q \in Runs : RunGrows(q)
    BY <1>1, <1>10 DEF Note, RunUnchanged, runVars, agentVars, stepVars, history
  <1> QED
    BY <1>2, <1>3, <1>4, <1>5, <1>6, <1>7, <1>8, <1>9, <1>10 DEF Next, ByAgent

\* No event, a correction included, changes the root of a run, the parent or role
\* of an agent, or the owner of a step (lifecycle.go checkEffectiveCorrection).
THEOREM IdentitiesAreKept == Spec => IdentitiesStay
  <1>1. LifecycleInv /\ [Next]_vars =>
            [\A r \in Runs :
                /\ Opened(r) => root'[r] = root[r]
                /\ \A a \in started[r] : /\ a \in started'[r]
                                         /\ parent'[r][a] = parent[r][a]
                                         /\ role'[r][a] = role[r][a]
                /\ \A s \in Steps : owner[r][s] # Nobody => owner'[r][s] = owner[r][s]]_vars
    BY StepGrows DEF RunGrows
  <1> QED
    BY <1>1, LifecycleInvariant, PTL DEF Spec, IdentitiesStay

\* A finished run is never reopened and gets no further agent or step
\* (lifecycle.go isWorkEvent).
THEOREM FinishedRunsRest == Spec => FinishedRunGrowsNoMore
  <1>1. LifecycleInv /\ [Next]_vars =>
            [\A r \in Runs :
                ~open[r] => /\ ~open'[r]
                            /\ started'[r] = started[r]
                            /\ \A s \in Steps : owner'[r][s] = owner[r][s]]_vars
    BY StepGrows DEF RunGrows
  <1> QED
    BY <1>1, LifecycleInvariant, PTL DEF Spec, FinishedRunGrowsNoMore

-----------------------------------------------------------------------------
(* The plans.  What was published stays, whatever the guards of RunLifecycle    *)
(* accept.                                                                      *)

PlanRow == [run : Runs, state : States]
PlanKey == PlanIds \X Revisions \X PlanStepIds

\* The rows have their types, a current revision was published, and a published one has
\* a step.
PlansInv ==
    /\ current \in [Runs -> [PlanIds -> {0} \union Revisions]]
    /\ published \subseteq PlanIds \X Revisions
    /\ DOMAIN planSteps \subseteq PlanKey
    /\ planSteps \in [DOMAIN planSteps -> PlanRow]
    /\ \A r \in Runs : \A p \in PlanIds : current[r][p] # 0 => <<p, current[r][p]>> \in published
    /\ \A pv \in published : \E s \in PlanStepIds : <<pv[1], pv[2], s>> \in DOMAIN planSteps

LEMMA InitPlans == PlansInit => PlansInv
  BY SMT DEF PlansInit, PlansInv

\* Publishing adds a revision and rows of it, and replaces no row.
LEMMA PublishKeeps ==
    ASSUME PlansInv, NEW r \in Runs, NEW p \in PlanIds, NEW v \in Revisions,
           NEW S \in (SUBSET PlanStepIds) \ {{}}, NEW told \in [S -> States],
           ApplyPlanPublished(r, p, v, told)
    PROVE  PlansInv' /\ RevisionRests
<1> DEFINE new == Told(r, p, v, told)
<1> DEFINE keys == {<<p, v, s>> : s \in S}
<1>1. /\ DOMAIN new = keys
      /\ keys \subseteq PlanKey
      /\ \A key \in keys : new[key] \in PlanRow
  BY SMT DEF Told, PlanKey, PlanRow
<1>2. DOMAIN planSteps' = DOMAIN planSteps \union keys
  BY <1>1 DEF ApplyPlanPublished, FirstRowsWin
<1>3. \A key \in DOMAIN planSteps : planSteps'[key] = planSteps[key]
  BY <1>1 DEF ApplyPlanPublished, FirstRowsWin
<1>4. planSteps' \in [DOMAIN planSteps' -> PlanRow]
  BY <1>1 DEF ApplyPlanPublished, FirstRowsWin, PlansInv
<1> HIDE DEF new
<1>5. published' = published \union {<<p, v>>} /\ current' = [current EXCEPT ![r][p] = v]
  BY DEF ApplyPlanPublished
<1>6. current' \in [Runs -> [PlanIds -> {0} \union Revisions]]
  BY <1>5, SMT DEF PlansInv
<1>7. \A q \in Runs, o \in PlanIds : current'[q][o] # 0 => <<o, current'[q][o]>> \in published'
  BY <1>5, SMT DEF PlansInv
<1>8. ASSUME NEW pv \in published'
      PROVE  \E s \in PlanStepIds : <<pv[1], pv[2], s>> \in DOMAIN planSteps'
  <2>1. CASE pv \in published
    BY <2>1, <1>2 DEF PlansInv
  <2>2. CASE pv = <<p, v>>
    <3>1. PICK s \in S : TRUE
      OBVIOUS
    <3> QED  BY <2>2, <3>1, <1>2
  <2> QED  BY <2>1, <2>2, <1>5
<1>9. PlansInv'
  BY <1>1, <1>2, <1>4, <1>5, <1>6, <1>7, <1>8 DEF PlansInv
<1>10. ASSUME NEW pv \in published, pv # <<p, v>>
       PROVE  StepsOf(pv[1], pv[2], planSteps') = StepsOf(pv[1], pv[2], planSteps)
  <2>1. \A key \in keys : ~(key[1] = pv[1] /\ key[2] = pv[2])
    BY <1>10, SMT DEF PlansInv
  <2>2. {k \in DOMAIN planSteps' : k[1] = pv[1] /\ k[2] = pv[2]}
            = {k \in DOMAIN planSteps : k[1] = pv[1] /\ k[2] = pv[2]}
    BY <2>1, <1>2
  <2> QED  BY <2>2, <1>3 DEF StepsOf
<1>11. current'[r][p] = v
  BY <1>5 DEF PlansInv
<1>12. RevisionRests
  BY <1>2, <1>3, <1>10, <1>11 DEF RevisionRests
<1> QED  BY <1>9, <1>12

\* An update changes the state of one row of the revision that is current in its run.
LEMMA UpdateKeeps ==
    ASSUME PlansInv, NEW r \in Runs, NEW p \in PlanIds, NEW s \in PlanStepIds, NEW state \in States,
           ApplyPlanStepUpdated(r, p, s, state)
    PROVE  PlansInv' /\ RevisionRests
<1>1. DOMAIN planSteps' = DOMAIN planSteps /\ UNCHANGED <<current, published>>
  BY DEF ApplyPlanStepUpdated
<1>2. \A key \in DOMAIN planSteps :
          /\ planSteps'[key] \in PlanRow
          /\ planSteps'[key].run = planSteps[key].run
          /\ key # <<p, current[r][p], s>> => planSteps'[key] = planSteps[key]
  BY SMT DEF ApplyPlanStepUpdated, Updated, PlansInv, PlanRow
<1>3. planSteps' = [key \in DOMAIN planSteps' |-> planSteps'[key]]
  BY DEF ApplyPlanStepUpdated
<1>4. planSteps' \in [DOMAIN planSteps' -> PlanRow]
  BY <1>1, <1>2, <1>3
<1>5. PlansInv'
  BY <1>1, <1>4 DEF PlansInv
<1>6. ASSUME NEW pv \in published, pv # <<p, current[r][p]>>
      PROVE  StepsOf(pv[1], pv[2], planSteps') = StepsOf(pv[1], pv[2], planSteps)
  <2> DEFINE own == {k \in DOMAIN planSteps : k[1] = pv[1] /\ k[2] = pv[2]}
  <2>1. <<p, current[r][p], s>> \notin own
    BY <1>6, SMT DEF PlansInv
  <2>2. \A key \in own : planSteps'[key] = planSteps[key]
    BY <2>1, <1>2
  <2> QED  BY <2>2, <1>1 DEF StepsOf
<1>7. RevisionRests
  BY <1>1, <1>2, <1>6, SMT DEF RevisionRests, PlansInv
<1> QED  BY <1>5, <1>7

LEMMA RestKeeps == PlansInv /\ UNCHANGED planVars => PlansInv' /\ RevisionRests
  BY DEF PlansInv, planVars, RevisionRests, StepsOf

LEMMA StepPlans == PlansInv /\ [PlansNext]_<<vars, planVars>> => PlansInv' /\ RevisionRests
<1> SUFFICES ASSUME PlansInv, [PlansNext]_<<vars, planVars>>
             PROVE  PlansInv' /\ RevisionRests
  OBVIOUS
<1>1. CASE UNCHANGED planVars
  BY <1>1, RestKeeps
<1>2. ASSUME NEW r \in Runs, PlanPayload(r)
      PROVE  PlansInv' /\ RevisionRests
  BY <1>2, PublishKeeps, UpdateKeeps DEF PlanPayload
<1> QED  BY <1>1, <1>2 DEF PlansNext, PlanEvent, CorrectPlan

LEMMA CurrentFromInv == PlansInv => CurrentIsPublished
<1> SUFFICES ASSUME PlansInv, NEW r \in Runs, NEW p \in PlanIds, current[r][p] # 0
             PROVE  /\ <<p, current[r][p]>> \in published
                    /\ StepsOf(p, current[r][p], planSteps) # {}
  BY DEF CurrentIsPublished
<1>1. <<p, current[r][p]>> \in published
  BY DEF PlansInv
<1>2. PICK s \in PlanStepIds : <<p, current[r][p], s>> \in DOMAIN planSteps
  BY <1>1, SMT DEF PlansInv
<1>3. <<p, current[r][p], s>>[1] = p /\ <<p, current[r][p], s>>[2] = current[r][p]
  BY SMT
<1> QED  BY <1>1, <1>2, <1>3 DEF StepsOf

\* A run's current revision of a plan is one that was published, with steps; no title is
\* rewritten, and a revision that is current nowhere keeps its steps as they were last
\* seen (projector.go:260-345), in every number of runs, plans and steps.
THEOREM PublishedStays == PlansSpec => PublishedPlansStay
<1>1. PlansSpec => []PlansInv
  BY InitPlans, StepPlans, PTL DEF PlansSpec
<1>2. PlansSpec => []CurrentIsPublished
  BY <1>1, CurrentFromInv, PTL
<1>3. PlansSpec => [][RevisionRests]_<<vars, planVars>>
  BY <1>1, StepPlans, PTL DEF PlansSpec
<1> QED  BY <1>2, <1>3, PTL DEF PublishedPlansStay

\* Publishing and updating plans are notes to the lifecycle: with plans too, every step
\* is one that RunLifecycle has, and all that is proved of it above holds.
THEOREM PlansKeepTheLifecycle == PlansSpec => Spec
<1>1. [PlansNext]_<<vars, planVars>> => [Next]_vars
  BY DEF PlansNext, PlanEvent, CorrectPlan, Next, ByAgent
<1>2. PlansInit => Init
  BY DEF PlansInit
<1> QED  BY <1>1, <1>2, PTL DEF PlansSpec, Spec

=============================================================================
