------------------------------ MODULE PaneProofs ------------------------------
(* Theorems about the two panes beside the canvas.  The agents of a run: every     *)
(* agent is accounted for whatever is reported, and the rows are their reader's.   *)
(* First what is to be known of the folds and walks that RunAgents is written with *)
(* and of what hangs below what; then buildAgentTree with its cuts, the rows that  *)
(* visibleAgentRows makes of the tree, and what the folded ones stand for.         *)
(* The Inspector: what it lists is what the agents reported, each once, and the    *)
(* reader keeps the place in it, for a log of any length.  First lists of places   *)
(* in the log; then what the views make of them and how it is rendered; then the   *)
(* pages of a component's history, and what holds in every state.                  *)
EXTENDS RunAgents, Inspector, SequenceTheorems, FiniteSetTheorems, WellFoundedInduction, TLAPS

-----------------------------------------------------------------------------
(* Folds: what is defined step by step exists, and is what its steps say.        *)

LEMMA LeastNat ==
    ASSUME NEW T \in SUBSET Nat, T # {}
    PROVE  \E m \in T : \A n \in T : m <= n
  <1> DEFINE Less == {ss \in Nat \X Nat : ss[1] < ss[2]}
  <1>1. IsWellFoundedOn(Less, Nat)
    BY NatLessThanWellFounded DEF OpToRel
  <1> HIDE DEF Less
  <1>2. PICK m \in T : \A n \in T : ~(<<n, m>> \in Less)
    BY <1>1, WFMin
  <1>3. ASSUME NEW n \in T PROVE m <= n
    <2>1. n \in Nat /\ m \in Nat
      OBVIOUS
    <2>2. <<n, m>> \notin Less
      BY <1>2
    <2> QED
      BY <2>1, <2>2 DEF Less
  <1> QED
    BY <1>3

\* The maximum of the numbers from one.
LEMMA MaxUpTo ==
    ASSUME NEW n \in Nat
    PROVE  \A s \in SUBSET (1..n) : s # {} =>
               /\ Max(s) \in s
               /\ \A k \in s : k <= Max(s)
  <1> SUFFICES ASSUME NEW s \in SUBSET (1..n), s # {}
               PROVE  Max(s) \in s /\ \A k \in s : k <= Max(s)
    OBVIOUS
  <1> DEFINE T == {n - k : k \in s}
  <1>1. T \in SUBSET Nat /\ T # {}
    <2>1. \A k \in s : n - k \in Nat
      OBVIOUS
    <2> QED
      BY <2>1
  <1>2. PICK m \in T : \A k \in T : m <= k
    <2> HIDE DEF T
    <2> QED
      BY <1>1, LeastNat
  <1>3. PICK x \in s : m = n - x
    OBVIOUS
  <1>4. \A y \in s : x >= y
    <2> TAKE y \in s
    <2>1. n - y \in T
      OBVIOUS
    <2>2. m <= n - y
      BY <1>2, <2>1
    <2> QED
      BY <1>3, <2>2
  <1>5. Max(s) \in s /\ \A y \in s : Max(s) >= y
    BY <1>4 DEF Max
  <1> QED
    BY <1>5

\* g goes through the steps 1 to m, from a base.
Runs(g, m, base, step) == g[0] = base /\ \A k \in 1..m : g[k] = step[k][g[k - 1]]

LEMMA RecursionExists ==
    ASSUME NEW T, NEW base \in T, NEW n \in Nat, NEW step \in [1..n -> [T -> T]]
    PROVE  \E g \in [0..n -> T] : Runs(g, n, base, step)
  <1> DEFINE Endless == {m \in 0..n : ~ \E g \in [0..m -> T] : Runs(g, m, base, step)}
  <1> SUFFICES ASSUME Endless # {} PROVE FALSE
    <2>1. n \in 0..n
      OBVIOUS
    <2> QED
      BY <2>1
  <1>1. PICK m \in Endless : \A k \in Endless : m <= k
    <2>1. Endless \in SUBSET Nat
      OBVIOUS
    <2> HIDE DEF Endless
    <2> QED
      BY <2>1, LeastNat
  <1>2. m # 0
    <2> DEFINE g == [k \in 0..0 |-> base]
    <2>1. g \in [0..0 -> T] /\ Runs(g, 0, base, step)
      BY DEF Runs
    <2> QED
      BY <2>1
  <1>3. m \in 1..n /\ m - 1 \in 0..n
    BY <1>2
  <1>9. m - 1 \notin Endless
    <2> HIDE DEF Endless
    <2> QED
      BY <1>1, <1>3
  <1>4. PICK g \in [0..(m - 1) -> T] : Runs(g, m - 1, base, step)
    BY <1>3, <1>9
  <1> DEFINE f == [k \in 0..m |-> IF k = m THEN step[m][g[m - 1]] ELSE g[k]]
  <1>5. f \in [0..m -> T]
    <2>1. g[m - 1] \in T
      BY <1>3
    <2>2. step[m][g[m - 1]] \in T
      BY <1>3, <2>1
    <2> QED
      BY <1>3, <2>2
  <1>6. Runs(f, m, base, step)
    <2>1. f[0] = base
      BY <1>3, <1>4 DEF Runs
    <2>2. ASSUME NEW k \in 1..m PROVE f[k] = step[k][f[k - 1]]
      <3>1. k - 1 \in 0..(m - 1) /\ k \in 0..m /\ m \in Nat
        BY <1>3
      <3>2. f[k - 1] = g[k - 1]
        BY <3>1
      <3>3. CASE k = m
        BY <3>1, <3>2, <3>3
      <3>4. CASE k # m
        <4>1. k \in 1..(m - 1)
          BY <3>1, <3>4
        <4>2. f[k] = g[k]
          BY <3>1, <3>4
        <4> QED
          BY <1>4, <3>2, <4>1, <4>2 DEF Runs
      <3> QED
        BY <3>3, <3>4
    <2> QED
      BY <2>1, <2>2 DEF Runs
  <1> QED
    BY <1>1, <1>5, <1>6

\* g is the fold of every set of steps, the last one taken last.
FoldsUp(g, n, base, step) ==
    \A s \in SUBSET (1..n) : g[s] = IF s = {} THEN base ELSE step[Max(s)][g[s \ {Max(s)}]]

\* What a fold from the left is defined by, exists.
LEMMA FoldExists ==
    ASSUME NEW T, NEW base \in T, NEW n \in Nat, NEW step \in [1..n -> [T -> T]]
    PROVE  \E g \in [SUBSET (1..n) -> T] : FoldsUp(g, n, base, step)
  <1> DEFINE S == SUBSET (1..n)
             Run(s, h) == /\ h[0] = base
                          /\ \A k \in 1..n : h[k] = IF k \in s THEN step[k][h[k - 1]] ELSE h[k - 1]
             runs == [s \in S |-> CHOOSE h \in [0..n -> T] : Run(s, h)]
             fold(s) == runs[s]
             g == [s \in SUBSET (1..n) |-> fold(s)[n]]
  <1>0. ASSUME NEW s \in S PROVE \E h \in [0..n -> T] : Run(s, h)
    <2> DEFINE In == [k \in 1..n |-> IF k \in s THEN step[k] ELSE [t \in T |-> t]]
    <2>1. In \in [1..n -> [T -> T]]
      OBVIOUS
    <2>2. PICK h \in [0..n -> T] : Runs(h, n, base, In)
      <3> HIDE DEF In
      <3> QED
        BY <2>1, RecursionExists
    <2>3. ASSUME NEW k \in 1..n
          PROVE  h[k] = IF k \in s THEN step[k][h[k - 1]] ELSE h[k - 1]
      <3>1. h[k - 1] \in T
        OBVIOUS
      <3> QED
        BY <2>2, <3>1 DEF Runs
    <2> QED
      BY <2>2, <2>3 DEF Runs
  <1>1. \A s \in SUBSET (1..n) : fold(s) \in [0..n -> T] /\ Run(s, fold(s))
    <2> HIDE DEF Run
    <2> QED
      BY <1>0
  <1> HIDE DEF runs
  <1>2. \A s \in SUBSET (1..n), k \in 1..n :
            fold(s)[k] = IF k \in s THEN step[k][fold(s)[k - 1]] ELSE fold(s)[k - 1]
    BY <1>1
  <1>3. \A s \in SUBSET (1..n) : fold(s)[0] = base
    BY <1>1
  <1>4. g \in [SUBSET (1..n) -> T]
    BY <1>1
  \* Where nothing is taken from m on, nothing changes.
  <1>5. ASSUME NEW s \in SUBSET (1..n), NEW m \in 0..n, \A k \in s : k <= m
        PROVE  fold(s)[n] = fold(s)[m]
    <2> DEFINE Wrong == {k \in Nat : k + m <= n /\ fold(s)[m + k] # fold(s)[m]}
    <2>1. Wrong = {}
      <3> SUFFICES ASSUME Wrong # {} PROVE FALSE
        OBVIOUS
      <3>1. PICK k \in Wrong : \A j \in Wrong : k <= j
        <4>1. Wrong \in SUBSET Nat
          OBVIOUS
        <4> HIDE DEF Wrong
        <4> QED
          BY <4>1, LeastNat
      <3>2. k # 0
        OBVIOUS
      <3>3. k - 1 \in Nat /\ k - 1 \notin Wrong
        BY <3>1, <3>2
      <3>4. fold(s)[m + (k - 1)] = fold(s)[m]
        BY <3>3
      <3>5. m + k \in 1..n /\ m + k \notin s /\ (m + k) - 1 = m + (k - 1)
        BY <1>5, <3>2
      <3>6. fold(s)[m + k] = fold(s)[(m + k) - 1]
        BY <1>2, <3>5
      <3>7. fold(s)[m + k] # fold(s)[m]
        OBVIOUS
      <3> QED
        BY <3>4, <3>5, <3>6, <3>7
    <2>2. n - m \in Nat /\ (n - m) + m = n /\ m + (n - m) = n
      OBVIOUS
    <2>3. n - m \notin Wrong
      BY <2>1
    <2> QED
      BY <2>2, <2>3
  \* Up to m, what is taken after m does not matter.
  <1>6. ASSUME NEW s \in SUBSET (1..n), NEW t \in SUBSET (1..n), NEW m \in 0..n,
               \A k \in 1..m : k \in s <=> k \in t
        PROVE  fold(s)[m] = fold(t)[m]
    <2> DEFINE Wrong == {k \in 0..m : fold(s)[k] # fold(t)[k]}
    <2>1. Wrong = {}
      <3> SUFFICES ASSUME Wrong # {} PROVE FALSE
        OBVIOUS
      <3>1. PICK k \in Wrong : \A j \in Wrong : k <= j
        <4>1. Wrong \in SUBSET Nat
          OBVIOUS
        <4> HIDE DEF Wrong
        <4> QED
          BY <4>1, LeastNat
      <3>2. k # 0
        BY <1>3
      <3>3. k - 1 \in 0..m /\ k - 1 \notin Wrong /\ k \in 1..m /\ k \in 1..n
        BY <3>1, <3>2
      <3>4. fold(s)[k - 1] = fold(t)[k - 1]
        BY <3>3
      <3>5. fold(s)[k] # fold(t)[k]
        OBVIOUS
      <3>6. /\ fold(s)[k] = IF k \in s THEN step[k][fold(s)[k - 1]] ELSE fold(s)[k - 1]
            /\ fold(t)[k] = IF k \in t THEN step[k][fold(t)[k - 1]] ELSE fold(t)[k - 1]
        BY <1>2, <3>3
      <3> QED
        BY <1>6, <3>3, <3>4, <3>5, <3>6
    <2> QED
      BY <2>1
  <1>7. ASSUME NEW s \in SUBSET (1..n)
        PROVE  g[s] = IF s = {} THEN base ELSE step[Max(s)][g[s \ {Max(s)}]]
    <2>1. CASE s = {}
      <3>1. fold(s)[n] = fold(s)[0]
        BY <1>5, <2>1
      <3> QED
        BY <1>3, <2>1, <3>1
    <2>2. CASE s # {}
      <3> DEFINE m == Max(s)
                 t == s \ {m}
      <3>1. m \in s /\ \A k \in s : k <= m
        BY <2>2, MaxUpTo
      <3> HIDE DEF m
      <3>2. m \in 1..n /\ m \in 0..n /\ m - 1 \in 0..n /\ t \in SUBSET (1..n)
        BY <3>1
      <3>3. fold(s)[n] = fold(s)[m]
        BY <1>5, <3>1, <3>2
      <3>4. fold(s)[m] = step[m][fold(s)[m - 1]]
        BY <1>2, <3>1, <3>2
      <3>5. fold(s)[m - 1] = fold(t)[m - 1]
        <4>1. \A k \in 1..(m - 1) : k \in s <=> k \in t
          BY <3>2
        <4> QED
          BY <1>6, <3>2, <4>1
      <3>6. fold(t)[m - 1] = fold(t)[n]
        <4>1. \A k \in t : k <= m - 1
          BY <3>1, <3>2
        <4> QED
          BY <1>5, <3>2, <4>1
      <3>7. g[s] = fold(s)[n] /\ g[t] = fold(t)[n]
        BY <3>2
      <3>8. g[s] = step[m][g[t]]
        BY <3>3, <3>4, <3>5, <3>6, <3>7
      <3> QED
        BY <2>2, <3>8 DEF m
    <2> QED
      BY <2>1, <2>2
  <1>8. FoldsUp(g, n, base, step)
    <2> HIDE DEF g
    <2> QED
      BY <1>7 DEF FoldsUp
  <1> QED
    BY <1>4, <1>8

LEMMA MinOf ==
    ASSUME NEW s \in SUBSET Nat, s # {}
    PROVE  Min(s) \in s /\ \A k \in s : Min(s) <= k
  <1>1. \E m \in s : \A k \in s : m <= k
    BY LeastNat
  <1> QED
    BY <1>1 DEF Min

LEMMA UpToIsMax ==
    ASSUME NEW n \in Nat, n # 0
    PROVE  Max(1..n) = n /\ (1..n) \ {n} = 1..(n - 1)
  <1>1. Max(1..n) \in 1..n /\ \A k \in 1..n : k <= Max(1..n)
    <2>1. 1..n # {} /\ 1..n \in SUBSET (1..n)
      OBVIOUS
    <2> QED
      BY <2>1, MaxUpTo
  <1>2. n \in 1..n
    OBVIOUS
  <1> QED
    BY <1>1, <1>2

\* What is kept of the first k elements of seq.
Taken(done, k, seq, A, S) ==
    /\ done \in Seq(A)
    /\ \A x : (\E i \in DOMAIN done : done[i] = x) <=> (x \in S /\ \E i \in 1..k : seq[i] = x)
    /\ \A i, j \in DOMAIN done : i < j =>
           \E p, q \in 1..k : p < q /\ done[i] = seq[p] /\ done[j] = seq[q]

\* A filtered list is made of the elements that are kept, in their order.
LEMMA KeptFacts ==
    ASSUME NEW A, NEW seq \in Seq(A), NEW S
    PROVE  Taken(Picked(seq, S), Len(seq), seq, A, S)
  <1> DEFINE n == Len(seq)
             T == Seq(A)
             op(done, x) == IF x \in S THEN Append(done, x) ELSE done
             step == [k \in 1..n |-> [t \in T |-> op(t, seq[k])]]
             iter == CHOOSE g : g = [s \in SUBSET (DOMAIN seq) |->
                                        IF s = {} THEN <<>> ELSE op(g[s \ {Max(s)}], seq[Max(s)])]
  <1>0. n \in Nat /\ DOMAIN seq = 1..n /\ \A k \in 1..n : seq[k] \in A
    OBVIOUS
  <1>1. Picked(seq, S) = iter[1..n]
    BY <1>0 DEF Picked, FoldLeft, MapThenFoldSet
  <1>2. step \in [1..n -> [T -> T]]
    BY <1>0
  <1>3. PICK g \in [SUBSET (1..n) -> T] : FoldsUp(g, n, <<>>, step)
    <2>1. <<>> \in T
      OBVIOUS
    <2> HIDE DEF step, T, n
    <2> QED
      BY <1>0, <1>2, <2>1, FoldExists
  <1>4. \A s \in SUBSET (1..n) : g[s] = IF s = {} THEN <<>> ELSE op(g[s \ {Max(s)}], seq[Max(s)])
    <2> TAKE s \in SUBSET (1..n)
    <2>1. CASE s = {}
      BY <1>3, <2>1 DEF FoldsUp
    <2>2. CASE s # {}
      <3>1. Max(s) \in 1..n /\ s \ {Max(s)} \in SUBSET (1..n)
        BY <1>0, <2>2, MaxUpTo
      <3>2. g[s \ {Max(s)}] \in T
        BY <3>1
      <3> QED
        BY <1>3, <2>2, <3>1, <3>2 DEF FoldsUp
    <2> QED
      BY <2>1, <2>2
  <1> HIDE DEF op
  <1>5. g = [s \in SUBSET (DOMAIN seq) |-> IF s = {} THEN <<>> ELSE op(g[s \ {Max(s)}], seq[Max(s)])]
    BY <1>0, <1>4
  <1>6. iter = [s \in SUBSET (DOMAIN seq) |-> IF s = {} THEN <<>> ELSE op(iter[s \ {Max(s)}], seq[Max(s)])]
    BY <1>5
  <1> HIDE DEF iter
  <1>7. iter[1..0] = <<>> /\ \A k \in 1..n : iter[1..k] = op(iter[1..(k - 1)], seq[k])
    <2>1. iter[{}] = <<>>
      BY <1>6
    <2>2. ASSUME NEW k \in 1..n PROVE iter[1..k] = op(iter[1..(k - 1)], seq[k])
      <3>1. 1..k \in SUBSET (DOMAIN seq) /\ 1..k # {} /\ k \in Nat /\ k # 0
        BY <1>0
      <3>2. Max(1..k) = k /\ (1..k) \ {k} = 1..(k - 1)
        BY <3>1, UpToIsMax
      <3> QED
        BY <1>6, <3>1, <3>2
    <2>3. 1..0 = {}
      OBVIOUS
    <2> QED
      BY <2>1, <2>2, <2>3
  <1> DEFINE Wrong == {k \in 0..n : ~Taken(iter[1..k], k, seq, A, S)}
  <1>8. Wrong = {}
    <2> SUFFICES ASSUME Wrong # {} PROVE FALSE
      OBVIOUS
    <2>1. PICK k \in Wrong : \A j \in Wrong : k <= j
      <3>1. Wrong \in SUBSET Nat
        BY <1>0
      <3> HIDE DEF Wrong
      <3> QED
        BY <3>1, LeastNat
    <2>2. k # 0
      <3>1. Taken(<<>>, 0, seq, A, S)
        BY DEF Taken
      <3> QED
        BY <1>7, <3>1
    <2>3. k \in 1..n /\ k - 1 \in 0..n
      BY <1>0, <2>2
    <2>4. Taken(iter[1..(k - 1)], k - 1, seq, A, S)
      <3>1. k - 1 \notin Wrong
        <4> HIDE DEF Wrong
        <4> QED
          BY <2>1, <2>3
      <3> QED
        BY <2>3, <3>1
    <2> DEFINE done == iter[1..(k - 1)]
    <2>5. iter[1..k] = op(done, seq[k])
      BY <1>7, <2>3
    <2>6. Taken(done, k - 1, seq, A, S)
      BY <2>4
    <2> HIDE DEF done
    <2>7. seq[k] \in A
      BY <1>0, <2>3
    <2>8. CASE seq[k] \notin S
      <3>1. iter[1..k] = done
        BY <2>5, <2>8 DEF op
      <3>2. Taken(done, k, seq, A, S)
        <4>1. ASSUME NEW x \in S PROVE (\E i \in 1..k : seq[i] = x) <=> \E i \in 1..(k - 1) : seq[i] = x
          BY <2>3, <2>8
        <4>2. 1..(k - 1) \subseteq 1..k
          BY <2>3
        <4>3. \A x : (\E i \in DOMAIN done : done[i] = x) <=> (x \in S /\ \E i \in 1..k : seq[i] = x)
          BY <2>6, <4>1 DEF Taken
        <4>4. ASSUME NEW i \in DOMAIN done, NEW j \in DOMAIN done, i < j
              PROVE  \E p, q \in 1..k : p < q /\ done[i] = seq[p] /\ done[j] = seq[q]
          BY <2>6, <4>2, <4>4 DEF Taken
        <4> QED
          BY <2>6, <4>3, <4>4 DEF Taken
      <3> QED
        BY <3>1, <3>2
    <2>9. CASE seq[k] \in S
      <3> DEFINE new == Append(done, seq[k])
                 m == Len(done)
      <3>1. iter[1..k] = new
        BY <2>5, <2>9 DEF op
      <3>2. /\ new \in Seq(A) /\ m \in Nat /\ DOMAIN done = 1..m /\ DOMAIN new = 1..(m + 1)
            /\ new[m + 1] = seq[k] /\ \A i \in 1..m : new[i] = done[i]
        BY <2>6, <2>7 DEF Taken
      <3> HIDE DEF new, m
      <3>3. ASSUME NEW x
            PROVE  (\E i \in DOMAIN new : new[i] = x) <=> (x \in S /\ \E i \in 1..k : seq[i] = x)
        <4>1. (\E i \in DOMAIN new : new[i] = x) <=> ((\E i \in DOMAIN done : done[i] = x) \/ x = seq[k])
          <5>1. DOMAIN new = DOMAIN done \cup {m + 1}
            BY <3>2
          <5> QED
            BY <3>2, <5>1
        <4>2. (\E i \in 1..k : seq[i] = x) <=> ((\E i \in 1..(k - 1) : seq[i] = x) \/ x = seq[k])
          BY <2>3
        <4> QED
          BY <2>6, <2>9, <4>1, <4>2 DEF Taken
      <3>4. ASSUME NEW i \in DOMAIN new, NEW j \in DOMAIN new, i < j
            PROVE  \E p, q \in 1..k : p < q /\ new[i] = seq[p] /\ new[j] = seq[q]
        <4>1. i \in 1..m
          BY <3>2, <3>4
        <4>2. CASE j \in 1..m
          <5>1. PICK p, q \in 1..(k - 1) : p < q /\ done[i] = seq[p] /\ done[j] = seq[q]
            BY <2>6, <3>2, <3>4, <4>1, <4>2 DEF Taken
          <5>2. p \in 1..k /\ q \in 1..k
            BY <2>3
          <5> QED
            BY <3>2, <4>1, <4>2, <5>1, <5>2
        <4>3. CASE j = m + 1
          <5>1. PICK p \in 1..(k - 1) : seq[p] = done[i]
            BY <2>6, <3>2, <4>1 DEF Taken
          <5>2. p \in 1..k /\ k \in 1..k /\ p < k
            BY <2>3
          <5> QED
            BY <3>2, <4>1, <4>3, <5>1, <5>2
        <4> QED
          BY <3>2, <4>2, <4>3
      <3>5. Taken(new, k, seq, A, S)
        BY <3>2, <3>3, <3>4 DEF Taken
      <3> QED
        BY <3>1, <3>5
    <2> QED
      BY <2>8, <2>9
  <1>9. Taken(iter[1..n], n, seq, A, S)
    BY <1>0, <1>8
  <1> QED
    BY <1>1, <1>9

\* What every element of S stands for, itself included, is counted once.
LEMMA CountedFacts ==
    ASSUME NEW S, IsFiniteSet(S), NEW U, IsFiniteSet(U), NEW D \in [S -> SUBSET U], NEW w,
           \A x \in S : w[x] \in Nat /\ Cardinality(D[x]) = w[x] + 1,
           \A x, y \in S : x # y => D[x] \cap D[y] = {}
    PROVE  Counted(w, S) = Cardinality(UNION {D[x] : x \in S})
  <1> DEFINE all(s) == UNION {D[x] : x \in s}
             one(s) == CHOOSE x \in s : TRUE
             sum == [s \in SUBSET S |-> Cardinality(all(s))]
             iter == CHOOSE g : g = [s \in SUBSET S |-> IF s = {} THEN 0 ELSE g[s \ {one(s)}] + w[one(s)] + 1]
  <1>1. Counted(w, S) = iter[S]
    BY DEF Counted, FoldSet, MapThenFoldSet
  <1>2. ASSUME NEW s \in SUBSET S, s # {}
        PROVE  /\ one(s) \in s /\ s \ {one(s)} \in SUBSET S
               /\ sum[s] = sum[s \ {one(s)}] + w[one(s)] + 1
    <2> DEFINE x == one(s)
               rest == s \ {x}
    <2>1. x \in s
      BY <1>2
    <2> HIDE DEF x
    <2>2. rest \in SUBSET S /\ x \in S
      BY <2>1
    <2>3. all(s) = all(rest) \cup D[x] /\ all(rest) \in SUBSET U /\ D[x] \in SUBSET U
      BY <2>1, <2>2
    <2>4. all(rest) \cap D[x] = {}
      BY <2>1, <2>2
    <2> HIDE DEF rest, all
    <2>5. /\ IsFiniteSet(all(rest)) /\ IsFiniteSet(D[x])
          /\ Cardinality(all(rest)) \in Nat /\ Cardinality(D[x]) \in Nat
      BY <2>3, FS_Subset, FS_CardinalityType
    <2>6. Cardinality(all(rest) \cap D[x]) = 0
      BY <2>4, FS_EmptySet
    <2>7. Cardinality(all(s)) = Cardinality(all(rest)) + Cardinality(D[x])
      <3>1. Cardinality(all(rest) \cup D[x])
                = Cardinality(all(rest)) + Cardinality(D[x]) - Cardinality(all(rest) \cap D[x])
        BY <2>5, FS_Union
      <3>2. all(s) = all(rest) \cup D[x]
        BY <2>3
      <3> QED
        BY <2>5, <2>6, <3>1, <3>2
    <2>8. w[x] \in Nat /\ Cardinality(D[x]) = w[x] + 1
      BY <2>2
    <2>9. sum[s] = Cardinality(all(s)) /\ sum[rest] = Cardinality(all(rest))
      BY <2>2
    <2>10. sum[s] = sum[rest] + w[x] + 1
      <3> HIDE DEF sum
      <3> QED
        BY <2>5, <2>7, <2>8, <2>9
    <2> QED
      BY <2>1, <2>2, <2>10 DEF x, rest
  <1>3. sum[{}] = 0
    <2>1. all({}) = {}
      OBVIOUS
    <2> HIDE DEF all
    <2> QED
      BY <2>1, FS_EmptySet
  <1> HIDE DEF all, one
  <1>4. sum = [s \in SUBSET S |-> IF s = {} THEN 0 ELSE sum[s \ {one(s)}] + w[one(s)] + 1]
    <2>1. \A s \in SUBSET S : sum[s] = IF s = {} THEN 0 ELSE sum[s \ {one(s)}] + w[one(s)] + 1
      <3> HIDE DEF sum
      <3> QED
        BY <1>2, <1>3
    <2>2. sum = [s \in SUBSET S |-> sum[s]]
      OBVIOUS
    <2> HIDE DEF sum
    <2> QED
      BY <2>1, <2>2
  <1> HIDE DEF sum
  <1>5. iter = [s \in SUBSET S |-> IF s = {} THEN 0 ELSE iter[s \ {one(s)}] + w[one(s)] + 1]
    BY <1>4
  <1> HIDE DEF iter
  <1>6. \A s \in SUBSET S : iter[s] = IF s = {} THEN 0 ELSE iter[s \ {one(s)}] + w[one(s)] + 1
    BY <1>5
  <1> DEFINE Wrong == {s \in SUBSET S : iter[s] # sum[s]}
             Sizes == {Cardinality(s) : s \in Wrong}
  <1>7. Wrong = {}
    <2> SUFFICES ASSUME Wrong # {} PROVE FALSE
      OBVIOUS
    <2>1. \A s \in SUBSET S : IsFiniteSet(s) /\ Cardinality(s) \in Nat
      BY FS_Subset, FS_CardinalityType
    <2>2. PICK m \in Sizes : \A k \in Sizes : m <= k
      <3>1. Sizes \in SUBSET Nat /\ Sizes # {}
        BY <2>1
      <3> HIDE DEF Sizes
      <3> QED
        BY <3>1, LeastNat
    <2>3. PICK s \in Wrong : m = Cardinality(s)
      OBVIOUS
    <2>4. s \in SUBSET S /\ s # {}
      BY <1>3, <1>6
    <2>5. one(s) \in s /\ s \ {one(s)} \in SUBSET S
      BY <1>2, <2>4
    <2>6. Cardinality(s \ {one(s)}) = Cardinality(s) - 1 /\ Cardinality(s) \in Nat
      BY <2>1, <2>4, <2>5, FS_RemoveElement
    <2>7. s \ {one(s)} \notin Wrong
      <3>1. ~(m <= Cardinality(s) - 1)
        BY <2>3, <2>6
      <3>2. Cardinality(s) - 1 \notin Sizes
        <4> HIDE DEF Sizes
        <4> QED
          BY <2>2, <3>1
      <3> QED
        BY <2>6, <3>2
    <2>8. iter[s \ {one(s)}] = sum[s \ {one(s)}]
      BY <2>5, <2>7
    <2>9. iter[s] = sum[s]
      BY <1>2, <1>6, <2>4, <2>8
    <2> QED
      BY <2>9
  <1>8. iter[S] = sum[S]
    BY <1>7
  <1> QED
    BY <1>1, <1>8 DEF sum, all

-----------------------------------------------------------------------------
(* What hangs below what, where no parents go round.                             *)

\* From no set of agents do all parents stay in the set: there is no cycle.
Grounded(S, parent) == \A X \in SUBSET S : X # {} => \E x \in X : parent[x] \notin X

\* anc is what everyone hangs below.
Hierarchy(S, parent, anc) ==
    /\ None \notin S /\ parent \in [S -> S \cup {None}] /\ Grounded(S, parent)
    /\ anc \in [S -> SUBSET S]
    /\ \A x \in S : anc[x] = IF parent[x] = None THEN {} ELSE anc[parent[x]] \cup {parent[x]}

Heirs(S, anc, x) == {y \in S : x \in anc[y]}

LEMMA AboveIsBelow ==
    ASSUME NEW S, NEW parent, NEW anc, Hierarchy(S, parent, anc)
    PROVE  \A x \in S : \A y \in anc[x] : anc[y] \subseteq anc[x]
  <1> DEFINE Wrong == {x \in S : ~ \A y \in anc[x] : anc[y] \subseteq anc[x]}
  <1>1. ASSUME Wrong # {} PROVE FALSE
    <2>1. PICK x \in Wrong : parent[x] \notin Wrong
      <3>1. Wrong \in SUBSET S
        OBVIOUS
      <3> HIDE DEF Wrong
      <3> QED
        BY <1>1, <3>1 DEF Hierarchy, Grounded
    <2>2. parent[x] # None /\ parent[x] \in S /\ anc[x] = anc[parent[x]] \cup {parent[x]}
      BY DEF Hierarchy
    <2>3. \A y \in anc[parent[x]] : anc[y] \subseteq anc[parent[x]]
      BY <2>1, <2>2
    <2> QED
      BY <2>2, <2>3
  <1> QED
    BY <1>1

LEMMA NobodyAboveThemselves ==
    ASSUME NEW S, NEW parent, NEW anc, Hierarchy(S, parent, anc)
    PROVE  \A x \in S : x \notin anc[x]
  <1> DEFINE Wrong == {x \in S : x \in anc[x]}
  <1>1. ASSUME Wrong # {} PROVE FALSE
    <2>1. PICK x \in Wrong : parent[x] \notin Wrong
      <3>1. Wrong \in SUBSET S
        OBVIOUS
      <3> HIDE DEF Wrong
      <3> QED
        BY <1>1, <3>1 DEF Hierarchy, Grounded
    <2>2. x \in S /\ parent[x] \in S /\ anc[x] = anc[parent[x]] \cup {parent[x]}
      BY DEF Hierarchy
    <2>3. x \in anc[parent[x]]
      BY <2>1, <2>2
    <2>4. parent[x] \in anc[x] /\ anc[x] \subseteq anc[parent[x]]
      BY <2>2, <2>3, AboveIsBelow
    <2> QED
      BY <2>1, <2>2, <2>4
  <1> QED
    BY <1>1

LEMMA AboveIsALine ==
    ASSUME NEW S, NEW parent, NEW anc, Hierarchy(S, parent, anc)
    PROVE  \A x \in S : \A y, z \in anc[x] : y = z \/ y \in anc[z] \/ z \in anc[y]
  <1> DEFINE Wrong == {x \in S : ~ \A y, z \in anc[x] : y = z \/ y \in anc[z] \/ z \in anc[y]}
  <1>1. ASSUME Wrong # {} PROVE FALSE
    <2>1. PICK x \in Wrong : parent[x] \notin Wrong
      <3>1. Wrong \in SUBSET S
        OBVIOUS
      <3> HIDE DEF Wrong
      <3> QED
        BY <1>1, <3>1 DEF Hierarchy, Grounded
    <2>2. parent[x] # None /\ parent[x] \in S /\ anc[x] = anc[parent[x]] \cup {parent[x]}
      BY DEF Hierarchy
    <2>3. \A y, z \in anc[parent[x]] : y = z \/ y \in anc[z] \/ z \in anc[y]
      BY <2>1, <2>2
    <2> QED
      BY <2>2, <2>3
  <1> QED
    BY <1>1

\* Of those above someone that are in a set, one is the topmost.
LEMMA TopmostOf ==
    ASSUME NEW S, NEW parent, NEW anc, Hierarchy(S, parent, anc), NEW C \in SUBSET S, C # {}
    PROVE  \E t \in C : anc[t] \cap C = {}
  <1> DEFINE Under == {x \in S : x \in C \/ anc[x] \cap C # {}}
  <1>1. PICK x \in Under : parent[x] \notin Under
    <2>1. Under \in SUBSET S /\ Under # {}
      OBVIOUS
    <2> HIDE DEF Under
    <2> QED
      BY <2>1 DEF Hierarchy, Grounded
  <1>2. CASE parent[x] = None
    BY <1>2 DEF Hierarchy
  <1>3. CASE parent[x] # None
    <2>1. parent[x] \in S /\ anc[x] = anc[parent[x]] \cup {parent[x]}
      BY <1>3 DEF Hierarchy
    <2> QED
      BY <1>1, <2>1
  <1> QED
    BY <1>2, <1>3

\* Who hangs below someone is below one of the children, or is one.
LEMMA HeirsOfChildren ==
    ASSUME NEW S, NEW parent, NEW anc, Hierarchy(S, parent, anc), NEW x \in S
    PROVE  /\ Heirs(S, anc, x) =
                  UNION {Heirs(S, anc, c) \cup {c} : c \in {c \in S : parent[c] = x}}
           /\ \A c, d \in S : parent[c] = x /\ parent[d] = x /\ c # d =>
                  (Heirs(S, anc, c) \cup {c}) \cap (Heirs(S, anc, d) \cup {d}) = {}
  <1> DEFINE kids == {c \in S : parent[c] = x}
             below(c) == Heirs(S, anc, c) \cup {c}
  <1>0. x # None
    BY DEF Hierarchy
  <1>1. \A c \in kids : c \in S /\ anc[c] = anc[x] \cup {x}
    BY <1>0 DEF Hierarchy
  <1>2. ASSUME NEW c \in kids PROVE below(c) \subseteq Heirs(S, anc, x)
    <2>1. c \in Heirs(S, anc, x)
      BY <1>1 DEF Heirs
    <2>2. ASSUME NEW y \in S, c \in anc[y] PROVE x \in anc[y]
      BY <1>1, <2>2, AboveIsBelow
    <2> QED
      BY <2>1, <2>2 DEF Heirs
  <1> DEFINE Wrong == {y \in Heirs(S, anc, x) : \A c \in kids : y \notin below(c)}
  <1>3. ASSUME Wrong # {} PROVE FALSE
    <2>1. PICK y \in Wrong : parent[y] \notin Wrong
      <3>1. Wrong \in SUBSET S
        BY DEF Heirs
      <3> HIDE DEF Wrong
      <3> QED
        BY <1>3, <3>1 DEF Hierarchy, Grounded
    <2>2. y \in S /\ x \in anc[y]
      BY DEF Heirs
    <2>3. parent[y] \in S /\ parent[y] # None /\ anc[y] = anc[parent[y]] \cup {parent[y]}
      BY <2>2 DEF Hierarchy
    <2>4. parent[y] # x
      BY <2>2
    <2>5. parent[y] \in Heirs(S, anc, x)
      BY <2>2, <2>3, <2>4 DEF Heirs
    <2>6. PICK c \in kids : parent[y] \in below(c)
      BY <2>1, <2>5
    <2>7. c \in anc[y]
      BY <2>3, <2>6 DEF Heirs
    <2>8. y \in below(c)
      BY <2>2, <2>7 DEF Heirs
    <2> QED
      BY <2>8
  <1>4. ASSUME NEW c \in kids, NEW d \in kids, c # d, NEW y \in below(c), y \in below(d)
        PROVE  FALSE
    <2>1. c \notin anc[d] /\ d \notin anc[c]
      <3>1. x \notin anc[x] /\ c \notin anc[c] /\ d \notin anc[d]
        BY NobodyAboveThemselves
      <3>2. c \notin anc[x] /\ d \notin anc[x]
        BY <1>1, <3>1, AboveIsBelow
      <3>3. c # x /\ d # x
        BY <1>1, <3>1
      <3> QED
        BY <1>1, <3>2, <3>3
    <2>2. CASE y = c \/ y = d
      BY <1>4, <2>1, <2>2 DEF Heirs
    <2>3. CASE y # c /\ y # d
      <3>1. y \in S /\ c \in anc[y] /\ d \in anc[y]
        BY <1>4, <2>3 DEF Heirs
      <3> QED
        BY <1>4, <2>1, <3>1, AboveIsALine
    <2> QED
      BY <2>2, <2>3
  <1>5. Heirs(S, anc, x) = UNION {below(c) : c \in kids}
    BY <1>2, <1>3
  <1>6. \A c, d \in S : parent[c] = x /\ parent[d] = x /\ c # d => below(c) \cap below(d) = {}
    BY <1>4
  <1> QED
    BY <1>5, <1>6

-----------------------------------------------------------------------------
(* Walks up the parents that were reported.                                      *)

\* The agents of a run, each listed once.
Listed(tree) ==
    /\ None \notin AgentIds(tree)
    /\ tree.order \in Seq(AgentIds(tree))
    /\ \A i, j \in DOMAIN tree.order : i # j => tree.order[i] # tree.order[j]
    /\ \A id \in AgentIds(tree) : \E i \in DOMAIN tree.order : tree.order[i] = id

LEMMA AsManyAsListed ==
    ASSUME NEW tree, Listed(tree)
    PROVE  IsFiniteSet(AgentIds(tree)) /\ Cardinality(AgentIds(tree)) = Len(tree.order)
  <1> DEFINE n == Len(tree.order)
             ids == AgentIds(tree)
  <1>1. n \in Nat /\ DOMAIN tree.order = 1..n /\ tree.order \in [1..n -> ids]
    BY DEF Listed
  <1>2. tree.order \in Bijection(1..n, ids)
    BY <1>1 DEF Listed, Bijection, Injection, Surjection, IsInjective
  <1>3. IsFiniteSet(1..n) /\ Cardinality(1..n) = n
    BY <1>1, FS_Interval
  <1>4. ExistsBijection(1..n, ids)
    BY <1>2 DEF ExistsBijection
  <1> QED
    BY <1>3, <1>4, FS_Bijection

\* Among the places of a walk that is as long as there are agents, and never ends, two
\* are the same.
LEMMA WalkComesBack ==
    ASSUME NEW tree, Listed(tree), NEW way \in [0..Len(tree.order) -> AgentIds(tree)]
    PROVE  \E j, k \in 0..Len(tree.order) : j < k /\ way[j] = way[k]
  <1> DEFINE n == Len(tree.order)
  <1>1. n \in Nat
    BY DEF Listed
  <1>2. IsFiniteSet(0..n) /\ Cardinality(0..n) = n + 1
    BY <1>1, FS_Interval
  <1>3. Cardinality(AgentIds(tree)) < Cardinality(0..n)
    BY <1>1, <1>2, AsManyAsListed
  <1>4. PICK j, k \in 0..n : j # k /\ way[j] = way[k]
    BY <1>2, <1>3, AsManyAsListed, FS_PigeonHole
  <1> QED
    BY <1>1, <1>4

-----------------------------------------------------------------------------

IsWay(way, up, n, T, id) ==
    way \in [0..n -> T] /\ way[0] = id /\ \A k \in 1..n : way[k] = up[way[k - 1]]

LEMMA WayExists ==
    ASSUME NEW T, NEW up \in [T -> T], NEW n \in Nat, NEW id \in T
    PROVE  \E way : IsWay(way, up, n, T, id)
  <1> DEFINE step == [k \in 1..n |-> up]
  <1>1. step \in [1..n -> [T -> T]]
    OBVIOUS
  <1>2. PICK way \in [0..n -> T] : Runs(way, n, id, step)
    <2> HIDE DEF step
    <2> QED
      BY <1>1, RecursionExists
  <1>3. IsWay(way, up, n, T, id)
    BY <1>2 DEF IsWay, Runs
  <1> QED
    BY <1>3

LEMMA WayIs ==
    ASSUME NEW T, NEW up \in [T -> T], NEW n \in Nat, NEW id \in T
    PROVE  IsWay(Way(up, id, n), up, n, T, id)
  <1> DEFINE way == CHOOSE w : w = [k \in 0..n |-> IF k = 0 THEN id ELSE up[w[k - 1]]]
  <1>1. Way(up, id, n) = [k \in 0..n |-> way[k]]
    BY DEF Way
  <1>2. PICK h : IsWay(h, up, n, T, id)
    BY WayExists
  <1>3. ASSUME NEW k \in 0..n PROVE h[k] = IF k = 0 THEN id ELSE up[h[k - 1]]
    <2>1. CASE k = 0
      BY <1>2, <2>1 DEF IsWay
    <2>2. CASE k # 0
      <3>1. k \in 1..n
        BY <2>2
      <3> QED
        BY <1>2, <2>2, <3>1 DEF IsWay
    <2> QED
      BY <2>1, <2>2
  <1>4. h = [k \in 0..n |-> IF k = 0 THEN id ELSE up[h[k - 1]]]
    BY <1>2, <1>3 DEF IsWay
  <1>5. way = [k \in 0..n |-> IF k = 0 THEN id ELSE up[way[k - 1]]]
    BY <1>4
  <1> HIDE DEF way
  <1> DEFINE Wrong == {k \in 0..n : way[k] # h[k]}
  <1>6. ASSUME Wrong # {} PROVE FALSE
    <2>1. PICK k \in Wrong : \A j \in Wrong : k <= j
      <3>1. Wrong \in SUBSET Nat
        OBVIOUS
      <3> HIDE DEF Wrong
      <3> QED
        BY <1>6, <3>1, LeastNat
    <2>2. k # 0
      BY <1>3, <1>5
    <2>3. k - 1 \in 0..n /\ k - 1 \notin Wrong
      BY <2>1, <2>2
    <2>4. way[k - 1] = h[k - 1]
      BY <2>3
    <2>5. way[k] = IF k = 0 THEN id ELSE up[way[k - 1]]
      BY <1>5
    <2> QED
      BY <1>3, <2>2, <2>4, <2>5
  <1>7. Way(up, id, n) = h
    <2>1. h = [k \in 0..n |-> h[k]]
      BY <1>2 DEF IsWay
    <2>2. \A k \in 0..n : way[k] = h[k]
      BY <1>6
    <2> QED
      BY <1>1, <2>1, <2>2
  <1> QED
    BY <1>2, <1>7

LEMMA WayFacts ==
    ASSUME NEW tree, Listed(tree), NEW id \in AgentIds(tree)
    PROVE  IsWay(WayFrom(tree, id), Upward(tree), Len(tree.order), AgentIds(tree) \cup {None}, id)
  <1> DEFINE T == AgentIds(tree) \cup {None}
  <1>1. Len(tree.order) \in Nat
    BY DEF Listed
  <1>2. Upward(tree) \in [T -> T] /\ id \in T
    BY DEF Upward
  <1> HIDE DEF T
  <1>3. IsWay(Way(Upward(tree), id, Len(tree.order)), Upward(tree), Len(tree.order), T, id)
    BY <1>1, <1>2, WayIs
  <1> QED
    BY <1>3 DEF WayFrom, T

\* A walk stays in every set that nobody's parent leaves.
LEMMA WayStays ==
    ASSUME NEW T, NEW up, NEW n \in Nat, NEW X \in SUBSET T, NEW id \in X, NEW way,
           IsWay(way, up, n, T, id), \A x \in X : up[x] \in X
    PROVE  \A k \in 0..n : way[k] \in X
  <1> DEFINE Wrong == {k \in 0..n : way[k] \notin X}
  <1>1. ASSUME Wrong # {} PROVE FALSE
    <2>1. PICK k \in Wrong : \A j \in Wrong : k <= j
      <3>1. Wrong \in SUBSET Nat
        OBVIOUS
      <3> HIDE DEF Wrong
      <3> QED
        BY <1>1, <3>1, LeastNat
    <2>2. k # 0
      BY DEF IsWay
    <2>3. k - 1 \in 0..n /\ k \in 1..n /\ k - 1 \notin Wrong
      BY <2>1, <2>2
    <2>4. way[k - 1] \in X /\ way[k] = up[way[k - 1]]
      BY <2>3 DEF IsWay
    <2> QED
      BY <2>4
  <1> QED
    BY <1>1

-----------------------------------------------------------------------------
(* findCycleCuts. *)

LEMMA StopFacts ==
    ASSUME NEW tree, Listed(tree), NEW id \in AgentIds(tree), NEW resolved \in SUBSET AgentIds(tree),
           NEW way, way = WayFrom(tree, id), NEW stop, stop = StopOf(way, resolved)
    PROVE  /\ stop \in 0..Len(tree.order)
           /\ \A k \in 0..(stop - 1) : way[k] \in AgentIds(tree) \ resolved
           /\ \A j, k \in 0..(stop - 1) : j # k => way[j] # way[k]
           /\ way[stop] \in resolved \cup {None} \/ \E j \in 0..(stop - 1) : way[j] = way[stop]
  <1> DEFINE n == Len(tree.order)
             ids == AgentIds(tree)
             Stops == {k \in DOMAIN way : way[k] \in resolved \cup {None} \/ \E j \in 0..(k - 1) : way[j] = way[k]}
  <1>1. n \in Nat /\ IsWay(way, Upward(tree), n, ids \cup {None}, id)
    <2>1. n \in Nat
      BY DEF Listed
    <2> QED
      BY <2>1, WayFacts
  <1>2. DOMAIN way = 0..n /\ \A k \in 0..n : way[k] \in ids \cup {None}
    BY <1>1 DEF IsWay
  <1>3. Stops \in SUBSET Nat
    BY <1>1, <1>2
  <1>4. Stops # {}
    <2>1. CASE \E k \in 0..n : way[k] = None
      BY <1>2, <2>1
    <2>2. CASE \A k \in 0..n : way[k] # None
      <3>1. way \in [0..n -> ids]
        BY <1>1, <1>2, <2>2 DEF IsWay
      <3>2. PICK j, k \in 0..n : j < k /\ way[j] = way[k]
        BY <3>1, WalkComesBack
      <3>3. j \in 0..(k - 1)
        BY <1>1, <3>2
      <3> QED
        BY <1>2, <3>2, <3>3
    <2> QED
      BY <2>1, <2>2
  <1>5. stop \in Stops /\ \A k \in Stops : stop <= k
    <2>1. stop = Min(Stops)
      BY DEF StopOf
    <2> HIDE DEF Stops
    <2> QED
      BY <1>3, <1>4, <2>1, MinOf
  <1>6. stop \in 0..n
    BY <1>2, <1>5
  <1>7. ASSUME NEW k \in 0..(stop - 1)
        PROVE  way[k] \in ids \ resolved /\ \A j \in 0..(k - 1) : way[j] # way[k]
    <2>1. k \in 0..n /\ k < stop
      BY <1>1, <1>6
    <2>2. k \notin Stops
      <3> HIDE DEF Stops
      <3> QED
        BY <1>5, <1>6, <2>1
    <2> QED
      BY <1>2, <2>1, <2>2
  <1>8. ASSUME NEW j \in 0..(stop - 1), NEW k \in 0..(stop - 1), j # k PROVE way[j] # way[k]
    <2>1. j \in 0..(k - 1) \/ k \in 0..(j - 1)
      BY <1>6, <1>8
    <2> QED
      BY <1>7, <2>1
  <1>9. way[stop] \in resolved \cup {None} \/ \E j \in 0..(stop - 1) : way[j] = way[stop]
    BY <1>5
  <1> QED
    BY <1>6, <1>7, <1>8, <1>9

-----------------------------------------------------------------------------
(* findCycleCuts: every cycle is cut at one of its agents.                       *)

IsCycle(tree, c) == c \in SUBSET AgentIds(tree) /\ \A m \in c : Range(WayFrom(tree, m)) = c

\* What the walks have resolved: nobody's way leaves it, it stays nowhere without a cut,
\* and a cycle that was met is all of it, with one cut.
Resolves(tree, cuts, resolved) ==
    /\ resolved \in SUBSET AgentIds(tree) /\ cuts \in SUBSET resolved
    /\ \A x \in resolved : Upward(tree)[x] \in resolved \cup {None}
    /\ \A X \in SUBSET resolved : X # {} => \E x \in X : x \in cuts \/ Upward(tree)[x] \notin X
    /\ \A c : IsCycle(tree, c) =>
           c \cap resolved = {} \/ (c \subseteq resolved /\ \E m \in c : c \cap cuts = {m})

LEMMA CycleGoesUp ==
    ASSUME NEW tree, Listed(tree), NEW c, IsCycle(tree, c)
    PROVE  \A m \in c : Upward(tree)[m] \in c
  <1> SUFFICES ASSUME NEW m \in c PROVE Upward(tree)[m] \in c
    OBVIOUS
  <1> DEFINE n == Len(tree.order)
             way == WayFrom(tree, m)
  <1>1. m \in AgentIds(tree) /\ Range(way) = c
    BY DEF IsCycle
  <1>2. n \in Nat
    BY DEF Listed
  <1>3. IsWay(way, Upward(tree), n, AgentIds(tree) \cup {None}, m)
    BY <1>1, WayFacts
  <1>4. n # 0
    BY <1>1, <1>2 DEF Listed
  <1>5. 1 \in 1..n /\ 1 \in 0..n /\ 1 - 1 = 0
    BY <1>2, <1>4
  <1>6. way[1] = Upward(tree)[way[1 - 1]] /\ way[0] = m /\ DOMAIN way = 0..n
    BY <1>3, <1>5 DEF IsWay
  <1>7. way[1] \in Range(way)
    BY <1>5, <1>6 DEF Range
  <1> QED
    BY <1>1, <1>5, <1>6, <1>7

LEMMA WalkResolves ==
    ASSUME NEW tree, Listed(tree), NEW cuts, NEW resolved, Resolves(tree, cuts, resolved),
           NEW id \in AgentIds(tree), NEW way, way = WayFrom(tree, id),
           NEW stop, stop = StopOf(way, resolved)
    PROVE  LET walked == {way[k] : k \in 0..(stop - 1)}
           IN  /\ Resolves(tree, cuts \cup CutOf(way, stop, resolved), resolved \cup walked)
               /\ id \in resolved \cup walked
  <1> DEFINE n == Len(tree.order)
             ids == AgentIds(tree)
             up == Upward(tree)
             walked == {way[k] : k \in 0..(stop - 1)}
             z == way[stop]
             now == resolved \cup walked
             cut == cuts \cup CutOf(way, stop, resolved)
  <1>0. n \in Nat /\ None \notin ids
    BY DEF Listed
  <1>1. IsWay(way, up, n, ids \cup {None}, id)
    BY WayFacts
  <1>2. /\ resolved \in SUBSET ids /\ cuts \in SUBSET resolved
        /\ \A x \in resolved : up[x] \in resolved \cup {None}
    BY DEF Resolves
  <1>3. /\ stop \in 0..n
        /\ \A k \in 0..(stop - 1) : way[k] \in ids \ resolved
        /\ \A j, k \in 0..(stop - 1) : j # k => way[j] # way[k]
        /\ z \in resolved \cup {None} \/ \E j \in 0..(stop - 1) : way[j] = z
    BY <1>2, StopFacts
  <1>4. \A k \in 0..(stop - 1) : k \in 0..n /\ k + 1 \in 1..n /\ (k + 1) - 1 = k /\ up[way[k]] = way[k + 1]
    <2> SUFFICES ASSUME NEW k \in 0..(stop - 1)
                 PROVE  k \in 0..n /\ k + 1 \in 1..n /\ (k + 1) - 1 = k /\ up[way[k]] = way[k + 1]
      OBVIOUS
    <2>1. k \in 0..n /\ k + 1 \in 1..n /\ (k + 1) - 1 = k
      BY <1>0, <1>3
    <2> QED
      BY <1>1, <2>1 DEF IsWay
  <1>5. walked \in SUBSET (ids \ resolved)
    BY <1>3
  <1>6. z \in resolved \cup {None} => cut = cuts
    BY DEF CutOf
  <1>7. z \notin resolved \cup {None} => z \in walked /\ cut = cuts \cup {z}
    BY <1>3 DEF CutOf
  <1>8. cut \in SUBSET now /\ now \in SUBSET ids
    BY <1>2, <1>5, <1>6, <1>7
  <1>9. id \in now
    <2>1. CASE stop = 0
      BY <1>1, <1>3, <1>0, <2>1 DEF IsWay
    <2>2. CASE stop # 0
      <3>1. 0 \in 0..(stop - 1)
        BY <1>3, <2>2
      <3> QED
        BY <1>1, <3>1 DEF IsWay
    <2> QED
      BY <2>1, <2>2
  <1> HIDE DEF z, cut
  <1>10. ASSUME NEW k \in 0..(stop - 1), k + 1 \notin 0..(stop - 1) PROVE k + 1 = stop /\ up[way[k]] = z
    <2>1. k + 1 = stop
      BY <1>3, <1>10
    <2> QED
      BY <1>4, <2>1 DEF z
  <1>11. ASSUME NEW x \in now PROVE up[x] \in now \cup {None}
    <2>1. CASE x \in resolved
      BY <1>2, <2>1
    <2>2. CASE x \in walked
      <3>1. PICK k \in 0..(stop - 1) : x = way[k]
        BY <2>2
      <3>2. CASE k + 1 \in 0..(stop - 1)
        BY <1>4, <3>1, <3>2
      <3>3. CASE k + 1 \notin 0..(stop - 1)
        BY <1>7, <1>10, <3>1, <3>3
      <3> QED
        BY <3>2, <3>3
    <2> QED
      BY <2>1, <2>2
  \* A set of resolved agents is left, or has a cut.
  <1>12. ASSUME NEW X \in SUBSET now, X # {}, \A x \in X : x \notin cut /\ up[x] \in X PROVE FALSE
    <2>0. X \in SUBSET ids
      BY <1>8
    <2>1. X \cap resolved = {}
      <3> DEFINE Y == X \cap resolved
      <3>1. ASSUME Y # {} PROVE FALSE
        <4>1. PICK x \in Y : x \in cuts \/ up[x] \notin Y
          <5>1. Y \in SUBSET resolved
            OBVIOUS
          <5> HIDE DEF Y
          <5> QED
            BY <3>1, <5>1 DEF Resolves
        <4>2. x \notin cuts /\ up[x] \in X /\ up[x] \in resolved \cup {None}
          BY <1>2, <1>6, <1>7, <1>12
        <4> QED
          BY <1>0, <2>0, <4>1, <4>2
      <3> QED
        BY <3>1
    <2>2. \A x \in X : \E k \in 0..(stop - 1) : x = way[k]
      BY <2>1
    <2> DEFINE Left == {stop - k : k \in {k \in 0..(stop - 1) : way[k] \in X}}
    <2>3. PICK l \in Left : \A m \in Left : l <= m
      <3>1. Left \in SUBSET Nat
        BY <1>3
      <3>2. Left # {}
        BY <1>12, <2>2
      <3> HIDE DEF Left
      <3> QED
        BY <3>1, <3>2, LeastNat
    <2>4. PICK k \in 0..(stop - 1) : l = stop - k /\ way[k] \in X
      OBVIOUS
    <2>5. up[way[k]] \in X /\ way[k] \notin cut
      BY <1>12, <2>4
    <2>6. CASE k + 1 \in 0..(stop - 1)
      <3>1. stop - (k + 1) \in Left
        BY <1>4, <2>5, <2>6
      <3>2. stop - k <= stop - (k + 1)
        BY <2>3, <2>4, <3>1
      <3> QED
        BY <1>3, <2>4, <3>2
    <2>7. CASE k + 1 \notin 0..(stop - 1)
      <3>1. z \in X
        BY <1>10, <2>5, <2>7
      <3>2. z \notin resolved \cup {None}
        BY <1>0, <2>0, <2>1, <3>1
      <3> QED
        BY <1>7, <1>12, <3>1, <3>2
    <2> QED
      BY <2>6, <2>7
  \* A cycle that is met is walked from end to end.
  <1>13. ASSUME NEW c, IsCycle(tree, c), c \cap now # {}
         PROVE  c \subseteq now /\ \E m \in c : c \cap cut = {m}
    <2>0. c \in SUBSET ids /\ (\A x \in c : up[x] \in c)
      BY <1>13, CycleGoesUp DEF IsCycle
    <2>1. CASE c \cap resolved # {}
      <3>1. c \subseteq resolved /\ \E m \in c : c \cap cuts = {m}
        BY <1>13, <2>1 DEF Resolves
      <3>2. c \cap cut = c \cap cuts
        BY <1>5, <1>6, <1>7, <3>1
      <3> QED
        BY <3>1, <3>2
    <2>2. CASE c \cap resolved = {}
      <3>1. PICK i \in 0..(stop - 1) : way[i] \in c
        BY <1>13, <2>2
      <3> DEFINE Lost == {k \in 0..stop : k >= i /\ way[k] \notin c}
      <3>2. ASSUME Lost # {} PROVE FALSE
        <4>1. PICK k \in Lost : \A j \in Lost : k <= j
          <5>1. Lost \in SUBSET Nat
            BY <1>3
          <5> HIDE DEF Lost
          <5> QED
            BY <3>2, <5>1, LeastNat
        <4>2. k \in 0..stop /\ k > i
          BY <1>3, <3>1
        <4>3. k - 1 \in 0..(stop - 1) /\ (k - 1) + 1 = k /\ k - 1 >= i
          BY <1>3, <4>2
        <4>4. k - 1 \notin Lost /\ k - 1 \in 0..stop
          <5>1. ~(k <= k - 1) /\ k - 1 \in 0..stop
            BY <1>3, <4>2
          <5> HIDE DEF Lost
          <5> QED
            BY <4>1, <5>1
        <4>5. way[k - 1] \in c
          BY <4>3, <4>4
        <4>6. way[k] \in c
          BY <1>4, <2>0, <4>3, <4>5
        <4> QED
          BY <4>6
      <3>3. z \in c
        <4>1. stop \in 0..stop /\ stop >= i
          BY <1>3
        <4> QED
          BY <3>2, <4>1 DEF z
      <3>4. z \in ids /\ z \notin resolved \cup {None}
        BY <1>0, <2>0, <2>2, <3>3
      <3>5. z \in walked /\ cut = cuts \cup {z}
        BY <1>7, <3>4
      <3>6. PICK j \in 0..(stop - 1) : z = way[j]
        BY <3>5
      <3> DEFINE round == {way[k] : k \in {k \in 0..(stop - 1) : k >= j}}
      <3>7. round \in SUBSET (ids \cup {None}) /\ z \in round
        BY <1>3, <3>6
      <3>8. ASSUME NEW x \in round PROVE up[x] \in round
        <4>1. PICK k \in 0..(stop - 1) : k >= j /\ x = way[k]
          OBVIOUS
        <4>2. CASE k + 1 \in 0..(stop - 1)
          <5>1. k + 1 >= j
            BY <4>1
          <5> QED
            BY <1>4, <4>1, <4>2, <5>1
        <4>3. CASE k + 1 \notin 0..(stop - 1)
          BY <1>10, <3>7, <4>1, <4>3
        <4> QED
          BY <4>2, <4>3
      <3> HIDE DEF round
      <3>9. c \subseteq round
        <4>1. Range(WayFrom(tree, z)) = c
          BY <1>13, <3>3 DEF IsCycle
        <4>2. IsWay(WayFrom(tree, z), up, n, ids \cup {None}, z)
          BY <3>4, WayFacts
        <4>3. \A k \in 0..n : WayFrom(tree, z)[k] \in round
          <5> HIDE DEF n, up, ids
          <5> QED
            BY <1>0, <3>7, <3>8, <4>2, WayStays
        <4>4. DOMAIN WayFrom(tree, z) = 0..n
          BY <4>2 DEF IsWay
        <4> QED
          BY <4>1, <4>3, <4>4 DEF Range
      <3>10. c \subseteq walked
        BY <3>9 DEF round
      <3>11. c \cap cut = {z}
        BY <1>2, <2>2, <3>3, <3>5
      <3> QED
        BY <3>3, <3>10, <3>11
    <2> QED
      BY <2>1, <2>2
  <1>14. Resolves(tree, cut, now)
    BY <1>8, <1>11, <1>12, <1>13 DEF Resolves
  <1> QED
    BY <1>9, <1>14 DEF cut

\* What one walk adds.
WalkedFrom(tree, state, start) ==
    LET way == WayFrom(tree, start)
        stop == StopOf(way, state.resolved)
    IN  [cuts |-> state.cuts \cup CutOf(way, stop, state.resolved),
         resolved |-> state.resolved \cup {way[k] : k \in 0..(stop - 1)}]

\* findCycleCuts resolves every agent.
LEMMA CutsFacts ==
    ASSUME NEW tree, Listed(tree)
    PROVE  Resolves(tree, CycleCuts(tree), AgentIds(tree))
  <1> DEFINE n == Len(tree.order)
             ids == AgentIds(tree)
             T == [cuts : SUBSET ids, resolved : SUBSET ids]
             base == [cuts |-> {}, resolved |-> {}]
             op(state, start) == WalkedFrom(tree, state, start)
             step == [k \in 1..n |-> [t \in T |-> op(t, tree.order[k])]]
             iter == CHOOSE g : g = [s \in SUBSET (DOMAIN tree.order) |->
                                        IF s = {} THEN base ELSE op(g[s \ {Max(s)}], tree.order[Max(s)])]
  <1>0. n \in Nat /\ DOMAIN tree.order = 1..n /\ \A k \in 1..n : tree.order[k] \in ids
    BY DEF Listed
  <1>1. CycleCuts(tree) = iter[1..n].cuts
    BY <1>0 DEF CycleCuts, FoldLeft, MapThenFoldSet, WalkedFrom
  <1>2. ASSUME NEW t \in T, NEW start \in ids PROVE op(t, start) \in T
    <2> DEFINE way == WayFrom(tree, start)
               stop == StopOf(way, t.resolved)
    <2>1. /\ stop \in 0..n
          /\ \A k \in 0..(stop - 1) : way[k] \in ids \ t.resolved
      BY StopFacts
    <2>2. IsWay(way, Upward(tree), n, ids \cup {None}, start)
      BY WayFacts
    <2>3. CutOf(way, stop, t.resolved) \in SUBSET ids
      BY <2>1, <2>2 DEF CutOf, IsWay
    <2> HIDE DEF way, stop
    <2> QED
      BY <2>1, <2>3 DEF WalkedFrom, way, stop
  <1> HIDE DEF op
  <1>3. step \in [1..n -> [T -> T]]
    BY <1>0, <1>2
  <1>4. PICK g \in [SUBSET (1..n) -> T] : FoldsUp(g, n, base, step)
    <2>1. base \in T
      OBVIOUS
    <2> HIDE DEF step, T, n, base
    <2> QED
      BY <1>0, <1>3, <2>1, FoldExists
  <1> HIDE DEF T, base
  <1>5. \A s \in SUBSET (1..n) : g[s] = IF s = {} THEN base ELSE op(g[s \ {Max(s)}], tree.order[Max(s)])
    <2> TAKE s \in SUBSET (1..n)
    <2>1. CASE s = {}
      BY <1>4, <2>1 DEF FoldsUp
    <2>2. CASE s # {}
      <3>1. Max(s) \in 1..n /\ s \ {Max(s)} \in SUBSET (1..n)
        BY <1>0, <2>2, MaxUpTo
      <3>2. g[s \ {Max(s)}] \in T
        BY <3>1
      <3> QED
        BY <1>4, <2>2, <3>1, <3>2 DEF FoldsUp
    <2> QED
      BY <2>1, <2>2
  <1>6. g = [s \in SUBSET (DOMAIN tree.order) |->
                IF s = {} THEN base ELSE op(g[s \ {Max(s)}], tree.order[Max(s)])]
    BY <1>0, <1>5
  <1>7. iter = [s \in SUBSET (DOMAIN tree.order) |->
                   IF s = {} THEN base ELSE op(iter[s \ {Max(s)}], tree.order[Max(s)])]
    BY <1>6
  <1> HIDE DEF iter
  <1>8. iter[1..0] = base /\ \A k \in 1..n : iter[1..k] = op(iter[1..(k - 1)], tree.order[k])
    <2>1. iter[{}] = base
      BY <1>7
    <2>2. ASSUME NEW k \in 1..n PROVE iter[1..k] = op(iter[1..(k - 1)], tree.order[k])
      <3>1. 1..k \in SUBSET (DOMAIN tree.order) /\ 1..k # {} /\ k \in Nat /\ k # 0
        <4>1. k \in 1..k /\ 1..k \subseteq 1..n /\ k \in Nat /\ k # 0
          BY <1>0
        <4> QED
          BY <1>0, <4>1
      <3>2. Max(1..k) = k /\ (1..k) \ {k} = 1..(k - 1)
        BY <3>1, UpToIsMax
      <3> QED
        BY <1>7, <3>1, <3>2
    <2>3. 1..0 = {}
      OBVIOUS
    <2> QED
      BY <2>1, <2>2, <2>3
  <1> DEFINE Good(k) == /\ Resolves(tree, iter[1..k].cuts, iter[1..k].resolved)
                        /\ \A i \in 1..k : tree.order[i] \in iter[1..k].resolved
             Wrong == {k \in 0..n : ~Good(k)}
  <1>9. ASSUME Wrong # {} PROVE FALSE
    <2>1. PICK k \in Wrong : \A j \in Wrong : k <= j
      <3>1. Wrong \in SUBSET Nat
        BY <1>0
      <3> HIDE DEF Wrong
      <3> QED
        BY <1>9, <3>1, LeastNat
    <2>2. k # 0
      <3>1. Resolves(tree, {}, {})
        BY DEF Resolves
      <3>2. iter[1..0].cuts = {} /\ iter[1..0].resolved = {}
        BY <1>8 DEF base
      <3>3. Resolves(tree, iter[1..0].cuts, iter[1..0].resolved)
        BY <3>1, <3>2
      <3>4. Good(0)
        BY <3>3
      <3> HIDE DEF Good
      <3> QED
        BY <3>4
    <2>3. k \in 1..n /\ k - 1 \in 0..n
      BY <1>0, <2>2
    <2>4. Good(k - 1)
      <3>1. k - 1 \notin Wrong
        <4> HIDE DEF Wrong
        <4> QED
          BY <2>1, <2>3
      <3> QED
        BY <2>3, <3>1
    <2> DEFINE state == iter[1..(k - 1)]
               start == tree.order[k]
               way == WayFrom(tree, start)
               stop == StopOf(way, state.resolved)
    <2>5. iter[1..k] = WalkedFrom(tree, state, start)
      BY <1>8, <2>3 DEF op
    <2>6. start \in ids
      BY <1>0, <2>3
    <2>7. Resolves(tree, state.cuts, state.resolved) /\ \A i \in 1..(k - 1) : tree.order[i] \in state.resolved
      BY <2>4
    <2> HIDE DEF state
    <2>12. way = WayFrom(tree, start) /\ stop = StopOf(way, state.resolved)
      OBVIOUS
    <2> HIDE DEF way, stop
    <2>8. /\ Resolves(tree, state.cuts \cup CutOf(way, stop, state.resolved),
                      state.resolved \cup {way[j] : j \in 0..(stop - 1)})
          /\ start \in state.resolved \cup {way[j] : j \in 0..(stop - 1)}
      <3> HIDE DEF start
      <3> QED
        BY <2>6, <2>7, <2>12, WalkResolves
    <2>9. /\ iter[1..k].cuts = state.cuts \cup CutOf(way, stop, state.resolved)
          /\ iter[1..k].resolved = state.resolved \cup {way[j] : j \in 0..(stop - 1)}
      BY <2>5 DEF WalkedFrom, way, stop
    <2>10. ASSUME NEW i \in 1..k PROVE tree.order[i] \in iter[1..k].resolved
      BY <2>3, <2>7, <2>8, <2>9
    <2>11. Resolves(tree, iter[1..k].cuts, iter[1..k].resolved)
      BY <2>8, <2>9
    <2> QED
      BY <2>10, <2>11
  <1>10. Good(n)
    BY <1>0, <1>9
  <1>11. iter[1..n].resolved = ids
    <2>1. iter[1..n].resolved \in SUBSET ids
      BY <1>10 DEF Resolves
    <2>2. \A id \in ids : \E i \in 1..n : tree.order[i] = id
      BY <1>0 DEF Listed
    <2> QED
      BY <1>10, <2>1, <2>2
  <1> QED
    BY <1>1, <1>10, <1>11

-----------------------------------------------------------------------------
(* The ways up a tree whose cycles are cut, and the tree of an answer.           *)

\* The way from an agent to above the root, where no parents go round.
LEMMA WayEnds ==
    ASSUME NEW tree, Listed(tree), NEW up, NEW T, T = AgentIds(tree) \cup {None}, up \in [T -> T],
           up[None] = None, Grounded(AgentIds(tree), up), NEW id \in T
    PROVE  Way(up, id, Len(tree.order))[Len(tree.order)] = None
  <1> DEFINE n == Len(tree.order)
             way == Way(up, id, n)
             ids == AgentIds(tree)
  <1>1. n \in Nat /\ None \notin ids
    BY DEF Listed
  <1>2. IsWay(way, up, n, T, id)
    BY <1>1, WayIs
  <1> HIDE DEF way
  <1> SUFFICES ASSUME way[n] # None PROVE FALSE
    BY DEF way
  <1>3. ASSUME NEW k \in 0..n, way[k] = None PROVE FALSE
    <2> DEFINE Wrong == {m \in k..n : way[m] # None}
    <2>1. PICK m \in Wrong : \A j \in Wrong : m <= j
      <3>1. Wrong \in SUBSET Nat /\ n \in Wrong
        BY <1>1
      <3> HIDE DEF Wrong
      <3> QED
        BY <3>1, LeastNat
    <2>2. m \in Nat /\ k \in Nat /\ m >= k /\ m <= n /\ m # k
      BY <1>1, <1>3
    <2>3. m - 1 \in k..n /\ m \in 1..n /\ ~(m <= m - 1)
      BY <1>1, <2>2
    <2>4. m - 1 \notin Wrong
      <3> HIDE DEF Wrong
      <3> QED
        BY <2>1, <2>3
    <2>5. way[m - 1] = None /\ way[m] = up[way[m - 1]]
      BY <1>2, <2>3, <2>4 DEF IsWay
    <2> QED
      BY <2>5
  <1>4. way \in [0..n -> ids]
    BY <1>2, <1>3 DEF IsWay
  <1>5. PICK j, k \in 0..n : j < k /\ way[j] = way[k]
    BY <1>4, WalkComesBack
  <1> DEFINE X == {way[i] : i \in j..(k - 1)}
  <1>6. \A i \in j..(k - 1) : i \in 0..n /\ i + 1 \in 1..n /\ (i + 1) - 1 = i
    BY <1>1, <1>5
  <1>7. X \in SUBSET ids /\ way[j] \in X
    <2>1. j \in j..(k - 1)
      BY <1>5
    <2> QED
      BY <1>4, <1>6, <2>1
  <1>8. \A x \in X : up[x] \in X
    <2> TAKE x \in X
    <2>1. PICK i \in j..(k - 1) : x = way[i]
      OBVIOUS
    <2>2. up[x] = way[i + 1]
      BY <1>2, <1>6, <2>1 DEF IsWay
    <2>3. CASE i + 1 = k
      BY <1>5, <1>7, <2>2, <2>3
    <2>4. CASE i + 1 # k
      <3>1. i + 1 \in j..(k - 1)
        BY <1>5, <2>4
      <3> QED
        BY <2>2, <3>1
    <2> QED
      BY <2>3, <2>4
  <1> HIDE DEF X
  <1> QED
    BY <1>7, <1>8 DEF Grounded

\* The way of a parent is that of the child, from its second place on.
LEMMA WayOfParent ==
    ASSUME NEW T, NEW up \in [T -> T], NEW n \in Nat, NEW id \in T
    PROVE  \A k \in 1..n : Way(up, id, n)[k] = Way(up, up[id], n)[k - 1]
  <1> DEFINE way == Way(up, id, n)
             next == Way(up, up[id], n)
             Wrong == {k \in 1..n : way[k] # next[k - 1]}
  <1>1. IsWay(way, up, n, T, id) /\ IsWay(next, up, n, T, up[id])
    BY WayIs
  <1> HIDE DEF way, next
  <1>2. ASSUME Wrong # {} PROVE FALSE
    <2>1. PICK k \in Wrong : \A j \in Wrong : k <= j
      <3>1. Wrong \in SUBSET Nat
        OBVIOUS
      <3> HIDE DEF Wrong
      <3> QED
        BY <1>2, <3>1, LeastNat
    <2>2. k \in 1..n /\ way[k] # next[k - 1] /\ way[k] = up[way[k - 1]]
      BY <1>1 DEF IsWay
    <2>3. k # 1
      BY <1>1, <2>2 DEF IsWay
    <2>4. k - 1 \in 1..n /\ ~(k <= k - 1)
      BY <2>2, <2>3
    <2>5. way[k - 1] = next[(k - 1) - 1]
      <3>1. k - 1 \notin Wrong
        <4> HIDE DEF Wrong
        <4> QED
          BY <2>1, <2>4
      <3> QED
        BY <2>4, <3>1
    <2>6. next[k - 1] = up[next[(k - 1) - 1]]
      BY <1>1, <2>4 DEF IsWay
    <2> QED
      BY <2>2, <2>5, <2>6
  <1> QED
    BY <1>2 DEF way, next

LEMMA AncestorFacts ==
    ASSUME NEW tree, Listed(tree), tree.parent \in [AgentIds(tree) -> AgentIds(tree) \cup {None}],
           Grounded(AgentIds(tree), tree.parent)
    PROVE  Hierarchy(AgentIds(tree), tree.parent, [id \in AgentIds(tree) |-> AncestorsIn(tree, id)])
  <1> DEFINE n == Len(tree.order)
             ids == AgentIds(tree)
             T == ids \cup {None}
             up == [at \in AgentIds(tree) \cup {None} |-> IF at = None THEN None ELSE tree.parent[at]]
             wayOf(id) == Way(up, id, n)
             anc == [id \in ids |-> AncestorsIn(tree, id)]
  <1>1. n \in Nat /\ None \notin ids
    BY DEF Listed
  <1>2. up \in [T -> T] /\ up[None] = None /\ \A id \in ids : up[id] = tree.parent[id]
    BY <1>1
  <1>3. Grounded(ids, up)
    BY <1>2 DEF Grounded
  <1>4. \A id \in ids : AncestorsIn(tree, id) = {wayOf(id)[k] : k \in 1..n} \ {None}
    BY DEF AncestorsIn
  <1> HIDE DEF up, T
  <1>5. \A id \in T : IsWay(wayOf(id), up, n, T, id) /\ wayOf(id)[n] = None
    <2>1. T = ids \cup {None}
      BY DEF T
    <2> QED
      BY <1>1, <1>2, <1>3, <2>1, WayIs, WayEnds
  <1>6. \A id \in T : \A k \in 1..n : wayOf(id)[k] = wayOf(up[id])[k - 1]
    BY <1>1, <1>2, WayOfParent
  <1> HIDE DEF wayOf
  <1>7. ids \subseteq T /\ None \in T /\ T \subseteq ids \cup {None}
    BY DEF T
  <1>8. ASSUME NEW id \in ids, NEW k \in 1..n PROVE wayOf(id)[k] \in T
    BY <1>5, <1>7 DEF IsWay
  <1>9. anc \in [ids -> SUBSET ids]
    BY <1>4, <1>7, <1>8
  <1>10. ASSUME NEW id \in ids
         PROVE  anc[id] = IF tree.parent[id] = None THEN {} ELSE anc[tree.parent[id]] \cup {tree.parent[id]}
    <2> DEFINE p == up[id]
    <2>1. p = tree.parent[id] /\ p \in T /\ id \in T
      BY <1>2, <1>7
    <2> HIDE DEF p
    <2>2. \A k \in 1..n : wayOf(id)[k] = wayOf(p)[k - 1]
      BY <1>6, <2>1 DEF p
    <2>3. CASE p = None
      <3>1. \A k \in 0..n : wayOf(None)[k] \in {None}
        <4>1. IsWay(wayOf(None), up, n, T, None) /\ {None} \in SUBSET T /\ \A x \in {None} : up[x] \in {None}
          BY <1>2, <1>5, <1>7
        <4> QED
          BY <1>1, <4>1, WayStays
      <3>2. \A k \in 1..n : wayOf(id)[k] = None
        <4> TAKE k \in 1..n
        <4>1. k - 1 \in 0..n
          BY <1>1
        <4> QED
          BY <2>2, <2>3, <3>1, <4>1
      <3>3. AncestorsIn(tree, id) = {}
        BY <1>4, <3>2
      <3> QED
        BY <2>1, <2>3, <3>3
    <2>4. CASE p # None
      <3>0. p \in ids
        BY <1>7, <2>1, <2>4
      <3>1. n # 0
        BY <1>1, <1>5, <2>1, <2>4 DEF IsWay
      <3>2. wayOf(p)[0] = p /\ wayOf(p)[n] = None
        BY <1>5, <2>1 DEF IsWay
      <3>3. AncestorsIn(tree, id) \subseteq AncestorsIn(tree, p) \cup {p}
        <4> SUFFICES ASSUME NEW k \in 1..n, wayOf(id)[k] # None
                     PROVE  wayOf(id)[k] \in AncestorsIn(tree, p) \cup {p}
          BY <1>4
        <4>1. wayOf(id)[k] = wayOf(p)[k - 1] /\ k - 1 \in 0..n
          BY <1>1, <2>2
        <4>2. CASE k - 1 = 0
          BY <3>2, <4>1, <4>2
        <4>3. CASE k - 1 # 0
          <5>1. k - 1 \in 1..n
            BY <4>1, <4>3
          <5> QED
            BY <1>4, <3>0, <4>1, <5>1
        <4> QED
          BY <4>2, <4>3
      <3>4. p \in AncestorsIn(tree, id)
        <4>1. 1 \in 1..n /\ 1 - 1 = 0
          BY <1>1, <3>1
        <4>2. wayOf(id)[1] = p
          BY <2>2, <3>2, <4>1
        <4> QED
          BY <1>4, <2>4, <4>1, <4>2
      <3>5. AncestorsIn(tree, p) \subseteq AncestorsIn(tree, id)
        <4> SUFFICES ASSUME NEW k \in 1..n, wayOf(p)[k] # None PROVE wayOf(p)[k] \in AncestorsIn(tree, id)
          BY <1>4, <3>0
        <4>1. k # n
          BY <3>2
        <4>2. k + 1 \in 1..n /\ (k + 1) - 1 = k
          BY <1>1, <4>1
        <4>3. wayOf(id)[k + 1] = wayOf(p)[k]
          BY <2>2, <4>2
        <4> QED
          BY <1>4, <4>2, <4>3
      <3>6. AncestorsIn(tree, id) = AncestorsIn(tree, p) \cup {p}
        BY <3>3, <3>4, <3>5
      <3> QED
        BY <2>1, <2>4, <3>0, <3>6
    <2> QED
      BY <2>3, <2>4
  <1> HIDE DEF anc
  <1>11. Grounded(ids, tree.parent) /\ tree.parent \in [ids -> ids \cup {None}]
    OBVIOUS
  <1>12. Hierarchy(ids, tree.parent, anc)
    BY <1>1, <1>9, <1>10, <1>11 DEF Hierarchy
  <1> QED
    BY <1>12 DEF anc

\* What an answer of the server is: a list of reports of agents, who have ids.
IsAnswer(answer) == answer \in Seq(ToSet(answer)) /\ \A r \in ToSet(answer) : r.id # None

LEMMA ReportsAreListed ==
    ASSUME NEW answer, IsAnswer(answer)
    PROVE  LET tree == AsReported(FirstReports(answer))
           IN  Listed(tree) /\ AgentIds(tree) = {r.id : r \in ToSet(answer)}
  <1> DEFINE n == Len(answer)
             tree == AsReported(FirstReports(answer))
             seq == [i \in DOMAIN answer |-> i]
             F == {i \in DOMAIN answer : \A j \in 1..(i - 1) : answer[j].id # answer[i].id}
             first == Picked(seq, F)
             reports == FirstReports(answer)
  <1>1. n \in Nat /\ DOMAIN answer = 1..n /\ \A i \in 1..n : answer[i] \in ToSet(answer) /\ answer[i].id # None
    BY DEF IsAnswer, ToSet
  <1>2. seq \in Seq(1..n) /\ Len(seq) = n /\ \A i \in 1..n : seq[i] = i
    <2>1. seq \in [1..n -> 1..n]
      BY <1>1
    <2> QED
      BY <1>1, <2>1, SeqDef, LenProperties
  <1>3. reports = [i \in DOMAIN first |-> answer[first[i]]]
    BY DEF FirstReports
  <1>4. Taken(first, n, seq, 1..n, F)
    <2> HIDE DEF seq, F, n
    <2> QED
      BY <1>2, KeptFacts
  <1> HIDE DEF first, seq, F
  <1> DEFINE m == Len(first)
  <1>5. m \in Nat /\ DOMAIN first = 1..m /\ \A i \in 1..m : first[i] \in 1..n
    BY <1>4 DEF Taken
  <1>6. reports \in [1..m -> ToSet(answer)] /\ \A i \in 1..m : reports[i] = answer[first[i]]
    BY <1>1, <1>3, <1>5
  <1>7. DOMAIN reports = 1..m
    BY <1>6
  <1> HIDE DEF reports, m
  <1>8. /\ tree.order = [i \in 1..m |-> reports[i].id]
        /\ DOMAIN tree.reported = {reports[i].id : i \in 1..m}
    BY <1>7 DEF AsReported, reports, ToSet
  <1>9. \A i \in 1..m : first[i] \in F
    BY <1>4, <1>5 DEF Taken
  <1>10. ASSUME NEW i \in 1..m, NEW j \in 1..m, i < j PROVE reports[i].id # reports[j].id
    <2>1. PICK p, q \in 1..n : p < q /\ first[i] = seq[p] /\ first[j] = seq[q]
      <3>1. i \in DOMAIN first /\ j \in DOMAIN first
        BY <1>5
      <3> HIDE DEF n
      <3> QED
        BY <1>4, <1>10, <3>1 DEF Taken
    <2>2. first[i] = p /\ first[j] = q /\ p \in 1..(q - 1)
      BY <1>2, <2>1
    <2>3. answer[p].id # answer[q].id
      BY <1>9, <2>2 DEF F
    <2> QED
      BY <1>6, <2>2, <2>3
  <1>11. AgentIds(tree) = {reports[i].id : i \in 1..m}
    BY <1>8 DEF AgentIds
  <1>12. Listed(tree)
    <2>1. None \notin AgentIds(tree)
      BY <1>1, <1>5, <1>6, <1>11
    <2>2. tree.order \in [1..m -> AgentIds(tree)]
      BY <1>8, <1>11
    <2>3. tree.order \in Seq(AgentIds(tree)) /\ DOMAIN tree.order = 1..m
      BY <1>5, <2>2, SeqDef DEF m
    <2>4. ASSUME NEW i \in 1..m, NEW j \in 1..m, i # j PROVE tree.order[i] # tree.order[j]
      <3>1. i < j \/ j < i
        BY <1>5, <2>4 DEF m
      <3> QED
        BY <1>8, <1>10, <3>1
    <2>5. \A id \in AgentIds(tree) : \E i \in 1..m : tree.order[i] = id
      BY <1>8, <1>11
    <2> QED
      BY <2>1, <2>3, <2>4, <2>5 DEF Listed
  <1>13. ASSUME NEW r \in ToSet(answer) PROVE \E i \in 1..m : reports[i].id = r.id
    <2>1. PICK k \in 1..n : r = answer[k]
      BY <1>1 DEF ToSet
    <2> DEFINE Same == {j \in 1..n : answer[j].id = r.id}
    <2>2. PICK f \in Same : \A j \in Same : f <= j
      <3>1. Same \in SUBSET Nat /\ k \in Same
        BY <1>1, <2>1
      <3> HIDE DEF Same
      <3> QED
        BY <3>1, LeastNat
    <2>3. f \in F
      <3>1. ASSUME NEW j \in 1..(f - 1) PROVE answer[j].id # answer[f].id
        <4>1. j \in 1..n /\ ~(f <= j)
          BY <1>1
        <4>2. j \notin Same
          <5> HIDE DEF Same
          <5> QED
            BY <2>2, <4>1
        <4> QED
          BY <4>1, <4>2
      <3> QED
        BY <1>1, <3>1 DEF F
    <2>4. seq[f] = f /\ f \in 1..n
      BY <1>2
    <2>5. PICK i \in DOMAIN first : first[i] = f
      BY <1>4, <2>3, <2>4 DEF Taken
    <2> QED
      BY <1>5, <1>6, <2>5
  <1>14. AgentIds(tree) = {r.id : r \in ToSet(answer)}
    BY <1>6, <1>11, <1>13
  <1> QED
    BY <1>12, <1>14

\* What buildAgentTree promises of the tree it makes.
WellBuilt(tree) ==
    /\ Listed(tree)
    /\ Hierarchy(AgentIds(tree), tree.parent, [id \in AgentIds(tree) |-> AncestorsIn(tree, id)])
    /\ \A id \in AgentIds(tree) : tree.attachment[id] = "child" => tree.parent[id] = tree.reported[id]
                                                                  /\ tree.parent[id] # None
    /\ \A c : IsCycle(tree, c) /\ c # {} =>
           \E m \in c : {x \in c : tree.attachment[x] = "cycle_broken"} = {m}

LEMMA RootedIsWellBuilt ==
    ASSUME NEW order, NEW reported, NEW work, NEW tree,
           tree = [order |-> order, reported |-> reported, work |-> work], Listed(tree)
    PROVE  WellBuilt(Rooted(tree)) /\ AgentIds(Rooted(tree)) = AgentIds(tree)
  <1> DEFINE ids == AgentIds(tree)
             cuts == CycleCuts(tree)
             new == Rooted(tree)
             above == Upward(tree)
  <1>0. tree.order = order /\ tree.reported = reported /\ ids = DOMAIN reported /\ None \notin ids
    BY DEF AgentIds, Listed
  <1>1. Resolves(tree, cuts, ids)
    BY CutsFacts
  <1> HIDE DEF cuts
  <1>2. /\ new.order = order /\ new.reported = reported
        /\ new.attachment = [id \in ids |-> Attachment(tree, cuts, id)]
        /\ new.parent = [id \in ids |-> IF Attachment(tree, cuts, id) = "child" THEN reported[id] ELSE None]
    <2>1. new = Built(tree, cuts)
      BY DEF Rooted, cuts
    <2>2. /\ Built(tree, cuts).order = order /\ Built(tree, cuts).reported = reported
          /\ Built(tree, cuts).attachment = [id \in DOMAIN reported |-> Attachment(tree, cuts, id)]
          /\ Built(tree, cuts).parent =
                 [id \in DOMAIN reported |->
                     IF Attachment(tree, cuts, id) = "child" THEN reported[id] ELSE None]
      BY DEF Built, Attached, AgentIds
    <2> HIDE DEF new
    <2> QED
      BY <1>0, <2>1, <2>2
  <1> HIDE DEF new
  <1>3. AgentIds(new) = ids /\ Listed(new)
    BY <1>0, <1>2 DEF AgentIds, Listed
  <1>4. ASSUME NEW id \in ids
        PROVE  /\ new.parent[id] = IF id \in cuts THEN None ELSE above[id]
               /\ new.parent[id] \in ids \cup {None}
               /\ new.attachment[id] = "child" => new.parent[id] = reported[id] /\ reported[id] # None
               /\ new.attachment[id] = "cycle_broken" <=> id \in cuts
    <2>1. above[id] = IF reported[id] \in ids THEN reported[id] ELSE None
      BY <1>0 DEF Upward
    <2>2. CASE id \in cuts
      <3>1. Attachment(tree, cuts, id) = "cycle_broken"
        BY <2>2 DEF Attachment
      <3> QED
        BY <1>2, <2>2, <3>1
    <2>3. CASE id \notin cuts /\ reported[id] = None
      <3>1. Attachment(tree, cuts, id) = "root"
        BY <1>0, <2>3 DEF Attachment
      <3> QED
        BY <1>0, <1>2, <2>1, <2>3, <3>1
    <2>4. CASE id \notin cuts /\ reported[id] \notin ids \cup {None}
      <3>1. Attachment(tree, cuts, id) = "orphaned"
        BY <1>0, <2>4 DEF Attachment
      <3> QED
        BY <1>2, <2>1, <2>4, <3>1
    <2>5. CASE id \notin cuts /\ reported[id] \in ids
      <3>1. Attachment(tree, cuts, id) = "child"
        BY <1>0, <2>5 DEF Attachment
      <3> QED
        BY <1>0, <1>2, <2>1, <2>5, <3>1
    <2> QED
      BY <2>2, <2>3, <2>4, <2>5
  <1>5. Grounded(ids, new.parent)
    <2> SUFFICES ASSUME NEW X \in SUBSET ids, X # {} PROVE \E x \in X : new.parent[x] \notin X
      BY DEF Grounded
    <2>1. PICK x \in X : x \in cuts \/ above[x] \notin X
      BY <1>1 DEF Resolves
    <2> QED
      BY <1>0, <1>4, <2>1
  <1>6. new.parent \in [ids -> ids \cup {None}]
    BY <1>2, <1>4
  <1>7. Hierarchy(ids, new.parent, [id \in ids |-> AncestorsIn(new, id)])
    BY <1>3, <1>5, <1>6, AncestorFacts
  <1>8. \A id \in ids : WayFrom(new, id) = WayFrom(tree, id)
    BY <1>0, <1>2, <1>3 DEF WayFrom, Upward
  <1>9. ASSUME NEW c, IsCycle(new, c), c # {}
        PROVE  \E m \in c : {x \in c : new.attachment[x] = "cycle_broken"} = {m}
    <2>1. IsCycle(tree, c) /\ c \in SUBSET ids
      BY <1>3, <1>8, <1>9 DEF IsCycle
    <2>2. PICK m \in c : c \cap cuts = {m}
      BY <1>1, <1>9, <2>1 DEF Resolves
    <2>3. {x \in c : new.attachment[x] = "cycle_broken"} = c \cap cuts
      BY <1>4, <2>1
    <2> QED
      BY <2>2, <2>3
  <1>10. WellBuilt(new)
    BY <1>2, <1>3, <1>4, <1>7, <1>9 DEF WellBuilt
  <1> QED
    BY <1>3, <1>10 DEF new

\* Every agent that was reported is in the tree, whatever it was reported with.
LEMMA TreeFacts ==
    ASSUME NEW answer, IsAnswer(answer)
    PROVE  WellBuilt(Tree(answer)) /\ AgentIds(Tree(answer)) = {r.id : r \in ToSet(answer)}
  <1> DEFINE tree == AsReported(FirstReports(answer))
  <1>1. Listed(tree) /\ AgentIds(tree) = {r.id : r \in ToSet(answer)}
    BY ReportsAreListed
  <1>2. \E order, reported, work : tree = [order |-> order, reported |-> reported, work |-> work]
    BY DEF AsReported
  <1>3. Tree(answer) = Rooted(tree)
    BY DEF Tree
  <1> HIDE DEF tree
  <1> QED
    BY <1>1, <1>2, <1>3, RootedIsWellBuilt

-----------------------------------------------------------------------------
(* Lists of agents, each once.                                                   *)

\* What is shown: what the filter keeps and no folded row hides.
Seen(tree, kept, closed) == {x \in kept : AncestorsIn(tree, x) \cap closed = {}}

KeepsParents(tree, kept) ==
    kept \in SUBSET AgentIds(tree) /\ \A x \in kept : tree.parent[x] # None => tree.parent[x] \in kept

Below(tree, kept, id) == Picked(tree.order, kept \cap ChildrenIn(tree, id))

\* A list of agents, each once.
Once(seq, ids) == seq \in Seq(ids) /\ \A i, j \in DOMAIN seq : i # j => seq[i] # seq[j]

LEMMA BelowFacts ==
    ASSUME NEW tree, WellBuilt(tree), NEW kept \in SUBSET AgentIds(tree), NEW id
    PROVE  /\ Once(Below(tree, kept, id), AgentIds(tree))
           /\ ToSet(Below(tree, kept, id)) = {c \in kept : tree.parent[c] = id}
  <1> DEFINE ids == AgentIds(tree)
             some == kept \cap ChildrenIn(tree, id)
             below == Below(tree, kept, id)
             n == Len(tree.order)
  <1>1. /\ tree.order \in Seq(ids) /\ n \in Nat /\ DOMAIN tree.order = 1..n
        /\ \A i, j \in 1..n : i # j => tree.order[i] # tree.order[j]
        /\ \A x \in ids : \E i \in 1..n : tree.order[i] = x
    BY DEF WellBuilt, Listed
  <1>2. some = {c \in kept : tree.parent[c] = id}
    BY DEF WellBuilt, Hierarchy, ChildrenIn
  <1>3. Taken(below, n, tree.order, ids, some)
    BY <1>1, KeptFacts DEF Below
  <1> HIDE DEF below, some, n
  <1>4. below \in Seq(ids)
    BY <1>3 DEF Taken
  <1>5. ASSUME NEW i \in DOMAIN below, NEW j \in DOMAIN below, i # j PROVE below[i] # below[j]
    <2>0. Len(below) \in Nat /\ DOMAIN below = 1..Len(below)
      BY <1>4
    <2>1. i < j \/ j < i
      BY <1>5, <2>0
    <2>2. \A a, b \in DOMAIN below : a < b => below[a] # below[b]
      <3> SUFFICES ASSUME NEW a \in DOMAIN below, NEW b \in DOMAIN below, a < b PROVE below[a] # below[b]
        OBVIOUS
      <3>1. PICK p, q \in 1..n : p < q /\ below[a] = tree.order[p] /\ below[b] = tree.order[q]
        BY <1>3 DEF Taken
      <3> QED
        BY <1>1, <3>1
    <2> QED
      BY <2>1, <2>2
  <1>6. ASSUME NEW x PROVE x \in ToSet(below) <=> x \in some
    <2>1. x \in ToSet(below) <=> \E i \in DOMAIN below : below[i] = x
      BY DEF ToSet
    <2>2. some \subseteq ids
      BY <1>2
    <2> QED
      BY <1>1, <1>3, <2>1, <2>2 DEF Taken
  <1>7. ToSet(below) = some
    BY <1>6
  <1>8. Once(below, ids)
    BY <1>4, <1>5 DEF Once
  <1> QED
    BY <1>2, <1>7, <1>8 DEF below

\* One list after another.
LEMMA OnceAfter ==
    ASSUME NEW ids, NEW s, NEW t, Once(s, ids), Once(t, ids), ToSet(s) \cap ToSet(t) = {}
    PROVE  Once(s \o t, ids) /\ (\A x : x \in ToSet(s \o t) <=> x \in ToSet(s) \/ x \in ToSet(t))
  <1> DEFINE m == Len(s)
             n == Len(t)
             st == s \o t
  <1>1. /\ m \in Nat /\ n \in Nat /\ DOMAIN s = 1..m /\ DOMAIN t = 1..n /\ st \in Seq(ids)
        /\ DOMAIN st = 1..(m + n) /\ (\A i \in 1..m : st[i] = s[i]) /\ (\A i \in 1..n : st[m + i] = t[i])
    BY DEF Once
  <1> HIDE DEF st
  <1>2. \A i \in 1..(m + n) : i \in 1..m \/ (i - m \in 1..n /\ m + (i - m) = i)
    BY <1>1
  <1>3. \A i \in 1..(m + n) : IF i \in 1..m THEN st[i] = s[i] ELSE i - m \in 1..n /\ st[i] = t[i - m]
    BY <1>1, <1>2
  <1>4. \A i \in 1..m, j \in 1..n : s[i] # t[j]
    <2> TAKE i \in 1..m, j \in 1..n
    <2>1. s[i] \in ToSet(s) /\ t[j] \in ToSet(t)
      BY <1>1 DEF ToSet
    <2> QED
      BY <2>1
  <1>5. ASSUME NEW i \in 1..(m + n), NEW j \in 1..(m + n), i # j PROVE st[i] # st[j]
    <2>1. \A a, b \in 1..m : a # b => s[a] # s[b]
      BY <1>1 DEF Once
    <2>2. \A a, b \in 1..n : a # b => t[a] # t[b]
      BY <1>1 DEF Once
    <2>3. CASE i \in 1..m /\ j \in 1..m
      BY <1>1, <1>5, <2>1, <2>3
    <2>4. CASE i \in 1..m /\ j \notin 1..m
      BY <1>3, <1>4, <2>4
    <2>5. CASE i \notin 1..m /\ j \in 1..m
      BY <1>3, <1>4, <2>5
    <2>6. CASE i \notin 1..m /\ j \notin 1..m
      <3>1. i - m # j - m
        BY <1>1, <1>5
      <3> QED
        BY <1>3, <2>2, <2>6, <3>1
    <2> QED
      BY <2>3, <2>4, <2>5, <2>6
  <1>6. ToSet(st) \subseteq ToSet(s) \cup ToSet(t)
    <2>1. \A i \in 1..(m + n) : (\E j \in 1..m : st[i] = s[j]) \/ (\E j \in 1..n : st[i] = t[j])
      BY <1>3
    <2> QED
      BY <1>1, <2>1 DEF ToSet
  <1>7. ToSet(s) \cup ToSet(t) \subseteq ToSet(st)
    <2>1. \A i \in 1..m : i \in 1..(m + n)
      BY <1>1
    <2>2. \A i \in 1..n : m + i \in 1..(m + n)
      BY <1>1
    <2> QED
      BY <1>1, <2>1, <2>2 DEF ToSet
  <1>8. Once(st, ids)
    BY <1>1, <1>5 DEF Once
  <1> QED
    BY <1>6, <1>7, <1>8 DEF st

\* A list without its first.
LEMMA OnceWithoutHead ==
    ASSUME NEW ids, NEW s, Once(s, ids), s # <<>>
    PROVE  /\ Head(s) \in ids /\ Head(s) \in ToSet(s)
           /\ Once(Tail(s), ids) /\ ToSet(Tail(s)) = ToSet(s) \ {Head(s)}
  <1> DEFINE n == Len(s)
             t == Tail(s)
  <1>1. /\ n \in Nat /\ n # 0 /\ DOMAIN s = 1..n /\ Head(s) = s[1] /\ t \in Seq(ids)
        /\ DOMAIN t = 1..(n - 1) /\ (\A i \in 1..(n - 1) : t[i] = s[i + 1])
    BY DEF Once
  <1> HIDE DEF t
  <1>2. 1 \in 1..n /\ \A i \in 1..(n - 1) : i + 1 \in 1..n /\ i + 1 # 1
    BY <1>1
  <1>3. \A i, j \in 1..n : i # j => s[i] # s[j]
    BY <1>1 DEF Once
  <1>4. ASSUME NEW i \in 1..(n - 1), NEW j \in 1..(n - 1), i # j PROVE t[i] # t[j]
    <2>1. i + 1 # j + 1
      BY <1>4
    <2> QED
      BY <1>1, <1>2, <1>3, <2>1
  <1>5. ToSet(t) \subseteq ToSet(s) \ {Head(s)}
    BY <1>1, <1>2, <1>3 DEF ToSet
  <1>6. ASSUME NEW i \in 1..n, s[i] # s[1] PROVE s[i] \in ToSet(t)
    <2>1. i - 1 \in 1..(n - 1) /\ (i - 1) + 1 = i
      BY <1>1, <1>6
    <2>2. t[i - 1] = s[i]
      BY <1>1, <2>1
    <2> QED
      BY <1>1, <2>1, <2>2 DEF ToSet
  <1>7. ToSet(s) \ {Head(s)} \subseteq ToSet(t)
    BY <1>1, <1>6 DEF ToSet
  <1>8. Once(t, ids)
    BY <1>1, <1>4 DEF Once
  <1>9. Head(s) \in ids /\ Head(s) \in ToSet(s)
    <2>1. \A i \in 1..n : s[i] \in ids
      BY <1>1 DEF Once
    <2> QED
      BY <1>1, <1>2, <2>1 DEF ToSet
  <1> QED
    BY <1>5, <1>7, <1>8, <1>9 DEF t

\* A list, and one that is new at its end.
LEMMA OnceAndOneMore ==
    ASSUME NEW ids, NEW s, Once(s, ids), NEW x \in ids, x \notin ToSet(s)
    PROVE  /\ Once(Append(s, x), ids) /\ ToSet(Append(s, x)) = ToSet(s) \cup {x}
           /\ Len(Append(s, x)) = Len(s) + 1 /\ Append(s, x)[Len(s) + 1] = x
           /\ \A i \in 1..Len(s) : Append(s, x)[i] = s[i]
  <1> DEFINE n == Len(s)
             t == Append(s, x)
  <1>1. /\ n \in Nat /\ DOMAIN s = 1..n /\ t \in Seq(ids) /\ DOMAIN t = 1..(n + 1) /\ t[n + 1] = x
        /\ (\A i \in 1..n : t[i] = s[i]) /\ Len(t) = n + 1
    BY DEF Once
  <1> HIDE DEF t
  <1>2. \A i \in 1..n : s[i] # x
    BY <1>1 DEF ToSet
  <1>3. \A i \in 1..(n + 1) : i \in 1..n \/ i = n + 1
    BY <1>1
  <1>4. \A i, j \in 1..n : i # j => s[i] # s[j]
    BY <1>1 DEF Once
  <1>5. Once(t, ids)
    BY <1>1, <1>2, <1>3, <1>4 DEF Once
  <1>6. ToSet(t) = ToSet(s) \cup {x}
    <2>1. DOMAIN t = DOMAIN s \cup {n + 1}
      BY <1>1
    <2> QED
      BY <1>1, <2>1 DEF ToSet
  <1> QED
    BY <1>1, <1>5, <1>6 DEF t

-----------------------------------------------------------------------------
(* visibleAgentRows: the rows are those that are seen, below their parents.      *)

\* The walk over the agents that are shown: everyone's parent has a row already, and
\* the children of every row are in a row or on the stack.
Standing(tree, V, rows, stack) ==
    /\ Once(rows, AgentIds(tree)) /\ Once(stack, AgentIds(tree)) /\ ToSet(rows) \cap ToSet(stack) = {}
    /\ ToSet(rows) \cup ToSet(stack) \subseteq V
    /\ \A i \in 1..Len(rows) : tree.parent[rows[i]] # None =>
           \E j \in 1..(i - 1) : rows[j] = tree.parent[rows[i]]
    /\ \A x \in ToSet(stack) : tree.parent[x] \in ToSet(rows) \cup {None}
    /\ \A x \in V : tree.parent[x] \in ToSet(rows) \cup {None} => x \in ToSet(rows) \cup ToSet(stack)

LEMMA StandingAtFirst ==
    ASSUME NEW tree, WellBuilt(tree), NEW kept, KeepsParents(tree, kept), NEW closed
    PROVE  Standing(tree, Seen(tree, kept, closed), <<>>, Below(tree, kept, None))
  <1> DEFINE ids == AgentIds(tree)
             V == Seen(tree, kept, closed)
             stack == Below(tree, kept, None)
  <1>1. kept \in SUBSET ids
    BY DEF KeepsParents
  <1>2. Once(stack, ids) /\ ToSet(stack) = {c \in kept : tree.parent[c] = None}
    BY <1>1, BelowFacts
  <1> HIDE DEF stack
  <1>3. Once(<<>>, ids) /\ ToSet(<<>>) = {} /\ Len(<<>>) = 0
    BY DEF Once, ToSet
  <1>4. ASSUME NEW x \in ToSet(stack) PROVE x \in V /\ tree.parent[x] = None
    <2>1. x \in kept /\ x \in ids /\ tree.parent[x] = None
      BY <1>1, <1>2
    <2>2. AncestorsIn(tree, x) = {}
      BY <2>1 DEF WellBuilt, Hierarchy
    <2> QED
      BY <2>1, <2>2 DEF Seen
  <1>5. V \subseteq kept
    BY DEF Seen
  <1> QED
    BY <1>2, <1>3, <1>4, <1>5 DEF Standing, stack

LEMMA StandingNext ==
    ASSUME NEW tree, WellBuilt(tree), NEW kept, KeepsParents(tree, kept), NEW closed,
           NEW rows, NEW stack, Standing(tree, Seen(tree, kept, closed), rows, stack), stack # <<>>
    PROVE  /\ Standing(tree, Seen(tree, kept, closed), Append(rows, Head(stack)),
                       IF Head(stack) \in closed THEN Tail(stack)
                       ELSE Below(tree, kept, Head(stack)) \o Tail(stack))
           /\ Len(Append(rows, Head(stack))) = Len(rows) + 1
  <1> DEFINE ids == AgentIds(tree)
             V == Seen(tree, kept, closed)
             id == Head(stack)
             rest == Tail(stack)
             new == Append(rows, id)
             kids == Below(tree, kept, id)
             next == IF id \in closed THEN rest ELSE kids \o rest
  <1>1. /\ Once(rows, ids) /\ Once(stack, ids) /\ ToSet(rows) \cap ToSet(stack) = {}
        /\ ToSet(rows) \cup ToSet(stack) \subseteq V
        /\ \A i \in 1..Len(rows) : tree.parent[rows[i]] # None =>
               \E j \in 1..(i - 1) : rows[j] = tree.parent[rows[i]]
        /\ \A x \in ToSet(stack) : tree.parent[x] \in ToSet(rows) \cup {None}
        /\ \A x \in V : tree.parent[x] \in ToSet(rows) \cup {None} => x \in ToSet(rows) \cup ToSet(stack)
    BY DEF Standing
  <1>2. /\ id \in ids /\ id \in ToSet(stack) /\ Once(rest, ids)
        /\ ToSet(rest) = ToSet(stack) \ {id}
    BY <1>1, OnceWithoutHead
  <1>3. /\ Once(new, ids) /\ ToSet(new) = ToSet(rows) \cup {id}
        /\ Len(new) = Len(rows) + 1 /\ new[Len(rows) + 1] = id
        /\ \A i \in 1..Len(rows) : new[i] = rows[i]
    BY <1>1, <1>2, OnceAndOneMore
  <1>4. Len(rows) \in Nat /\ DOMAIN rows = 1..Len(rows)
    BY <1>1 DEF Once
  <1>5. kept \in SUBSET ids /\ None \notin ids
    BY DEF KeepsParents, WellBuilt, Listed
  <1>6. Once(kids, ids) /\ ToSet(kids) = {c \in kept : tree.parent[c] = id}
    BY <1>5, BelowFacts
  <1> HIDE DEF id, rest, new, kids
  <1>7. ToSet(kids) \cap (ToSet(rows) \cup ToSet(stack)) = {}
    <2>1. ASSUME NEW x \in ToSet(kids), x \in ToSet(rows) PROVE FALSE
      <3>1. tree.parent[x] = id /\ id # None
        BY <1>2, <1>5, <1>6
      <3>2. PICK i \in 1..Len(rows) : x = rows[i]
        BY <1>4, <2>1 DEF ToSet
      <3>3. PICK j \in 1..(i - 1) : rows[j] = id
        BY <1>1, <3>1, <3>2
      <3>4. id \in ToSet(rows)
        <4>1. j \in 1..Len(rows)
          BY <1>4
        <4> QED
          BY <1>4, <3>3, <4>1 DEF ToSet
      <3> QED
        BY <1>1, <1>2, <3>4
    <2>2. ASSUME NEW x \in ToSet(kids), x \in ToSet(stack) PROVE FALSE
      <3>1. tree.parent[x] = id /\ id # None
        BY <1>2, <1>5, <1>6
      <3>2. id \in ToSet(rows)
        BY <1>1, <2>2, <3>1
      <3> QED
        BY <1>1, <1>2, <3>2
    <2> QED
      BY <2>1, <2>2
  <1>8. /\ Once(next, ids)
        /\ ToSet(next) = ToSet(rest) \cup (IF id \in closed THEN {} ELSE ToSet(kids))
    <2>1. CASE id \in closed
      BY <1>2, <2>1
    <2>2. CASE id \notin closed
      <3>1. ToSet(kids) \cap ToSet(rest) = {}
        BY <1>2, <1>7
      <3>2. Once(kids \o rest, ids) /\ ToSet(kids \o rest) = ToSet(kids) \cup ToSet(rest)
        <4> HIDE DEF ids, next, V
        <4>1. Once(kids, ids)
          BY <1>6
        <4>2. Once(rest, ids)
          BY <1>2
        <4>3. Once(kids \o rest, ids)
          BY <3>1, <4>1, <4>2, OnceAfter
        <4>4. ToSet(kids \o rest) = ToSet(kids) \cup ToSet(rest)
          BY <3>1, <4>1, <4>2, OnceAfter
        <4> QED
          BY <4>3, <4>4
      <3> QED
        BY <2>2, <3>2
    <2> QED
      BY <2>1, <2>2
  <1> HIDE DEF next
  <1>9. ASSUME NEW x \in ToSet(kids), id \notin closed PROVE x \in V
    <2>1. x \in kept /\ tree.parent[x] = id /\ id # None /\ x \in ids
      BY <1>2, <1>5, <1>6
    <2>2. AncestorsIn(tree, x) = AncestorsIn(tree, id) \cup {id}
      BY <1>2, <2>1 DEF WellBuilt, Hierarchy
    <2>3. AncestorsIn(tree, id) \cap closed = {}
      BY <1>1, <1>2 DEF Seen
    <2> QED
      BY <1>9, <2>1, <2>2, <2>3 DEF Seen
  <1>10. ToSet(new) \cap ToSet(next) = {}
    BY <1>1, <1>2, <1>3, <1>7, <1>8
  <1>11. ToSet(new) \cup ToSet(next) \subseteq V
    BY <1>1, <1>2, <1>3, <1>8, <1>9
  <1>12. ASSUME NEW i \in 1..Len(new), tree.parent[new[i]] # None
         PROVE  \E j \in 1..(i - 1) : new[j] = tree.parent[new[i]]
    <2>1. CASE i \in 1..Len(rows)
      <3>1. PICK j \in 1..(i - 1) : rows[j] = tree.parent[rows[i]]
        BY <1>1, <1>3, <1>12, <2>1
      <3>2. j \in 1..Len(rows)
        BY <1>4, <2>1
      <3> QED
        BY <1>3, <2>1, <3>1, <3>2
    <2>2. CASE i \notin 1..Len(rows)
      <3>1. i = Len(rows) + 1 /\ new[i] = id /\ i - 1 = Len(rows)
        BY <1>3, <1>4, <2>2
      <3>2. tree.parent[id] \in ToSet(rows)
        BY <1>1, <1>2, <1>12, <3>1
      <3>3. PICK j \in 1..Len(rows) : rows[j] = tree.parent[id]
        BY <1>4, <3>2 DEF ToSet
      <3> QED
        BY <1>3, <3>1, <3>3
    <2> QED
      BY <2>1, <2>2
  <1>13. ASSUME NEW x \in ToSet(next) PROVE tree.parent[x] \in ToSet(new) \cup {None}
    BY <1>1, <1>2, <1>3, <1>6, <1>8
  <1>14. ASSUME NEW x \in V, tree.parent[x] \in ToSet(new) \cup {None}
         PROVE  x \in ToSet(new) \cup ToSet(next)
    <2>1. CASE tree.parent[x] \in ToSet(rows) \cup {None}
      <3>1. x \in ToSet(rows) \cup ToSet(stack)
        BY <1>1, <2>1
      <3> QED
        BY <1>2, <1>3, <1>8, <3>1
    <2>2. CASE tree.parent[x] \notin ToSet(rows) \cup {None}
      <3>1. tree.parent[x] = id /\ id # None
        BY <1>3, <1>14, <2>2
      <3>2. x \in kept /\ x \in ids /\ AncestorsIn(tree, x) \cap closed = {}
        BY <1>5 DEF Seen
      <3>3. id \in AncestorsIn(tree, x)
        <4>1. AncestorsIn(tree, x) = AncestorsIn(tree, id) \cup {id}
          BY <1>2, <3>1, <3>2 DEF WellBuilt, Hierarchy
        <4> QED
          BY <4>1
      <3>4. id \notin closed
        BY <3>2, <3>3
      <3> QED
        BY <1>6, <1>8, <3>1, <3>2, <3>4
    <2> QED
      BY <2>1, <2>2
  <1>15. Standing(tree, V, new, next)
    <2> HIDE DEF V
    <2> QED
      BY <1>3, <1>8, <1>10, <1>11, <1>12, <1>13, <1>14 DEF Standing
  <1> QED
    BY <1>3, <1>15 DEF new, next, id, rest, kids

\* One step of visibleAgentRows.
Visited(tree, kept, closed, walk) ==
    IF walk.stack = <<>> THEN walk
    ELSE [stack |-> IF Head(walk.stack) \in closed THEN Tail(walk.stack)
                    ELSE Below(tree, kept, Head(walk.stack)) \o Tail(walk.stack),
          rows |-> Append(walk.rows, Head(walk.stack))]

\* The rows are those that are seen, each once and below its parent.
LEMMA RowsFacts ==
    ASSUME NEW tree, WellBuilt(tree), NEW kept, KeepsParents(tree, kept), NEW closed,
           NEW rows, rows = VisibleRows(tree, kept, closed)
    PROVE  /\ Once(rows, AgentIds(tree)) /\ ToSet(rows) = Seen(tree, kept, closed)
           /\ \A i \in 1..Len(rows) : tree.parent[rows[i]] # None =>
                  \E j \in 1..(i - 1) : rows[j] = tree.parent[rows[i]]
  <1> DEFINE n == Len(tree.order)
             ids == AgentIds(tree)
             V == Seen(tree, kept, closed)
             T == [stack : Seq(ids), rows : Seq(ids)]
             base == [stack |-> Below(tree, kept, None), rows |-> <<>>]
             op(walk) == Visited(tree, kept, closed, walk)
             step == [k \in 1..n |-> [t \in T |-> op(t)]]
             iter == CHOOSE g : g = [s \in SUBSET (DOMAIN tree.order) |->
                                        IF s = {} THEN base ELSE op(g[s \ {Max(s)}])]
  <1>0. n \in Nat /\ DOMAIN tree.order = 1..n
    BY DEF WellBuilt, Listed
  <1>1. rows = iter[1..n].rows
    BY <1>0 DEF VisibleRows, FoldLeft, MapThenFoldSet, Visited, Below
  <1>2. ASSUME NEW id PROVE Below(tree, kept, id) \in Seq(ids)
    BY BelowFacts DEF KeepsParents, Once
  <1>3. ASSUME NEW t \in T PROVE op(t) \in T
    <2>1. CASE t.stack = <<>>
      BY <2>1 DEF Visited
    <2>2. CASE t.stack # <<>>
      <3> DEFINE id == Head(t.stack)
                 rest == Tail(t.stack)
                 below == Below(tree, kept, id)
      <3>1. id \in ids /\ rest \in Seq(ids)
        BY <2>2
      <3>2. below \in Seq(ids)
        BY <1>2
      <3> HIDE DEF id, rest, below
      <3>3. Append(t.rows, id) \in Seq(ids) /\ below \o rest \in Seq(ids)
        BY <3>1, <3>2
      <3>4. op(t) = [stack |-> IF id \in closed THEN rest ELSE below \o rest, rows |-> Append(t.rows, id)]
        BY <2>2 DEF Visited, id, rest, below
      <3> QED
        BY <3>1, <3>3, <3>4
    <2> QED
      BY <2>1, <2>2
  <1> HIDE DEF op
  <1>4. step \in [1..n -> [T -> T]]
    BY <1>3
  <1>5. PICK g \in [SUBSET (1..n) -> T] : FoldsUp(g, n, base, step)
    <2>1. base \in T
      <3>1. <<>> \in Seq(ids)
        OBVIOUS
      <3> QED
        BY <1>2, <3>1
    <2> HIDE DEF step, T, n, base
    <2> QED
      BY <1>0, <1>4, <2>1, FoldExists
  <1> HIDE DEF T, base
  <1>6. \A s \in SUBSET (1..n) : g[s] = IF s = {} THEN base ELSE op(g[s \ {Max(s)}])
    <2> TAKE s \in SUBSET (1..n)
    <2>1. CASE s = {}
      BY <1>5, <2>1 DEF FoldsUp
    <2>2. CASE s # {}
      <3>1. Max(s) \in 1..n /\ s \ {Max(s)} \in SUBSET (1..n)
        BY <1>0, <2>2, MaxUpTo
      <3>2. g[s \ {Max(s)}] \in T
        BY <3>1
      <3> QED
        BY <1>5, <2>2, <3>1, <3>2 DEF FoldsUp
    <2> QED
      BY <2>1, <2>2
  <1>7. g = [s \in SUBSET (DOMAIN tree.order) |-> IF s = {} THEN base ELSE op(g[s \ {Max(s)}])]
    BY <1>0, <1>6
  <1>8. iter = [s \in SUBSET (DOMAIN tree.order) |-> IF s = {} THEN base ELSE op(iter[s \ {Max(s)}])]
    BY <1>7
  <1> HIDE DEF iter
  <1>9. iter[1..0] = base /\ \A k \in 1..n : iter[1..k] = op(iter[1..(k - 1)])
    <2>1. iter[{}] = base
      BY <1>8
    <2>2. ASSUME NEW k \in 1..n PROVE iter[1..k] = op(iter[1..(k - 1)])
      <3>1. 1..k \in SUBSET (DOMAIN tree.order) /\ 1..k # {} /\ k \in Nat /\ k # 0
        <4>1. k \in 1..k /\ 1..k \subseteq 1..n /\ k \in Nat /\ k # 0
          BY <1>0
        <4> QED
          BY <1>0, <4>1
      <3>2. Max(1..k) = k /\ (1..k) \ {k} = 1..(k - 1)
        BY <3>1, UpToIsMax
      <3> QED
        BY <1>8, <3>1, <3>2
    <2>3. 1..0 = {}
      OBVIOUS
    <2> QED
      BY <2>1, <2>2, <2>3
  <1> DEFINE Good(k) == /\ Standing(tree, V, iter[1..k].rows, iter[1..k].stack)
                        /\ Len(iter[1..k].rows) = k \/ iter[1..k].stack = <<>>
             Wrong == {k \in 0..n : ~Good(k)}
  <1>10. ASSUME Wrong # {} PROVE FALSE
    <2>1. PICK k \in Wrong : \A j \in Wrong : k <= j
      <3>1. Wrong \in SUBSET Nat
        BY <1>0
      <3> HIDE DEF Wrong
      <3> QED
        BY <1>10, <3>1, LeastNat
    <2>2. k # 0
      <3>1. iter[1..0].rows = <<>> /\ iter[1..0].stack = Below(tree, kept, None)
        BY <1>9 DEF base
      <3>2. Standing(tree, V, iter[1..0].rows, iter[1..0].stack) /\ Len(iter[1..0].rows) = 0
        BY <3>1, StandingAtFirst
      <3>3. Good(0)
        BY <3>2
      <3> HIDE DEF Good
      <3> QED
        BY <3>3
    <2>3. k \in 1..n /\ k - 1 \in 0..n
      BY <1>0, <2>2
    <2>4. Good(k - 1)
      <3>1. k - 1 \notin Wrong
        <4> HIDE DEF Wrong
        <4> QED
          BY <2>1, <2>3
      <3> QED
        BY <2>3, <3>1
    <2> DEFINE walk == iter[1..(k - 1)]
               next == iter[1..k]
    <2>5. next = Visited(tree, kept, closed, walk)
      BY <1>9, <2>3 DEF op
    <2>6. Standing(tree, V, walk.rows, walk.stack) /\ (Len(walk.rows) = k - 1 \/ walk.stack = <<>>)
      BY <2>4
    <2>7. ~Good(k)
      OBVIOUS
    <2>8. Standing(tree, V, next.rows, next.stack) /\ (Len(next.rows) = k \/ next.stack = <<>>)
      <3> HIDE DEF walk, next, V
      <3>1. CASE walk.stack = <<>>
        BY <2>5, <2>6, <3>1 DEF Visited
      <3>2. CASE walk.stack # <<>>
        <4>1. /\ next.rows = Append(walk.rows, Head(walk.stack))
              /\ next.stack = IF Head(walk.stack) \in closed THEN Tail(walk.stack)
                              ELSE Below(tree, kept, Head(walk.stack)) \o Tail(walk.stack)
          BY <2>5, <3>2 DEF Visited
        <4>2. Standing(tree, V, next.rows, next.stack) /\ Len(next.rows) = Len(walk.rows) + 1
          BY <2>6, <3>2, <4>1, StandingNext DEF V
        <4>3. Len(walk.rows) = k - 1
          BY <2>6, <3>2
        <4> QED
          BY <2>3, <4>2, <4>3
      <3> QED
        BY <3>1, <3>2
    <2> QED
      BY <2>7, <2>8
  <1> DEFINE stack == iter[1..n].stack
  <1>11. Standing(tree, V, rows, stack) /\ (Len(rows) = n \/ stack = <<>>)
    <2>1. Good(n)
      BY <1>0, <1>10
    <2> QED
      BY <1>1, <2>1
  <1> HIDE DEF stack
  <1>12. Once(rows, ids) /\ Len(rows) \in Nat /\ DOMAIN rows = 1..Len(rows)
    <2>1. Once(rows, ids)
      BY <1>11 DEF Standing
    <2> QED
      BY <2>1 DEF Once
  <1>13. ToSet(stack) = {}
    <2>1. CASE stack = <<>>
      BY <2>1 DEF ToSet
    <2>2. CASE Len(rows) = n
      <3>1. rows \in [1..n -> ids] /\ \A i, j \in 1..n : i # j => rows[i] # rows[j]
        BY <1>12, <2>2 DEF Once
      <3>2. rows \in Injection(1..n, ids)
        BY <3>1 DEF Injection, IsInjective
      <3>3. IsFiniteSet(ids) /\ Cardinality(ids) = n
        BY AsManyAsListed DEF WellBuilt
      <3>4. Cardinality(1..n) = n
        BY <1>0, FS_Interval
      <3>5. rows \in Surjection(1..n, ids)
        BY <3>2, <3>3, <3>4, FS_Injection
      <3>6. ids \subseteq ToSet(rows)
        BY <1>12, <2>2, <3>5 DEF Surjection, ToSet
      <3>7. ToSet(stack) \subseteq ids
        BY <1>11 DEF Standing, Once, ToSet
      <3>8. ToSet(rows) \cap ToSet(stack) = {}
        BY <1>11 DEF Standing
      <3> QED
        BY <3>6, <3>7, <3>8
    <2> QED
      BY <1>11, <2>1, <2>2
  <1>14. V \subseteq ToSet(rows)
    <2> DEFINE Lost == V \ ToSet(rows)
    <2>1. ASSUME Lost # {} PROVE FALSE
      <3>1. PICK x \in Lost : tree.parent[x] \notin Lost
        <4>1. Lost \in SUBSET ids
          BY DEF Seen, KeepsParents
        <4>2. Grounded(ids, tree.parent)
          BY DEF WellBuilt, Hierarchy
        <4> HIDE DEF Lost
        <4> QED
          BY <2>1, <4>1, <4>2 DEF Grounded
      <3>2. tree.parent[x] \notin ToSet(rows) \cup {None}
        BY <1>11, <1>13 DEF Standing
      <3>3. x \in kept /\ x \in ids /\ AncestorsIn(tree, x) \cap closed = {}
        BY DEF Seen, KeepsParents
      <3>4. tree.parent[x] \in kept /\ tree.parent[x] \in ids
        BY <3>2, <3>3 DEF KeepsParents
      <3>5. AncestorsIn(tree, x) = AncestorsIn(tree, tree.parent[x]) \cup {tree.parent[x]}
        BY <3>2, <3>3, <3>4 DEF WellBuilt, Hierarchy
      <3>6. tree.parent[x] \in V
        BY <3>3, <3>4, <3>5 DEF Seen
      <3> QED
        BY <3>1, <3>2, <3>6
    <2> QED
      BY <2>1
  <1>15. ToSet(rows) \subseteq V
    BY <1>11 DEF Standing
  <1>16. \A i \in 1..Len(rows) : tree.parent[rows[i]] # None =>
             \E j \in 1..(i - 1) : rows[j] = tree.parent[rows[i]]
    BY <1>11 DEF Standing
  <1> QED
    BY <1>12, <1>14, <1>15, <1>16

-----------------------------------------------------------------------------
(* descendantCount, and what the folded rows stand for.                          *)

\* Those below an agent.
HeirsIn(tree, id) == {x \in AgentIds(tree) : id \in AncestorsIn(tree, x)}

LEMMA HeirsFacts ==
    ASSUME NEW tree, WellBuilt(tree), NEW id \in AgentIds(tree)
    PROVE  /\ ChildrenIn(tree, id) \in SUBSET AgentIds(tree) /\ IsFiniteSet(AgentIds(tree))
           /\ id \notin HeirsIn(tree, id) /\ HeirsIn(tree, id) \in SUBSET AgentIds(tree)
           /\ HeirsIn(tree, id) = UNION {HeirsIn(tree, c) \cup {c} : c \in ChildrenIn(tree, id)}
           /\ \A c, d \in ChildrenIn(tree, id) : c # d =>
                  (HeirsIn(tree, c) \cup {c}) \cap (HeirsIn(tree, d) \cup {d}) = {}
  <1> DEFINE ids == AgentIds(tree)
             anc == [x \in ids |-> AncestorsIn(tree, x)]
             kids == {c \in ids : tree.parent[c] = id}
  <1>1. Hierarchy(ids, tree.parent, anc)
    BY DEF WellBuilt
  <1>2. ChildrenIn(tree, id) = kids
    BY DEF WellBuilt, Hierarchy, ChildrenIn
  <1>3. \A x \in ids : Heirs(ids, anc, x) = HeirsIn(tree, x)
    BY DEF Heirs, HeirsIn
  <1>4. id \notin HeirsIn(tree, id)
    <2> HIDE DEF anc
    <2>1. id \notin anc[id]
      BY <1>1, NobodyAboveThemselves
    <2> QED
      BY <2>1 DEF HeirsIn, anc
  <1> HIDE DEF anc
  <1>5. /\ Heirs(ids, anc, id) = UNION {Heirs(ids, anc, c) \cup {c} : c \in kids}
        /\ \A c, d \in ids : tree.parent[c] = id /\ tree.parent[d] = id /\ c # d =>
               (Heirs(ids, anc, c) \cup {c}) \cap (Heirs(ids, anc, d) \cup {d}) = {}
    BY <1>1, HeirsOfChildren
  <1>6. HeirsIn(tree, id) = UNION {HeirsIn(tree, c) \cup {c} : c \in kids}
    BY <1>3, <1>5
  <1>7. \A c, d \in kids : c # d => (HeirsIn(tree, c) \cup {c}) \cap (HeirsIn(tree, d) \cup {d}) = {}
    BY <1>3, <1>5
  <1>8. IsFiniteSet(ids)
    BY AsManyAsListed DEF WellBuilt
  <1>9. HeirsIn(tree, id) \in SUBSET ids
    BY DEF HeirsIn
  <1> QED
    BY <1>2, <1>4, <1>6, <1>7, <1>8, <1>9

LEMMA CountOfHeirs ==
    ASSUME NEW tree, WellBuilt(tree), NEW id \in AgentIds(tree), NEW w,
           \A c \in ChildrenIn(tree, id) : w[c] = Cardinality(HeirsIn(tree, c))
    PROVE  /\ Counted(w, ChildrenIn(tree, id)) = Cardinality(HeirsIn(tree, id))
           /\ Cardinality(HeirsIn(tree, id)) \in Nat
           /\ \A c \in ChildrenIn(tree, id) : Cardinality(HeirsIn(tree, c)) < Cardinality(HeirsIn(tree, id))
  <1> DEFINE ids == AgentIds(tree)
             S == ChildrenIn(tree, id)
             D == [c \in S |-> HeirsIn(tree, c) \cup {c}]
  <1>1. /\ S \in SUBSET ids /\ IsFiniteSet(ids)
        /\ HeirsIn(tree, id) \in SUBSET ids
        /\ HeirsIn(tree, id) = UNION {HeirsIn(tree, c) \cup {c} : c \in S}
        /\ \A c, d \in S : c # d => (HeirsIn(tree, c) \cup {c}) \cap (HeirsIn(tree, d) \cup {d}) = {}
    BY HeirsFacts
  <1>2. \A c \in S : c \notin HeirsIn(tree, c) /\ HeirsIn(tree, c) \in SUBSET ids
    BY <1>1, HeirsFacts
  <1> HIDE DEF S
  <1>3. ASSUME NEW c \in S
        PROVE  /\ Cardinality(HeirsIn(tree, c)) \in Nat
               /\ Cardinality(HeirsIn(tree, c) \cup {c}) = Cardinality(HeirsIn(tree, c)) + 1
               /\ IsFiniteSet(HeirsIn(tree, c) \cup {c})
    <2>1. IsFiniteSet(HeirsIn(tree, c))
      BY <1>1, <1>2, FS_Subset
    <2> QED
      BY <1>2, <2>1, FS_AddElement, FS_CardinalityType
  <1>4. IsFiniteSet(S) /\ IsFiniteSet(HeirsIn(tree, id)) /\ Cardinality(HeirsIn(tree, id)) \in Nat
    BY <1>1, FS_Subset, FS_CardinalityType
  <1>5. D \in [S -> SUBSET ids] /\ \A c \in S : D[c] = HeirsIn(tree, c) \cup {c}
    BY <1>1, <1>2
  <1> HIDE DEF D
  <1>6. \A c \in S : w[c] \in Nat /\ Cardinality(D[c]) = w[c] + 1
    BY <1>3, <1>5 DEF S
  <1>7. \A c, d \in S : c # d => D[c] \cap D[d] = {}
    BY <1>1, <1>5
  <1>8. Counted(w, S) = Cardinality(UNION {D[c] : c \in S})
    <2> HIDE DEF ids
    <2> QED
      BY <1>1, <1>4, <1>5, <1>6, <1>7, CountedFacts
  <1>9. UNION {D[c] : c \in S} = HeirsIn(tree, id)
    BY <1>1, <1>5
  <1>10. ASSUME NEW c \in S PROVE Cardinality(HeirsIn(tree, c)) < Cardinality(HeirsIn(tree, id))
    <2>1. HeirsIn(tree, c) \cup {c} \in SUBSET HeirsIn(tree, id)
      BY <1>1
    <2>2. Cardinality(HeirsIn(tree, c) \cup {c}) <= Cardinality(HeirsIn(tree, id))
      BY <1>4, <2>1, FS_Subset
    <2> QED
      BY <1>3, <1>4, <2>2
  <1> QED
    BY <1>4, <1>8, <1>9, <1>10 DEF S

\* A folded row says how many hang below it.
LEMMA DescendantCountFacts ==
    ASSUME NEW tree, WellBuilt(tree)
    PROVE  \A id \in AgentIds(tree) : DescendantCount(tree)[id] = Cardinality(HeirsIn(tree, id))
  <1> DEFINE ids == AgentIds(tree)
             real == [id \in ids |-> Cardinality(HeirsIn(tree, id))]
             count == CHOOSE c : c = [id \in DOMAIN tree.parent |-> Counted(c, ChildrenIn(tree, id))]
  <1>1. DOMAIN tree.parent = ids
    BY DEF WellBuilt, Hierarchy
  <1>2. \A id \in ids : ChildrenIn(tree, id) \in SUBSET ids
    BY HeirsFacts
  <1>3. ASSUME NEW id \in ids PROVE real[id] = Counted(real, ChildrenIn(tree, id)) /\ real[id] \in Nat
    <2>1. real[id] = Cardinality(HeirsIn(tree, id))
      OBVIOUS
    <2>2. \A c \in ChildrenIn(tree, id) : real[c] = Cardinality(HeirsIn(tree, c))
      BY <1>2
    <2> HIDE DEF real
    <2> QED
      BY <2>1, <2>2, CountOfHeirs
  <1>4. real = [id \in DOMAIN tree.parent |-> Counted(real, ChildrenIn(tree, id))]
    <2>1. real = [id \in ids |-> real[id]]
      OBVIOUS
    <2> HIDE DEF real
    <2> QED
      BY <1>1, <1>3, <2>1
  <1>5. \A id \in ids : real[id] = Cardinality(HeirsIn(tree, id))
    OBVIOUS
  <1> HIDE DEF real
  <1>6. count = [id \in DOMAIN tree.parent |-> Counted(count, ChildrenIn(tree, id))]
    BY <1>4
  <1>7. DescendantCount(tree) = count
    BY DEF DescendantCount
  <1> HIDE DEF count
  <1>8. \A id \in ids : count[id] = Counted(count, ChildrenIn(tree, id))
    BY <1>1, <1>6
  <1> DEFINE Wrong == {id \in ids : count[id] # real[id]}
             Sizes == {real[id] : id \in Wrong}
  <1>9. ASSUME Wrong # {} PROVE FALSE
    <2>1. PICK m \in Sizes : \A k \in Sizes : m <= k
      <3>1. Sizes \in SUBSET Nat /\ Sizes # {}
        BY <1>3, <1>9
      <3> HIDE DEF Sizes
      <3> QED
        BY <3>1, LeastNat
    <2>2. PICK id \in Wrong : m = real[id]
      OBVIOUS
    <2>3. id \in ids
      OBVIOUS
    <2>4. ASSUME NEW c \in ChildrenIn(tree, id) PROVE count[c] = Cardinality(HeirsIn(tree, c))
      <3>1. c \in ids
        BY <1>2, <2>3
      <3>2. Cardinality(HeirsIn(tree, c)) < Cardinality(HeirsIn(tree, id))
        <4>1. \A d \in ChildrenIn(tree, id) : real[d] = Cardinality(HeirsIn(tree, d))
          BY <1>2, <1>5, <2>3
        <4> QED
          BY <2>3, <4>1, CountOfHeirs
      <3>3. real[c] < real[id] /\ real[c] \in Nat /\ real[id] \in Nat
        BY <1>3, <1>5, <2>3, <3>1, <3>2
      <3>4. c \notin Wrong
        <4>1. ASSUME c \in Wrong PROVE FALSE
          <5>1. real[c] \in Sizes
            BY <4>1
          <5>2. m <= real[c]
            <6> HIDE DEF Sizes
            <6> QED
              BY <2>1, <5>1
          <5> QED
            BY <2>2, <3>3, <5>2
        <4> QED
          BY <4>1
      <3> QED
        BY <1>5, <3>1, <3>4
    <2>5. Counted(count, ChildrenIn(tree, id)) = Cardinality(HeirsIn(tree, id))
      BY <2>3, <2>4, CountOfHeirs
    <2>6. count[id] = real[id]
      BY <1>5, <1>8, <2>3, <2>5
    <2> QED
      BY <2>2, <2>6
  <1>10. \A id \in ids : count[id] = real[id]
    BY <1>9
  <1> QED
    BY <1>5, <1>7, <1>10

LEMMA FilterKeepsParents ==
    ASSUME NEW tree, WellBuilt(tree), NEW matching
    PROVE  KeepsParents(tree, Filtered(tree, matching))
  <1> DEFINE ids == AgentIds(tree)
             anc == [x \in ids |-> AncestorsIn(tree, x)]
  <1>1. Hierarchy(ids, tree.parent, anc)
    BY DEF WellBuilt
  <1>2. \A x \in ids : \A y \in AncestorsIn(tree, x) : y \in ids /\ AncestorsIn(tree, y) \subseteq AncestorsIn(tree, x)
    <2> SUFFICES ASSUME NEW x \in ids, NEW y \in AncestorsIn(tree, x)
                 PROVE  y \in ids /\ AncestorsIn(tree, y) \subseteq AncestorsIn(tree, x)
      OBVIOUS
    <2>1. anc[x] = AncestorsIn(tree, x) /\ anc[x] \in SUBSET ids
      BY <1>1 DEF Hierarchy
    <2>2. y \in ids
      BY <2>1
    <2>3. anc[y] = AncestorsIn(tree, y)
      BY <2>2
    <2> HIDE DEF anc
    <2> QED
      BY <1>1, <2>1, <2>2, <2>3, AboveIsBelow
  <1>3. \A x \in ids : tree.parent[x] # None => tree.parent[x] \in ids /\ tree.parent[x] \in AncestorsIn(tree, x)
    BY <1>1 DEF Hierarchy
  <1>4. DOMAIN tree.parent = ids
    BY <1>1 DEF Hierarchy
  <1>5. CASE matching = None
    BY <1>3, <1>4, <1>5 DEF Filtered, KeepsParents
  <1>6. CASE matching # None
    <2> DEFINE kept == Filtered(tree, matching)
    <2>1. kept = {id \in ids : id \in matching \/ \E m \in matching \cap ids : id \in AncestorsIn(tree, m)}
      BY <1>4, <1>6 DEF Filtered
    <2> HIDE DEF kept
    <2>2. ASSUME NEW x \in kept, tree.parent[x] # None PROVE tree.parent[x] \in kept
      <3>1. x \in ids /\ tree.parent[x] \in ids /\ tree.parent[x] \in AncestorsIn(tree, x)
        BY <1>3, <2>1, <2>2
      <3>2. CASE x \in matching
        BY <2>1, <3>1, <3>2
      <3>3. CASE x \notin matching
        <4>1. PICK m \in matching \cap ids : x \in AncestorsIn(tree, m)
          BY <2>1, <3>3
        <4>2. tree.parent[x] \in AncestorsIn(tree, m)
          BY <1>2, <3>1, <4>1
        <4> QED
          BY <2>1, <3>1, <4>1, <4>2
      <3> QED
        BY <3>2, <3>3
    <2> QED
      BY <2>1, <2>2 DEF KeepsParents, kept
  <1> QED
    BY <1>5, <1>6

\* Who has no row is below exactly one folded row.
LEMMA OneStandsFor ==
    ASSUME NEW tree, WellBuilt(tree), NEW closed, NEW rows, Once(rows, AgentIds(tree)),
           ToSet(rows) = Seen(tree, AgentIds(tree), closed), NEW id \in AgentIds(tree)
    PROVE  LET standsFor == {i \in DOMAIN rows : rows[i] \in closed \cap AncestorsIn(tree, id)}
           IN  IF id \in ToSet(rows) THEN standsFor = {} ELSE \E i \in DOMAIN rows : standsFor = {i}
  <1> DEFINE ids == AgentIds(tree)
             anc == [x \in ids |-> AncestorsIn(tree, x)]
             standsFor == {i \in DOMAIN rows : rows[i] \in closed \cap AncestorsIn(tree, id)}
             C == closed \cap AncestorsIn(tree, id)
  <1>1. Hierarchy(ids, tree.parent, anc)
    BY DEF WellBuilt
  <1>2. \A x \in ids : anc[x] = AncestorsIn(tree, x) /\ anc[x] \in SUBSET ids
    BY <1>1 DEF Hierarchy
  <1>3. \A x \in ids : x \in ToSet(rows) <=> AncestorsIn(tree, x) \cap closed = {}
    BY DEF Seen
  <1> HIDE DEF anc
  <1>4. CASE id \in ToSet(rows)
    BY <1>3, <1>4
  <1>5. CASE id \notin ToSet(rows)
    <2>1. C # {} /\ C \in SUBSET ids
      BY <1>2, <1>3, <1>5
    <2>2. PICK t \in C : anc[t] \cap C = {}
      <3> HIDE DEF C, ids
      <3> QED
        BY <1>1, <2>1, TopmostOf
    <2>3. t \in ids /\ t \in anc[id] /\ t \in closed
      BY <1>2, <2>1
    <2>4. anc[t] \subseteq anc[id]
      BY <1>1, <2>3, AboveIsBelow
    <2>5. AncestorsIn(tree, t) \cap closed = {}
      BY <1>2, <2>2, <2>3, <2>4
    <2>6. t \in ToSet(rows)
      BY <1>3, <2>3, <2>5
    <2>7. PICK i \in DOMAIN rows : rows[i] = t
      BY <2>6 DEF ToSet
    <2>8. i \in standsFor
      BY <1>2, <2>3, <2>7
    <2>9. ASSUME NEW j \in standsFor PROVE j = i
      <3>1. rows[j] \in closed /\ rows[j] \in anc[id] /\ rows[j] \in ToSet(rows) /\ rows[j] \in ids
        BY <1>2 DEF ToSet
      <3>2. AncestorsIn(tree, rows[j]) \cap closed = {}
        BY <1>3, <3>1
      <3>3. rows[j] = t \/ rows[j] \in anc[t] \/ t \in anc[rows[j]]
        BY <1>1, <2>3, <3>1, AboveIsALine
      <3>4. rows[j] \notin anc[t] /\ t \notin anc[rows[j]]
        BY <1>2, <2>3, <2>5, <3>1, <3>2
      <3> QED
        BY <2>7, <3>3, <3>4 DEF Once
    <2>10. standsFor = {i}
      BY <2>8, <2>9
    <2> QED
      BY <1>5, <2>10
  <1> QED
    BY <1>4, <1>5

\* The rows and what the folded ones stand for are all agents.
LEMMA RowsCountAll ==
    ASSUME NEW tree, WellBuilt(tree), NEW closed, NEW rows, Once(rows, AgentIds(tree)),
           ToSet(rows) = Seen(tree, AgentIds(tree), closed),
           NEW hidden, \A i \in DOMAIN rows :
               hidden[i] = IF rows[i] \in closed THEN Cardinality(HeirsIn(tree, rows[i])) ELSE 0
    PROVE  Counted(hidden, DOMAIN rows) = Cardinality(AgentIds(tree))
  <1> DEFINE ids == AgentIds(tree)
             S == DOMAIN rows
             D == [i \in S |-> (IF rows[i] \in closed THEN HeirsIn(tree, rows[i]) ELSE {}) \cup {rows[i]}]
  <1>1. IsFiniteSet(ids)
    BY AsManyAsListed DEF WellBuilt
  <1>2. Len(rows) \in Nat /\ S = 1..Len(rows) /\ \A i \in S : rows[i] \in ids
    BY DEF Once
  <1>3. IsFiniteSet(S)
    BY <1>2, FS_Interval
  <1>4. \A x \in ids : HeirsIn(tree, x) \in SUBSET ids /\ x \notin HeirsIn(tree, x)
    BY HeirsFacts
  <1>5. D \in [S -> SUBSET ids]
    BY <1>2, <1>4
  <1>6. \A i \in S : D[i] = (IF rows[i] \in closed THEN HeirsIn(tree, rows[i]) ELSE {}) \cup {rows[i]}
    OBVIOUS
  <1> HIDE DEF D
  <1>7. ASSUME NEW i \in S PROVE hidden[i] \in Nat /\ Cardinality(D[i]) = hidden[i] + 1
    <2>1. CASE rows[i] \in closed
      <3>1. hidden[i] = Cardinality(HeirsIn(tree, rows[i])) /\ D[i] = HeirsIn(tree, rows[i]) \cup {rows[i]}
        BY <1>6, <2>1
      <3>2. rows[i] \notin HeirsIn(tree, rows[i]) /\ HeirsIn(tree, rows[i]) \in SUBSET ids
        BY <1>2, <1>4
      <3>3. IsFiniteSet(HeirsIn(tree, rows[i]))
        BY <1>1, <3>2, FS_Subset
      <3> QED
        BY <3>1, <3>2, <3>3, FS_AddElement, FS_CardinalityType
    <2>2. CASE rows[i] \notin closed
      <3>1. hidden[i] = 0 /\ D[i] = {rows[i]}
        BY <1>6, <2>2
      <3>2. Cardinality({rows[i]}) = 1
        BY FS_Singleton
      <3> QED
        BY <3>1, <3>2
    <2> QED
      BY <2>1, <2>2
  <1>8. \A i \in S : rows[i] \in ToSet(rows)
    BY DEF ToSet
  \* Who is below a folded row has none, and is below no other.
  <1>9. ASSUME NEW i \in S, NEW x \in D[i], x # rows[i]
        PROVE  x \in ids /\ x \notin ToSet(rows) /\ rows[i] \in closed \cap AncestorsIn(tree, x)
    <2>1. rows[i] \in closed /\ x \in ids /\ rows[i] \in AncestorsIn(tree, x)
      BY <1>6, <1>9 DEF HeirsIn
    <2> QED
      BY <2>1 DEF Seen
  <1>10. ASSUME NEW i \in S, NEW j \in S, i # j, NEW x \in D[i], x \in D[j] PROVE FALSE
    <2>1. rows[i] # rows[j]
      BY <1>10 DEF Once
    <2>2. CASE x = rows[i]
      <3>1. x # rows[j] /\ x \in ToSet(rows)
        BY <1>8, <2>1, <2>2
      <3> QED
        BY <1>9, <1>10, <3>1
    <2>3. CASE x # rows[i] /\ x = rows[j]
      <3>1. x \in ToSet(rows)
        BY <1>8, <2>3
      <3> QED
        BY <1>9, <2>3, <3>1
    <2>4. CASE x # rows[i] /\ x # rows[j]
      <3> DEFINE standsFor == {k \in DOMAIN rows : rows[k] \in closed \cap AncestorsIn(tree, x)}
      <3>1. x \in ids /\ x \notin ToSet(rows) /\ i \in standsFor /\ j \in standsFor
        BY <1>9, <1>10, <2>4
      <3>2. \E k \in DOMAIN rows : standsFor = {k}
        BY <3>1, OneStandsFor
      <3> HIDE DEF standsFor
      <3> QED
        BY <1>10, <3>1, <3>2
    <2> QED
      BY <2>2, <2>3, <2>4
  <1>11. \A i, j \in S : i # j => D[i] \cap D[j] = {}
    BY <1>10
  <1>12. ASSUME NEW x \in ids PROVE \E i \in S : x \in D[i]
    <2>1. CASE x \in ToSet(rows)
      <3>1. PICK i \in S : x = rows[i]
        BY <2>1 DEF ToSet
      <3> QED
        BY <1>6, <3>1
    <2>2. CASE x \notin ToSet(rows)
      <3> DEFINE standsFor == {k \in DOMAIN rows : rows[k] \in closed \cap AncestorsIn(tree, x)}
      <3>1. PICK i \in S : standsFor = {i}
        <4>1. \E k \in DOMAIN rows : standsFor = {k}
          BY <2>2, OneStandsFor
        <4> HIDE DEF standsFor
        <4> QED
          BY <4>1
      <3>2. rows[i] \in closed /\ rows[i] \in AncestorsIn(tree, x)
        BY <3>1
      <3> QED
        BY <1>6, <3>2 DEF HeirsIn
    <2> QED
      BY <2>1, <2>2
  <1>13. UNION {D[i] : i \in S} = ids
    BY <1>5, <1>12
  <1>14. Counted(hidden, S) = Cardinality(UNION {D[i] : i \in S})
    <2> HIDE DEF S, ids
    <2> QED
      BY <1>1, <1>3, <1>5, <1>7, <1>11, CountedFacts
  <1> QED
    BY <1>13, <1>14

LEMMA DepthFacts ==
    ASSUME NEW tree, WellBuilt(tree), NEW id \in AgentIds(tree), tree.parent[id] # None
    PROVE  DepthOf(tree, id) = DepthOf(tree, tree.parent[id]) + 1
  <1> DEFINE ids == AgentIds(tree)
             anc == [x \in ids |-> AncestorsIn(tree, x)]
             p == tree.parent[id]
  <1>1. Hierarchy(ids, tree.parent, anc)
    BY DEF WellBuilt
  <1>2. p \in ids /\ anc[id] = anc[p] \cup {p}
    BY <1>1 DEF Hierarchy
  <1>3. anc[id] = AncestorsIn(tree, id) /\ anc[p] = AncestorsIn(tree, p) /\ anc[p] \in SUBSET ids
    BY <1>1, <1>2 DEF Hierarchy
  <1> HIDE DEF anc, p
  <1>4. p \notin anc[p]
    BY <1>1, <1>2, NobodyAboveThemselves
  <1>5. IsFiniteSet(ids)
    BY AsManyAsListed DEF WellBuilt
  <1>6. IsFiniteSet(anc[p])
    BY <1>3, <1>5, FS_Subset
  <1>7. Cardinality(anc[p] \cup {p}) = Cardinality(anc[p]) + 1
    BY <1>4, <1>6, FS_AddElement
  <1> QED
    BY <1>2, <1>3, <1>7 DEF DepthOf, p

LEMMA WellBuiltIsAccountedFor ==
    ASSUME WellBuilt(agents)
    PROVE  AgentsAreAccountedFor
  <1> DEFINE ids == AgentIds(agents)
             rows == Shown
             rowOf == [i \in DOMAIN rows |-> Row(rows[i])]
  <1>1. KeepsParents(agents, KeptRows)
    BY FilterKeepsParents DEF KeptRows
  <1>2. /\ Once(rows, ids) /\ ToSet(rows) = Seen(agents, KeptRows, Closed)
        /\ \A i \in 1..Len(rows) : agents.parent[rows[i]] # None =>
               \E j \in 1..(i - 1) : rows[j] = agents.parent[rows[i]]
    BY <1>1, RowsFacts DEF Shown, ShownOf, KeptRows, Closed
  <1>3. Len(rows) \in Nat /\ DOMAIN rows = 1..Len(rows) /\ \A i \in 1..Len(rows) : rows[i] \in ids
    BY <1>2 DEF Once
  <1>4. /\ DOMAIN agents.parent = ids
        /\ \A id \in ids : agents.attachment[id] = "child" =>
               agents.parent[id] = agents.reported[id] /\ agents.parent[id] # None
    BY DEF WellBuilt, Hierarchy
  <1> HIDE DEF rows
  <1>5. \A i \in DOMAIN rows :
            /\ rowOf[i].attachment = agents.attachment[rows[i]] /\ rowOf[i].depth = DepthOf(agents, rows[i])
            /\ rowOf[i].hidden = IF rows[i] \in Closed THEN DescendantCount(agents)[rows[i]] ELSE 0
    BY DEF Row
  <1> HIDE DEF rowOf
  <1>6. \A i, j \in DOMAIN rows : i # j => rows[i] # rows[j]
    BY <1>2 DEF Once
  <1>7. ASSUME NEW i \in DOMAIN rows, rowOf[i].attachment = "child"
        PROVE  \E j \in 1..(i - 1) : /\ rows[j] = agents.reported[rows[i]]
                                     /\ rowOf[i].depth = rowOf[j].depth + 1
    <2>1. rows[i] \in ids /\ agents.parent[rows[i]] = agents.reported[rows[i]] /\ agents.parent[rows[i]] # None
      BY <1>3, <1>4, <1>5, <1>7
    <2>2. PICK j \in 1..(i - 1) : rows[j] = agents.parent[rows[i]]
      BY <1>2, <1>3, <2>1
    <2>3. j \in DOMAIN rows
      BY <1>3
    <2>4. rowOf[i].depth = rowOf[j].depth + 1
      BY <1>5, <2>1, <2>2, <2>3, DepthFacts
    <2> QED
      BY <2>1, <2>2, <2>4
  <1>8. ASSUME filter = None PROVE Seen(agents, KeptRows, Closed) = Seen(agents, ids, Closed)
    BY <1>4, <1>8 DEF KeptRows, Filtered
  <1>9. ASSUME NEW id \in ids
        PROVE  LET standsFor == {i \in DOMAIN rows : rows[i] \in Closed \cap AncestorsIn(agents, id)}
               IN  IF filter = None
                   THEN Cardinality(standsFor) = (IF id \in ToSet(rows) THEN 0 ELSE 1)
                   ELSE id \in ToSet(rows) <=>
                            \E m \in filter \cap AgentIds(agents) : id \in AncestorsIn(agents, m) \cup {m}
    <2> DEFINE standsFor == {i \in DOMAIN rows : rows[i] \in Closed \cap AncestorsIn(agents, id)}
    <2>1. CASE filter = None
      <3>1. IF id \in ToSet(rows) THEN standsFor = {} ELSE \E i \in DOMAIN rows : standsFor = {i}
        <4>1. ToSet(rows) = Seen(agents, ids, Closed)
          BY <1>2, <1>8, <2>1
        <4> QED
          BY <1>2, <4>1, OneStandsFor
      <3> HIDE DEF standsFor
      <3>2. Cardinality(standsFor) = (IF id \in ToSet(rows) THEN 0 ELSE 1)
        BY <3>1, FS_EmptySet, FS_Singleton
      <3> QED
        BY <2>1, <3>2 DEF standsFor
    <2>2. CASE filter # None
      <3>1. Closed = {}
        BY <2>2 DEF Closed, ClosedIn
      <3>2. ToSet(rows) = KeptRows
        BY <1>2, <3>1 DEF Seen
      <3>3. KeptRows = {x \in ids : x \in filter \/ \E m \in filter \cap ids : x \in AncestorsIn(agents, m)}
        BY <1>4, <2>2 DEF KeptRows, Filtered
      <3>4. id \in ToSet(rows) <=> \E m \in filter \cap ids : id \in AncestorsIn(agents, m) \cup {m}
        BY <3>2, <3>3
      <3> QED
        BY <2>2, <3>4
    <2> QED
      BY <2>1, <2>2
  <1>10. ASSUME filter = None
         PROVE  Counted([i \in DOMAIN rows |-> rowOf[i].hidden], DOMAIN rows) = Cardinality(AgentIds(agents))
    <2> DEFINE hidden == [i \in DOMAIN rows |-> rowOf[i].hidden]
    <2>1. \A i \in DOMAIN rows :
              hidden[i] = IF rows[i] \in Closed THEN Cardinality(HeirsIn(agents, rows[i])) ELSE 0
      BY <1>3, <1>5, DescendantCountFacts
    <2>2. ToSet(rows) = Seen(agents, ids, Closed)
      BY <1>2, <1>8, <1>10
    <2> HIDE DEF hidden
    <2>3. Counted(hidden, DOMAIN rows) = Cardinality(ids)
      BY <1>2, <2>1, <2>2, RowsCountAll
    <2> QED
      BY <2>3 DEF hidden
  <1>11. RowsAreWhole(rows, rowOf)
    <2> USE DEF RowsAreWhole
    <2>1. \A i \in DOMAIN rows : rowOf[i].attachment = "child" =>
              \E j \in 1..(i - 1) : /\ rows[j] = agents.reported[rows[i]]
                                    /\ rowOf[i].depth = rowOf[j].depth + 1
      BY <1>7
    <2>2. filter = None =>
              Counted([i \in DOMAIN rows |-> rowOf[i].hidden], DOMAIN rows) = Cardinality(AgentIds(agents))
      BY <1>10
    <2> QED
      BY <1>6, <1>9, <2>1, <2>2
  <1>12. ASSUME NEW cycle \in {Range(WayFrom(agents, id)) : id \in ids}, None \notin cycle,
                \A m \in cycle : [id \in ids |-> Range(WayFrom(agents, id))][m] = cycle
         PROVE  Cardinality({m \in cycle : agents.attachment[m] = "cycle_broken"}) = 1
    <2>1. PICK id \in ids : cycle = Range(WayFrom(agents, id))
      OBVIOUS
    <2>2. IsWay(WayFrom(agents, id), Upward(agents), Len(agents.order), ids \cup {None}, id)
          /\ Len(agents.order) \in Nat
      <3>1. Listed(agents)
        BY DEF WellBuilt
      <3>2. Len(agents.order) \in Nat
        BY <3>1 DEF Listed
      <3> QED
        BY <3>1, <3>2, WayFacts
    <2>3. id \in cycle /\ cycle \in SUBSET ids
      <3>1. 0 \in DOMAIN WayFrom(agents, id) /\ WayFrom(agents, id)[0] = id
        BY <2>2 DEF IsWay
      <3>2. cycle \in SUBSET (ids \cup {None})
        BY <2>1, <2>2 DEF IsWay, Range
      <3> QED
        BY <1>12, <2>1, <3>1, <3>2 DEF Range
    <2>4. IsCycle(agents, cycle)
      BY <1>12, <2>3 DEF IsCycle
    <2>5. PICK m \in cycle : {x \in cycle : agents.attachment[x] = "cycle_broken"} = {m}
      BY <2>3, <2>4 DEF WellBuilt
    <2> QED
      BY <2>5, FS_Singleton
  <1>13. CyclesAreCut([id \in ids |-> Range(WayFrom(agents, id))])
    <2> DEFINE above == [id \in ids |-> Range(WayFrom(agents, id))]
    <2>1. Range(above) = {Range(WayFrom(agents, id)) : id \in ids}
      <3>1. DOMAIN above = ids /\ \A id \in ids : above[id] = Range(WayFrom(agents, id))
        OBVIOUS
      <3> HIDE DEF above
      <3>2. Range(above) = {above[id] : id \in ids}
        BY <3>1 DEF Range
      <3> QED
        BY <3>1, <3>2
    <2>2. \A cycle \in Range(above) :
              None \notin cycle /\ (\A m \in cycle : above[m] = cycle)
                  => Cardinality({m \in cycle : agents.attachment[m] = "cycle_broken"}) = 1
      BY <1>12, <2>1
    <2> HIDE DEF above
    <2>3. CyclesAreCut(above)
      BY <2>2 DEF CyclesAreCut
    <2> QED
      BY <2>3 DEF above
  <1> QED
    BY <1>11, <1>13 DEF AgentsAreAccountedFor, rows, rowOf

-----------------------------------------------------------------------------
(* The tree that is shown is always that of an answer.                           *)

\* The tree that is shown is that of an answer.
AgentsInv == \E answer \in Reports \cup Later : agents = Tree(answer)

LEMMA AgentsStart == ASSUME AgentsInit PROVE AgentsInv
  BY DEF AgentsInit, AgentsInv

LEMMA AgentsStep == ASSUME AgentsInv, [AgentsNext]_agentVars PROVE AgentsInv'
  <1>1. CASE \E answer \in Later : Refetch(answer)
    BY <1>1 DEF Refetch, AgentsInv
  <1>2. CASE agents' = agents
    BY <1>2 DEF AgentsInv
  <1>3. CASE \E id \in AgentIds(agents) : ToggleCollapsed(id) \/ ToggleDetail(id)
    BY <1>2, <1>3 DEF ToggleCollapsed, ToggleDetail
  <1>4. CASE ToggleAll
    BY <1>2, <1>4 DEF ToggleAll
  <1>5. CASE \E matching \in Filters \cup {None} : SetFilter(matching)
    BY <1>2, <1>5 DEF SetFilter
  <1>6. CASE RefetchFails
    BY <1>2, <1>6 DEF RefetchFails
  <1>7. CASE ShowRun
    BY <1>1, <1>2, <1>7 DEF ShowRun
  <1> QED
    BY <1>1, <1>2, <1>3, <1>4, <1>5, <1>6, <1>7 DEF AgentsNext, agentVars

LEMMA AnswersAreWellBuilt ==
    ASSUME NEW answer \in Reports \cup Later
    PROVE  WellBuilt(Tree(answer))
  <1>1. IsAnswer(answer)
    BY ReportsAssumption DEF IsAnswer
  <1> QED
    BY <1>1, TreeFacts

LEMMA AgentsInvIsWellBuilt == AgentsInv => WellBuilt(agents)
  BY AnswersAreWellBuilt DEF AgentsInv

\* The agents that are shown are those the answer reports, and nobody else: whatever
\* parents they name and however often one is reported (agentHierarchy.ts:66-109).
THEOREM EveryReportIsShown ==
    AgentsSpec => [](\E answer \in Reports \cup Later :
                         agents = Tree(answer) /\ AgentIds(agents) = {r.id : r \in ToSet(answer)})
  <1> DEFINE Shows == \E answer \in Reports \cup Later :
                         agents = Tree(answer) /\ AgentIds(agents) = {r.id : r \in ToSet(answer)}
  <1>1. AgentsInv => Shows
    BY ReportsAssumption, TreeFacts DEF AgentsInv, IsAnswer
  <1> QED
    BY <1>1, AgentsStart, AgentsStep, PTL DEF AgentsSpec

\* Every agent has one row, below its parent, or is counted by exactly one folded row
\* that is shown; a filter shows its matches below all of their parents, and a cycle of
\* parents is cut at one of its members: for any answers of any length, and whatever the
\* reader folds, opens and filters (agentHierarchy.ts:66-298, AgentTree.tsx:62-73).
THEOREM EveryAgentCounts == AgentsSpec => []AgentsAreAccountedFor
  <1>1. AgentsInit => AgentsInv
    BY AgentsStart
  <1>2. AgentsInv /\ [AgentsNext]_agentVars => AgentsInv'
    BY AgentsStep
  <1>3. AgentsInv => AgentsAreAccountedFor
    BY AgentsInvIsWellBuilt, WellBuiltIsAccountedFor
  <1> QED
    BY <1>1, <1>2, <1>3, PTL DEF AgentsSpec

-----------------------------------------------------------------------------
(* The rows follow their reader.                                                 *)

\* What an agent hangs below has children.
LEMMA AncestorsAreBranches ==
    ASSUME NEW tree, WellBuilt(tree)
    PROVE  \A x \in AgentIds(tree) : AncestorsIn(tree, x) \subseteq Branches(tree)
  <1> DEFINE ids == AgentIds(tree)
             anc == [id \in ids |-> AncestorsIn(tree, id)]
             Wrong == {x \in ids : ~ (anc[x] \subseteq Branches(tree))}
  <1>1. Hierarchy(ids, tree.parent, anc)
    BY DEF WellBuilt
  <1>2. ASSUME Wrong # {} PROVE FALSE
    <2>1. PICK x \in Wrong : tree.parent[x] \notin Wrong
      <3>1. Wrong \in SUBSET ids
        OBVIOUS
      <3> HIDE DEF Wrong
      <3> QED
        BY <1>1, <1>2, <3>1 DEF Hierarchy, Grounded
    <2> DEFINE up == tree.parent[x]
    <2>2. /\ x \in ids /\ DOMAIN tree.parent = ids /\ up \in ids
          /\ anc[x] = anc[up] \cup {up}
      <3> HIDE DEF anc
      <3> QED
        BY <1>1, <2>1 DEF Hierarchy
    <2>3. up \in Branches(tree)
      BY <2>2 DEF Branches, ChildrenIn
    <2>4. anc[up] \subseteq Branches(tree)
      BY <2>1, <2>2
    <2> QED
      BY <2>1, <2>2, <2>3, <2>4
  <1> QED
    BY <1>2

\* Without a filter a row is shown that hangs below nothing the reader has folded.
LEMMA UnfilteredRows ==
    ASSUME NEW tree, WellBuilt(tree), filter = None
    PROVE  ToSet(ShownOf(tree)) = {x \in AgentIds(tree) : AncestorsIn(tree, x) \cap folded = {}}
  <1>1. Filtered(tree, filter) = AgentIds(tree)
    BY DEF Filtered, WellBuilt, Hierarchy
  <1>2. KeepsParents(tree, AgentIds(tree))
    BY DEF KeepsParents, WellBuilt, Hierarchy
  <1>3. ToSet(ShownOf(tree)) = Seen(tree, AgentIds(tree), ClosedIn(tree))
    BY <1>1, <1>2, RowsFacts DEF ShownOf
  <1>4. \A x \in AgentIds(tree) :
            AncestorsIn(tree, x) \cap ClosedIn(tree) = AncestorsIn(tree, x) \cap folded
    BY AncestorsAreBranches DEF ClosedIn
  <1> QED
    BY <1>3, <1>4 DEF Seen

LEMMA VisibleRowsStay ==
    ASSUME WellBuilt(agents), WellBuilt(agents'), filter = None
    PROVE  StaysVisible
BY UnfilteredRows DEF StaysVisible, Shown

\* What the reader opened or closed is one or the other.
ReadersRows == \A id \in DOMAIN overrides : overrides[id] \in BOOLEAN

RowsInv == AgentsInv /\ ReadersRows

LEMMA DetailOpenIsBoolean ==
    ASSUME ReadersRows, NEW id
    PROVE  DetailOpen(id) \in BOOLEAN
BY DEF DetailOpen, ReadersRows, ByReport

LEMMA RowsStart == AgentsInit => RowsInv
BY AgentsStart DEF AgentsInit, RowsInv, ReadersRows

LEMMA ToggleDetailStep ==
    ASSUME ReadersRows, NEW id, ToggleDetail(id)
    PROVE  ReadersRows' /\ RowFollows
<1>1. /\ UNCHANGED <<agents, list, folded, filter>> /\ id \in ToSet(Shown)
      /\ DOMAIN overrides' = DOMAIN overrides \cup {id}
      /\ overrides'[id] = ~DetailOpen(id)
      /\ \A x \in DOMAIN overrides \ {id} : overrides'[x] = overrides[x]
    BY DEF ToggleDetail
<1>2. \A x : DetailOpen(x) \in BOOLEAN
    BY DetailOpenIsBoolean
<1>3. ReadersRows'
    BY <1>1, <1>2 DEF ReadersRows
<1>4. DetailOpen(id)' # DetailOpen(id)
    <2>1. DetailOpen(id)' = ~DetailOpen(id)
        BY <1>1 DEF DetailOpen
    <2> QED
        BY <1>2, <2>1
<1>5. \A x : x # id => DetailOpen(x)' = DetailOpen(x)
    BY <1>1 DEF DetailOpen
<1>6. ClickedOn(id)
    BY <1>1, <1>4, <1>5 DEF ClickedOn
<1>7. \A x : DetailOpen(x)' # DetailOpen(x) => x = id
    BY <1>5
<1> QED
    BY <1>1, <1>3, <1>6, <1>7 DEF RowFollows

\* The reader folds and filters: no row opens or closes.
LEMMA UntouchedRows ==
    ASSUME ReadersRows, UNCHANGED <<agents, list, overrides>>
    PROVE  ReadersRows' /\ RowFollows
<1>1. \A id : DetailOpen(id)' = DetailOpen(id)
    BY DEF DetailOpen
<1> QED
    BY <1>1 DEF ReadersRows, RowFollows

\* An answer changes a row with what its agent reports, and takes none away.
LEMMA RefetchStep ==
    ASSUME RowsInv, AgentsInv', NEW answer, Refetch(answer)
    PROVE  ReadersRows' /\ RowFollows
<1>1. /\ UNCHANGED <<folded, overrides, filter>> /\ WellBuilt(agents) /\ WellBuilt(agents')
    BY AgentsInvIsWellBuilt, AnswersAreWellBuilt DEF Refetch, RowsInv, AgentsInv
<1>2. ASSUME NEW id, DetailOpen(id)' # DetailOpen(id)
      PROVE  ReportedAnew(id)
    BY <1>1, <1>2 DEF DetailOpen, ReportedAnew
<1>3. filter = None => StaysVisible
    BY <1>1, VisibleRowsStay
<1> QED
    BY <1>1, <1>2, <1>3 DEF RowsInv, ReadersRows, RowFollows

\* A list that is not rendered opens nothing, and folds nothing.
LEMMA UnmountStep ==
    ASSUME NEW state, state # "shown", Unmount(state)
    PROVE  ReadersRows' /\ RowFollows
BY DEF Unmount, ReadersRows, RowFollows

LEMMA RowsStep == RowsInv /\ [AgentsNext]_agentVars => RowsInv' /\ [RowFollows]_agentVars
<1> SUFFICES ASSUME RowsInv, [AgentsNext]_agentVars
             PROVE  RowsInv' /\ [RowFollows]_agentVars
    OBVIOUS
<1>0. AgentsInv'
    BY AgentsStep DEF RowsInv
<1> SUFFICES ReadersRows' /\ [RowFollows]_agentVars
    BY <1>0 DEF RowsInv
<1>1. CASE UNCHANGED agentVars
    BY <1>1 DEF agentVars, RowsInv, ReadersRows
<1>2. ASSUME NEW id, ToggleCollapsed(id) PROVE ReadersRows' /\ RowFollows
    BY <1>2, UntouchedRows DEF ToggleCollapsed, RowsInv
<1>3. ASSUME NEW id, ToggleDetail(id) PROVE ReadersRows' /\ RowFollows
    BY <1>3, ToggleDetailStep DEF RowsInv
<1>4. ASSUME ToggleAll PROVE ReadersRows' /\ RowFollows
    BY <1>4, UntouchedRows DEF ToggleAll, RowsInv
<1>5. ASSUME NEW matching, SetFilter(matching) PROVE ReadersRows' /\ RowFollows
    BY <1>5, UntouchedRows DEF SetFilter, RowsInv
<1>6. ASSUME NEW answer, Refetch(answer) PROVE ReadersRows' /\ RowFollows
    BY <1>0, <1>6, RefetchStep
<1>7. ASSUME RefetchFails PROVE ReadersRows' /\ RowFollows
    BY <1>7, UnmountStep DEF RefetchFails
<1>8. ASSUME ShowRun PROVE ReadersRows' /\ RowFollows
    BY <1>6, <1>8, UnmountStep DEF ShowRun
<1> QED
    BY <1>1, <1>2, <1>3, <1>4, <1>5, <1>6, <1>7, <1>8 DEF AgentsNext

\* While the list is rendered the details of a row open and close when its reader says
\* so, and at no other row, or to follow a new report of an agent nobody has touched;
\* what they touched stays touched, and an answer takes away no row that can be seen
\* unless its agent or whom it hangs below has changed: for any answers, cycles and
\* unknown parents included, and any filters (AgentTree.tsx:33-50).
THEOREM RowsAreTheReaders == AgentsSpec => RowsFollowTheirReader
BY RowsStart, RowsStep, PTL DEF AgentsSpec, RowsFollowTheirReader

-----------------------------------------------------------------------------
(* Inspector: lists of places in the log, the newest first.                      *)

\* Positions of the log, the newest first.
Descends(seq, n) == seq \in Seq(1..n) /\ \A i, j \in DOMAIN seq : i < j => seq[i] > seq[j]

LEMMA PickedDescends ==
    ASSUME NEW n \in Nat, NEW seq, Descends(seq, n), NEW S
    PROVE  /\ Descends(Picked(seq, S), n)
           /\ \A x : x \in ToSet(Picked(seq, S)) <=> x \in S /\ x \in ToSet(seq)
  <1> DEFINE picked == Picked(seq, S)
  <1>1. seq \in Seq(1..n) /\ DOMAIN seq = 1..Len(seq) /\ Len(seq) \in Nat
    BY DEF Descends
  <1>2. Taken(picked, Len(seq), seq, 1..n, S)
    BY <1>1, KeptFacts
  <1> HIDE DEF picked
  <1>3. ASSUME NEW i \in DOMAIN picked, NEW j \in DOMAIN picked, i < j PROVE picked[i] > picked[j]
    <2>1. PICK p, q \in 1..Len(seq) : p < q /\ picked[i] = seq[p] /\ picked[j] = seq[q]
      BY <1>2, <1>3 DEF Taken
    <2>2. seq[p] > seq[q]
      BY <1>1, <2>1 DEF Descends
    <2> QED
      BY <2>1, <2>2
  <1>4. Descends(picked, n)
    BY <1>2, <1>3 DEF Taken, Descends
  <1>5. ASSUME NEW x PROVE x \in ToSet(picked) <=> x \in S /\ x \in ToSet(seq)
    <2>1. x \in ToSet(picked) <=> \E i \in DOMAIN picked : picked[i] = x
      BY DEF ToSet
    <2>2. x \in ToSet(seq) <=> \E i \in 1..Len(seq) : seq[i] = x
      BY <1>1 DEF ToSet
    <2> QED
      BY <1>2, <2>1, <2>2 DEF Taken
  <1> QED
    BY <1>4, <1>5 DEF picked

LEMMA BackwardsFacts ==
    ASSUME NEW n \in Nat
    PROVE  Descends(Backwards(n), n) /\ \A p : p \in ToSet(Backwards(n)) <=> p \in 1..n
  <1>1. DOMAIN Backwards(n) = 1..n /\ \A i \in 1..n : Backwards(n)[i] = n + 1 - i
    BY DEF Backwards
  <1>2. Backwards(n) \in Seq(1..n)
    BY <1>1 DEF Backwards
  <1>3. ASSUME NEW p PROVE p \in ToSet(Backwards(n)) <=> p \in 1..n
    <2>1. p \in ToSet(Backwards(n)) <=> \E i \in 1..n : n + 1 - i = p
      BY <1>1 DEF ToSet
    <2>2. p \in 1..n => n + 1 - p \in 1..n /\ n + 1 - (n + 1 - p) = p
      OBVIOUS
    <2> QED
      BY <2>1, <2>2
  <1> QED
    BY <1>1, <1>2, <1>3 DEF Descends

\* The positions of a list of rows are in the log, and each is of the row's id.
KnownRows(rows, log) ==
    /\ rows \in Seq(ToSet(rows))
    /\ \A i \in DOMAIN rows : rows[i].position \in DOMAIN log /\ log[rows[i].position].id = rows[i].id

\* All rows, the newest first.
IsNewestFirst(seq, rows) ==
    /\ seq \in Seq(rows)
    /\ \A r \in rows : \E i \in DOMAIN seq : seq[i] = r
    /\ \A i, j \in DOMAIN seq : i < j => seq[i].position > seq[j].position

LEMMA NewestFirstFacts ==
    ASSUME IsLog(events), NEW rows, \A r \in rows : r.position \in DOMAIN events,
           \A r, s \in rows : r.position = s.position => r = s
    PROVE  IsNewestFirst(NewestFirst(rows), rows)
  <1> DEFINE some == {r.position : r \in rows}
             n == Max({0} \cup some)
             at == Picked(Backwards(n), some)
             seq == NewestFirst(rows)
  <1>0. Len(events) \in Nat /\ some \in SUBSET (1..Len(events))
    BY DEF IsLog
  <1>1. n \in Nat /\ some \subseteq 1..n
    <2>1. \E x \in {0} \cup some : \A y \in {0} \cup some : x >= y
      <3>1. CASE some = {}
        BY <3>1
      <3>2. CASE some # {}
        <4>1. Max(some) \in some /\ \A k \in some : k <= Max(some)
          <5> HIDE DEF some
          <5> QED
            BY <1>0, <3>2, MaxUpTo
        <4> HIDE DEF some
        <4>2. Max(some) \in Nat
          <5>1. \A y \in some : y \in 1..Len(events)
            BY <1>0
          <5> HIDE DEF some
          <5>2. Max(some) \in 1..Len(events)
            BY <4>1, <5>1
          <5> QED
            BY <1>0, <5>2
        <4>3. ASSUME NEW y \in {0} \cup some PROVE Max(some) >= y
          BY <4>1, <4>2
        <4>4. Max(some) \in {0} \cup some
          BY <4>1
        <4> QED
          BY <4>3, <4>4
      <3> QED
        BY <3>1, <3>2
    <2>2. n \in {0} \cup some /\ \A y \in {0} \cup some : n >= y
      <3> HIDE DEF some
      <3> QED
        BY <2>1 DEF Max
    <2> QED
      BY <1>0, <2>2
  <1>2. Descends(at, n) /\ \A x : x \in ToSet(at) <=> x \in some
    <2> HIDE DEF some, n
    <2>1. Descends(Backwards(n), n) /\ \A p : p \in ToSet(Backwards(n)) <=> p \in 1..n
      BY <1>1, BackwardsFacts
    <2>2. Descends(at, n) /\ \A x : x \in ToSet(at) <=> x \in some /\ x \in ToSet(Backwards(n))
      BY <1>1, <2>1, PickedDescends
    <2> QED
      BY <1>1, <2>1, <2>2
  <1>3. seq = [i \in DOMAIN at |-> CHOOSE r \in rows : r.position = at[i]]
    BY DEF NewestFirst
  <1> HIDE DEF at, seq
  <1>4. ASSUME NEW i \in DOMAIN at PROVE seq[i] \in rows /\ seq[i].position = at[i]
    <2>1. at[i] \in ToSet(at)
      BY DEF ToSet
    <2>2. \E r \in rows : r.position = at[i]
      BY <1>2, <2>1
    <2> QED
      BY <1>3, <2>2
  <1>5. DOMAIN at = 1..Len(at) /\ Len(at) \in Nat
    BY <1>2 DEF Descends
  <1>6. seq \in Seq(rows) /\ DOMAIN seq = DOMAIN at
    BY <1>3, <1>4, <1>5
  <1>7. ASSUME NEW r \in rows PROVE \E i \in DOMAIN seq : seq[i] = r
    <2>1. r.position \in ToSet(at)
      BY <1>2
    <2>2. PICK i \in DOMAIN at : at[i] = r.position
      BY <2>1 DEF ToSet
    <2> QED
      BY <1>4, <1>6, <2>2
  <1>8. \A i, j \in DOMAIN seq : i < j => seq[i].position > seq[j].position
    BY <1>2, <1>4, <1>6 DEF Descends
  <1> QED
    BY <1>6, <1>7, <1>8 DEF IsNewestFirst, seq

LEMMA FirstOfFacts ==
    ASSUME NEW A, NEW seq \in Seq(A), NEW n \in Nat
    PROVE  /\ FirstOf(seq, n) \in Seq(A)
           /\ Len(FirstOf(seq, n)) = IF n <= Len(seq) THEN n ELSE Len(seq)
           /\ \A i \in 1..Len(FirstOf(seq, n)) : FirstOf(seq, n)[i] = seq[i]
  <1> DEFINE m == Min({n, Len(seq)})
  <1>1. m \in {n, Len(seq)} /\ m <= n /\ m <= Len(seq)
    <2>1. {n, Len(seq)} \in SUBSET Nat /\ {n, Len(seq)} # {}
      OBVIOUS
    <2> QED
      BY <2>1, MinOf
  <1> HIDE DEF m
  <1>2. FirstOf(seq, n) = SubSeq(seq, 1, m)
    BY DEF FirstOf, m
  <1>3. m \in Nat /\ m <= Len(seq) /\ Len(seq) \in Nat
    BY <1>1
  <1>4. /\ SubSeq(seq, 1, m) \in Seq(A) /\ Len(SubSeq(seq, 1, m)) = m
        /\ \A i \in 1..m : SubSeq(seq, 1, m)[i] = seq[i]
    BY <1>3
  <1> QED
    BY <1>1, <1>2, <1>4

LEMMA RowsOfFacts ==
    ASSUME IsLog(events), NEW kind
    PROVE  /\ KnownRows(RowsOf(kind), events)
           /\ \A i, j \in DOMAIN RowsOf(kind) :
                  RowsOf(kind)[i].position = RowsOf(kind)[j].position => RowsOf(kind)[i] = RowsOf(kind)[j]
  <1> DEFINE named == {events[p].id : p \in {q \in DOMAIN events : Restates(events[q], kind) /\ events[q].names}}
             rows == {ReportedRow(kind, id) : id \in named}
  <1>1. Len(events) \in Nat /\ DOMAIN events = 1..Len(events)
    BY DEF IsLog
  <1>2. ASSUME NEW id \in named
        PROVE  /\ ReportedRow(kind, id).id = id
               /\ ReportedRow(kind, id).position \in DOMAIN events
               /\ events[ReportedRow(kind, id).position].id = id
    <2>1. PositionsOf(kind, id) \in SUBSET (1..Len(events)) /\ PositionsOf(kind, id) # {}
      BY <1>1 DEF PositionsOf
    <2>2. Max(PositionsOf(kind, id)) \in PositionsOf(kind, id)
      BY <1>1, <2>1, MaxUpTo
    <2>3. /\ ReportedRow(kind, id).id = id
          /\ ReportedRow(kind, id).position = Max(PositionsOf(kind, id))
      BY DEF ReportedRow
    <2> QED
      BY <2>2, <2>3 DEF PositionsOf
  <1>3. \A r \in rows : r.position \in DOMAIN events /\ events[r.position].id = r.id
    BY <1>2
  <1>4. ASSUME NEW r \in rows, NEW s \in rows, r.position = s.position PROVE r = s
    <2>1. PICK x, y \in named : r = ReportedRow(kind, x) /\ s = ReportedRow(kind, y)
      OBVIOUS
    <2>2. x = y
      BY <1>2, <1>4, <2>1
    <2> QED
      BY <2>1, <2>2
  <1>5. RowsOf(kind) = NewestFirst(rows)
    BY DEF RowsOf
  <1> HIDE DEF rows
  <1>6. IsNewestFirst(RowsOf(kind), rows)
    BY <1>3, <1>4, <1>5, NewestFirstFacts
  <1> DEFINE seq == RowsOf(kind)
  <1> HIDE DEF seq
  <1>7. seq \in Seq(rows) /\ seq \in Seq(ToSet(seq))
    BY <1>6 DEF IsNewestFirst, ToSet, seq
  <1>8. KnownRows(seq, events)
    BY <1>3, <1>7 DEF KnownRows
  <1>9. \A i, j \in DOMAIN seq : seq[i].position = seq[j].position => seq[i] = seq[j]
    BY <1>4, <1>7
  <1> QED
    BY <1>8, <1>9 DEF seq

LEMMA KnownFirst ==
    ASSUME NEW rows, NEW log, KnownRows(rows, log), NEW n \in Nat
    PROVE  KnownRows(FirstOf(rows, n), log)
  <1> DEFINE first == FirstOf(rows, n)
  <1>1. rows \in Seq(ToSet(rows)) /\ Len(rows) \in Nat /\ DOMAIN rows = 1..Len(rows)
    BY DEF KnownRows
  <1>2. /\ first \in Seq(ToSet(rows)) /\ Len(first) <= Len(rows)
        /\ \A i \in 1..Len(first) : first[i] = rows[i]
    BY <1>1, FirstOfFacts
  <1> HIDE DEF first
  <1>3. Len(first) \in Nat /\ DOMAIN first = 1..Len(first)
    BY <1>2
  <1>4. first \in Seq(ToSet(first))
    BY <1>2, <1>3 DEF ToSet
  <1>5. \A i \in DOMAIN first : i \in DOMAIN rows /\ first[i] = rows[i]
    BY <1>1, <1>2, <1>3
  <1>6. KnownRows(first, log)
    BY <1>4, <1>5 DEF KnownRows
  <1> QED
    BY <1>6 DEF first

LEMMA KnownAfter ==
    ASSUME NEW s, NEW t, NEW log, KnownRows(s, log), KnownRows(t, log)
    PROVE  KnownRows(s \o t, log)
  <1> DEFINE A == ToSet(s) \cup ToSet(t)
             st == s \o t
  <1>1. s \in Seq(A) /\ t \in Seq(A)
    BY DEF KnownRows
  <1>2. /\ st \in Seq(A) /\ Len(st) = Len(s) + Len(t)
        /\ \A i \in 1..Len(st) : st[i] = IF i <= Len(s) THEN s[i] ELSE t[i - Len(s)]
    BY <1>1
  <1>3. Len(s) \in Nat /\ Len(t) \in Nat /\ DOMAIN s = 1..Len(s) /\ DOMAIN t = 1..Len(t) /\ DOMAIN st = 1..Len(st)
    BY <1>1, <1>2
  <1> HIDE DEF st, A
  <1>4. st \in Seq(ToSet(st))
    BY <1>2, <1>3 DEF ToSet
  <1>5. ASSUME NEW i \in DOMAIN st PROVE st[i].position \in DOMAIN log /\ log[st[i].position].id = st[i].id
    <2>1. CASE i <= Len(s)
      <3>1. st[i] = s[i] /\ i \in DOMAIN s
        BY <1>2, <1>3, <2>1
      <3> QED
        BY <3>1 DEF KnownRows
    <2>2. CASE ~(i <= Len(s))
      <3>1. st[i] = t[i - Len(s)] /\ i - Len(s) \in DOMAIN t
        BY <1>2, <1>3, <2>2
      <3> QED
        BY <3>1 DEF KnownRows
    <2> QED
      BY <2>1, <2>2
  <1>6. KnownRows(st, log)
    BY <1>4, <1>5 DEF KnownRows
  <1> QED
    BY <1>6 DEF st

\* What is known of a log is known of a longer one.
LEMMA KnownStays ==
    ASSUME NEW log, IsLog(log), NEW event, NEW rows, KnownRows(rows, log)
    PROVE  KnownRows(rows, Append(log, event))
  <1>1. log \in Seq(ToSet(log) \cup {event}) /\ Len(log) \in Nat /\ DOMAIN log = 1..Len(log)
    BY DEF IsLog
  <1>2. /\ DOMAIN Append(log, event) = 1..(Len(log) + 1)
        /\ \A p \in 1..Len(log) : Append(log, event)[p] = log[p]
    BY <1>1
  <1> QED
    BY <1>1, <1>2 DEF KnownRows

LEMMA LogGrows ==
    ASSUME NEW log, IsLog(log), NEW event,
           event.kind = "correction" => event.target \in DOMAIN log
    PROVE  IsLog(Append(log, event))
  <1> DEFINE new == Append(log, event)
             A == ToSet(log) \cup {event}
  <1>1. log \in Seq(A) /\ Len(log) \in Nat /\ DOMAIN log = 1..Len(log) /\ event \in A
    BY DEF IsLog
  <1>2. /\ new \in Seq(A) /\ Len(new) = Len(log) + 1 /\ DOMAIN new = 1..(Len(log) + 1)
        /\ new[Len(log) + 1] = event /\ \A p \in 1..Len(log) : new[p] = log[p]
    BY <1>1
  <1> HIDE DEF new, A
  <1>3. new \in Seq(ToSet(new))
    BY <1>2 DEF ToSet
  <1>4. ASSUME NEW p \in DOMAIN new, new[p].kind = "correction" PROVE new[p].target \in 1..(p - 1)
    <2>1. CASE p \in 1..Len(log)
      BY <1>1, <1>2, <1>4, <2>1 DEF IsLog
    <2>2. CASE p \notin 1..Len(log)
      <3>1. p = Len(log) + 1
        BY <1>1, <1>2, <2>2
      <3> QED
        BY <1>1, <1>2, <1>4, <3>1
    <2> QED
      BY <2>1, <2>2
  <1>5. IsLog(new)
    BY <1>3, <1>4 DEF IsLog
  <1> QED
    BY <1>5 DEF new

-----------------------------------------------------------------------------
(* groupDiffs: every diff is in one group, and every group is one file's.        *)

LEMMA SeenOnceFacts ==
    ASSUME NEW diffs, NEW log, KnownRows(diffs, log)
    PROVE  /\ SeenOnce(diffs) \subseteq ToSet(diffs)
           /\ \A r \in SeenOnce(diffs) : r.position \in DOMAIN log
           /\ \A r, s \in SeenOnce(diffs) : r.id = s.id \/ r.position = s.position => r = s
           /\ \A d \in ToSet(diffs) : \E r \in SeenOnce(diffs) : r.id = d.id
  <1> DEFINE n == Len(diffs)
             rows == SeenOnce(diffs)
             first == {k \in DOMAIN diffs : \A j \in 1..(k - 1) : diffs[j].id # diffs[k].id}
  <1>1. n \in Nat /\ DOMAIN diffs = 1..n
    BY DEF KnownRows
  <1>2. rows = {diffs[i] : i \in first}
    BY DEF SeenOnce
  <1>3. ToSet(diffs) = {diffs[i] : i \in 1..n}
    BY <1>1 DEF ToSet
  <1>4. \A k \in first : k \in 1..n /\ \A j \in 1..(k - 1) : diffs[j].id # diffs[k].id
    BY <1>1
  <1>5. ASSUME NEW d \in ToSet(diffs) PROVE \E r \in rows : r.id = d.id
    <2> DEFINE same == {i \in 1..n : diffs[i].id = d.id}
    <2>1. same \in SUBSET Nat /\ same # {}
      BY <1>3
    <2>2. PICK k \in same : \A j \in same : k <= j
      <3> HIDE DEF same
      <3> QED
        BY <2>1, LeastNat
    <2>3. k \in first
      BY <1>1, <2>2
    <2> QED
      BY <1>2, <2>2, <2>3
  <1> HIDE DEF first, rows
  <1>6. ASSUME NEW r \in rows, NEW s \in rows, r.id = s.id PROVE r = s
    <2>1. PICK i, j \in first : r = diffs[i] /\ s = diffs[j]
      BY <1>2
    <2>2. ~(i < j) /\ ~(j < i) /\ i \in Int /\ j \in Int
      BY <1>1, <1>4, <1>6, <2>1
    <2> QED
      BY <2>1, <2>2
  <1>7. ASSUME NEW r \in rows PROVE r \in ToSet(diffs) /\ r.position \in DOMAIN log /\ log[r.position].id = r.id
    BY <1>1, <1>2, <1>3, <1>4 DEF KnownRows
  <1>8. ASSUME NEW r \in rows, NEW s \in rows, r.position = s.position PROVE r = s
    BY <1>6, <1>7, <1>8
  <1> QED
    BY <1>5, <1>6, <1>7, <1>8 DEF rows

LEMMA KeyFacts ==
    ASSUME NEW f, NEW g
    PROVE  KeyOf(f) = KeyOf(g) <=>
               \/ f.change = None /\ g.change = None /\ f.id = g.id
               \/ f.change # None /\ g.change # None /\ f.agent = g.agent /\ f.change = g.change
  <1>1. CASE f.change = None /\ g.change = None
    BY <1>1 DEF KeyOf
  <1>2. CASE f.change # None /\ g.change # None
    BY <1>2 DEF KeyOf
  <1>3. CASE f.change = None /\ g.change # None
    <2>1. KeyOf(f)[1] = "diff" /\ KeyOf(g)[1] = "change"
      BY <1>3 DEF KeyOf
    <2> QED
      BY <1>3, <2>1
  <1>4. CASE f.change # None /\ g.change = None
    <2>1. KeyOf(f)[1] = "change" /\ KeyOf(g)[1] = "diff"
      BY <1>4 DEF KeyOf
    <2> QED
      BY <1>4, <2>1
  <1> QED
    BY <1>1, <1>2, <1>3, <1>4

\* The files of a group are the diffs with its key, and its position is that of one.
IsGroup(group, rows, key) ==
    /\ group.files \in Seq(rows)
    /\ \A r : r \in ToSet(group.files) <=> r \in rows /\ KeyOf(r) = key
    /\ \E r \in rows : KeyOf(r) = key /\ r.position = group.position

LEMMA GroupFacts ==
    ASSUME IsLog(events), NEW rows, \A r \in rows : r.position \in DOMAIN events,
           \A r, s \in rows : r.position = s.position => r = s, NEW x \in rows
    PROVE  IsGroup(DiffGroup(rows, KeyOf(x)), rows, KeyOf(x))
  <1> DEFINE key == KeyOf(x)
             files == {r \in rows : KeyOf(r) = key}
             places == {r.position : r \in files}
             seq == NewestFirst(files)
             group == DiffGroup(rows, key)
  <1>1. Len(events) \in Nat /\ DOMAIN events = 1..Len(events)
    BY DEF IsLog
  <1>2. group.position = Max(places) /\ group.files = Reverse(seq)
    BY DEF DiffGroup
  <1>3. places \in SUBSET (1..Len(events)) /\ places # {}
    BY <1>1
  <1>4. Max(places) \in places
    <2> HIDE DEF places
    <2> QED
      BY <1>1, <1>3, MaxUpTo
  <1>5. \E r \in rows : KeyOf(r) = key /\ r.position = group.position
    BY <1>2, <1>4
  <1>6. IsNewestFirst(seq, files)
    <2>1. \A r \in files : r.position \in DOMAIN events
      OBVIOUS
    <2>2. \A r, s \in files : r.position = s.position => r = s
      OBVIOUS
    <2> HIDE DEF files
    <2> QED
      BY <2>1, <2>2, NewestFirstFacts
  <1> HIDE DEF seq, group
  <1>7. seq \in Seq(files) /\ Len(seq) \in Nat /\ DOMAIN seq = 1..Len(seq)
    BY <1>6 DEF IsNewestFirst
  <1>8. ASSUME NEW r PROVE r \in ToSet(group.files) <=> r \in files
    <2>1. r \in ToSet(group.files) <=> \E i \in 1..Len(seq) : seq[(Len(seq) - i) + 1] = r
      BY <1>2, <1>7 DEF Reverse, ToSet
    <2>2. ASSUME NEW i \in 1..Len(seq) PROVE (Len(seq) - i) + 1 \in 1..Len(seq) /\ (Len(seq) - ((Len(seq) - i) + 1)) + 1 = i
      BY <1>7
    <2>3. r \in ToSet(group.files) <=> \E i \in 1..Len(seq) : seq[i] = r
      BY <2>1, <2>2
    <2> QED
      BY <1>6, <1>7, <2>3 DEF IsNewestFirst
  <1>9. group.files \in Seq(rows)
    <2>1. \A i \in 1..Len(seq) : seq[(Len(seq) - i) + 1] \in rows
      BY <1>7
    <2> QED
      BY <1>2, <1>7, <2>1 DEF Reverse
  <1>10. IsGroup(group, rows, key)
    BY <1>5, <1>8, <1>9 DEF IsGroup
  <1> QED
    BY <1>10 DEF group

\* Two groups are not at one place.
LEMMA GroupsAreNewestFirst ==
    ASSUME IsLog(events), NEW diffs, KnownRows(diffs, events)
    PROVE  IsNewestFirst(DiffGroups(diffs), {DiffGroup(SeenOnce(diffs), KeyOf(r)) : r \in SeenOnce(diffs)})
  <1> DEFINE rows == SeenOnce(diffs)
             made == {DiffGroup(rows, KeyOf(r)) : r \in rows}
             groups == DiffGroups(diffs)
  <1>1. /\ \A r \in rows : r.position \in DOMAIN events
        /\ \A r, s \in rows : r.id = s.id \/ r.position = s.position => r = s
    BY SeenOnceFacts
  <1>2. groups = NewestFirst(made)
    BY DEF DiffGroups
  <1> HIDE DEF rows, groups
  <1>3. \A x \in rows : IsGroup(DiffGroup(rows, KeyOf(x)), rows, KeyOf(x))
    BY <1>1, GroupFacts
  <1>4. ASSUME NEW x \in rows, NEW y \in rows,
               DiffGroup(rows, KeyOf(x)).position = DiffGroup(rows, KeyOf(y)).position
        PROVE  KeyOf(x) = KeyOf(y)
    <2>1. PICK r \in rows : KeyOf(r) = KeyOf(x) /\ r.position = DiffGroup(rows, KeyOf(x)).position
      BY <1>3 DEF IsGroup
    <2>2. PICK s \in rows : KeyOf(s) = KeyOf(y) /\ s.position = DiffGroup(rows, KeyOf(y)).position
      BY <1>3 DEF IsGroup
    <2>3. r = s
      BY <1>1, <1>4, <2>1, <2>2
    <2> QED
      BY <2>1, <2>2, <2>3
  <1>5. IsNewestFirst(groups, made)
    <2>1. \A g \in made : g.position \in DOMAIN events
      BY <1>1, <1>3 DEF IsGroup
    <2>2. \A g, h \in made : g.position = h.position => g = h
      BY <1>4
    <2> HIDE DEF made
    <2> QED
      BY <1>2, <2>1, <2>2, NewestFirstFacts
  <1> QED
    BY <1>5 DEF rows, groups

LEMMA GroupsFacts ==
    ASSUME IsLog(events), NEW diffs, KnownRows(diffs, events)
    PROVE  /\ GroupsAreWhole(DiffGroups(diffs), diffs)
           /\ \E A : DiffGroups(diffs) \in Seq(A)
           /\ \A i \in DOMAIN DiffGroups(diffs) : \E A : DiffGroups(diffs)[i].files \in Seq(A)
  <1> DEFINE rows == SeenOnce(diffs)
             made == {DiffGroup(rows, KeyOf(r)) : r \in rows}
             groups == DiffGroups(diffs)
  <1>1. /\ rows \subseteq ToSet(diffs)
        /\ \A r \in rows : r.position \in DOMAIN events
        /\ \A r, s \in rows : r.id = s.id \/ r.position = s.position => r = s
        /\ \A d \in ToSet(diffs) : \E r \in rows : r.id = d.id
    BY SeenOnceFacts
  <1>2. groups = NewestFirst(made)
    BY DEF DiffGroups
  <1> HIDE DEF rows, groups
  <1>3. \A x \in rows : IsGroup(DiffGroup(rows, KeyOf(x)), rows, KeyOf(x))
    BY <1>1, GroupFacts
  <1>5. IsNewestFirst(groups, made)
    BY GroupsAreNewestFirst DEF rows, groups
  <1>6. groups \in Seq(made) /\ DOMAIN groups = 1..Len(groups) /\ Len(groups) \in Nat
    BY <1>5 DEF IsNewestFirst
  <1>7. ASSUME NEW i \in DOMAIN groups
        PROVE  \E x \in rows : groups[i] = DiffGroup(rows, KeyOf(x)) /\ IsGroup(groups[i], rows, KeyOf(x))
    <2>1. groups[i] \in made
      BY <1>6
    <2> QED
      BY <1>3, <2>1
  <1>8. ASSUME NEW i \in DOMAIN groups, NEW j \in DOMAIN groups,
               NEW f \in ToSet(groups[i].files), NEW g \in ToSet(groups[j].files), KeyOf(f) = KeyOf(g)
        PROVE  i = j
    <2>1. PICK x \in rows : groups[i] = DiffGroup(rows, KeyOf(x)) /\ IsGroup(groups[i], rows, KeyOf(x))
      BY <1>7
    <2>2. PICK y \in rows : groups[j] = DiffGroup(rows, KeyOf(y)) /\ IsGroup(groups[j], rows, KeyOf(y))
      BY <1>7
    <2>3. KeyOf(f) = KeyOf(x) /\ KeyOf(g) = KeyOf(y)
      BY <2>1, <2>2 DEF IsGroup
    <2>4. groups[i] = groups[j] /\ groups[i].position \in Int
      <3>1. groups[i] = groups[j]
        BY <1>8, <2>1, <2>2, <2>3
      <3>2. groups[i].position \in DOMAIN events
        BY <1>1, <2>1 DEF IsGroup
      <3> QED
        BY <3>1, <3>2 DEF IsLog
    <2>5. ~(i < j) /\ ~(j < i)
      BY <1>5, <2>4 DEF IsNewestFirst
    <2> QED
      BY <1>6, <2>5
  <1>9. ASSUME NEW i \in DOMAIN groups, NEW f \in ToSet(groups[i].files) PROVE f \in rows
    BY <1>7 DEF IsGroup
  <1>10. ASSUME NEW d \in ToSet(diffs)
         PROVE  Cardinality({i \in DOMAIN groups : \E f \in ToSet(groups[i].files) : f.id = d.id}) = 1
    <2>1. PICK r \in rows : r.id = d.id
      BY <1>1
    <2>2. PICK i \in DOMAIN groups : groups[i] = DiffGroup(rows, KeyOf(r))
      BY <1>5 DEF IsNewestFirst
    <2>3. r \in ToSet(groups[i].files)
      BY <1>3, <2>2 DEF IsGroup
    <2>4. ASSUME NEW j \in DOMAIN groups, NEW f \in ToSet(groups[j].files), f.id = d.id PROVE j = i
      <3>1. f = r
        BY <1>1, <1>9, <2>1, <2>4
      <3> QED
        BY <1>8, <2>3, <3>1
    <2>5. {j \in DOMAIN groups : \E f \in ToSet(groups[j].files) : f.id = d.id} = {i}
      BY <2>1, <2>3, <2>4
    <2> QED
      BY <2>5, FS_Singleton
  <1>11. ASSUME NEW i \in DOMAIN groups, NEW f \in ToSet(groups[i].files), NEW g \in ToSet(groups[i].files), f # g
         PROVE  f.change # None /\ f.change = g.change /\ f.agent = g.agent
    <2>1. KeyOf(f) = KeyOf(g) /\ f \in rows /\ g \in rows
      BY <1>7 DEF IsGroup
    <2>2. f.id # g.id
      BY <1>1, <1>11, <2>1
    <2> QED
      BY <2>1, <2>2, KeyFacts
  <1>12. ASSUME NEW i \in DOMAIN groups, NEW j \in DOMAIN groups, i < j
         PROVE  /\ groups[i].position > groups[j].position
                /\ \A f \in ToSet(groups[i].files), g \in ToSet(groups[j].files) :
                       f.change = None \/ f.change # g.change \/ f.agent # g.agent
    <2>1. groups[i].position > groups[j].position
      BY <1>5, <1>12 DEF IsNewestFirst
    <2>2. ASSUME NEW f \in ToSet(groups[i].files), NEW g \in ToSet(groups[j].files),
                 f.change # None, f.change = g.change, f.agent = g.agent
          PROVE  FALSE
      <3>1. KeyOf(f) = KeyOf(g)
        BY <2>2, KeyFacts
      <3>2. i = j
        BY <1>8, <3>1
      <3> QED
        BY <1>6, <1>12, <3>2
    <2> QED
      BY <2>1, <2>2
  <1>13. GroupsAreWhole(groups, diffs)
    BY <1>10, <1>11, <1>12 DEF GroupsAreWhole
  <1>14. \A i \in DOMAIN groups : groups[i].files \in Seq(rows)
    BY <1>7 DEF IsGroup
  <1> QED
    BY <1>6, <1>13, <1>14 DEF groups

-----------------------------------------------------------------------------
(* The groups follow from the order of the diffs and from whose work each is: not    *)
(* from the places at which they were reported.                                      *)

Falls(rows) == \A i, j \in DOMAIN rows : i < j => rows[i].position > rows[j].position

LEMMA RowsOfFall == ASSUME IsLog(events), NEW kind PROVE Falls(RowsOf(kind))
  <1> DEFINE named == {events[p].id : p \in {q \in DOMAIN events : Restates(events[q], kind) /\ events[q].names}}
             rows == {ReportedRow(kind, id) : id \in named}
  <1>1. Len(events) \in Nat /\ DOMAIN events = 1..Len(events)
    BY DEF IsLog
  <1>2. ASSUME NEW id \in named
        PROVE  /\ ReportedRow(kind, id).position \in DOMAIN events
               /\ events[ReportedRow(kind, id).position].id = id
    <2>1. PositionsOf(kind, id) \in SUBSET (1..Len(events)) /\ PositionsOf(kind, id) # {}
      BY <1>1 DEF PositionsOf
    <2>2. Max(PositionsOf(kind, id)) \in PositionsOf(kind, id)
      BY <1>1, <2>1, MaxUpTo
    <2>3. ReportedRow(kind, id).position = Max(PositionsOf(kind, id))
      BY DEF ReportedRow
    <2> QED
      BY <2>2, <2>3 DEF PositionsOf
  <1>3. \A r \in rows : r.position \in DOMAIN events
    BY <1>2
  <1>4. \A r, s \in rows : r.position = s.position => r = s
    BY <1>2
  <1>5. RowsOf(kind) = NewestFirst(rows)
    BY DEF RowsOf
  <1> HIDE DEF rows
  <1> QED
    BY <1>3, <1>4, <1>5, NewestFirstFacts DEF IsNewestFirst, Falls

LEMMA FirstFall ==
    ASSUME NEW rows, NEW log, KnownRows(rows, log), Falls(rows), NEW n \in Nat
    PROVE  Falls(FirstOf(rows, n))
  <1>1. rows \in Seq(ToSet(rows)) /\ Len(rows) \in Nat /\ DOMAIN rows = 1..Len(rows)
    BY DEF KnownRows
  <1> DEFINE first == FirstOf(rows, n)
  <1>2. /\ first \in Seq(ToSet(rows)) /\ Len(first) <= Len(rows)
        /\ \A i \in 1..Len(first) : first[i] = rows[i]
    BY <1>1, FirstOfFacts
  <1> HIDE DEF first
  <1>3. \A i \in DOMAIN first : i \in DOMAIN rows /\ first[i] = rows[i]
    BY <1>1, <1>2
  <1>4. Falls(first)
    BY <1>3 DEF Falls
  <1> QED
    BY <1>4 DEF first

LEMMA AfterFall ==
    ASSUME NEW log, Len(log) \in Nat, DOMAIN log = 1..Len(log),
           NEW s, NEW t, KnownRows(s, log), KnownRows(t, log), Falls(s), Falls(t),
           \A i \in DOMAIN t : t[i].position < s[Len(s)].position
    PROVE  Falls(s \o t)
  <1> DEFINE A == ToSet(s) \cup ToSet(t)
             st == s \o t
  <1>1. s \in Seq(A) /\ t \in Seq(A)
    BY DEF KnownRows
  <1>2. /\ st \in Seq(A) /\ Len(st) = Len(s) + Len(t)
        /\ \A i \in 1..Len(st) : st[i] = IF i <= Len(s) THEN s[i] ELSE t[i - Len(s)]
    BY <1>1
  <1>3. Len(s) \in Nat /\ Len(t) \in Nat /\ DOMAIN s = 1..Len(s) /\ DOMAIN t = 1..Len(t) /\ DOMAIN st = 1..Len(st)
    BY <1>1, <1>2
  <1> HIDE DEF st, A
  <1>4. /\ \A i \in DOMAIN s : s[i].position \in Int
        /\ \A i \in DOMAIN t : t[i].position \in Int
    BY DEF KnownRows
  <1>5. \A i \in DOMAIN s : s[i].position >= s[Len(s)].position
    BY <1>3, <1>4 DEF Falls
  <1>6. ASSUME NEW i \in DOMAIN st, NEW j \in DOMAIN st, i < j PROVE st[i].position > st[j].position
    <2>1. CASE j <= Len(s)
      <3>1. i \in DOMAIN s /\ j \in DOMAIN s /\ st[i] = s[i] /\ st[j] = s[j]
        BY <1>2, <1>3, <1>6, <2>1
      <3> QED
        BY <1>6, <3>1 DEF Falls
    <2>2. CASE i <= Len(s) /\ ~(j <= Len(s))
      <3>1. i \in DOMAIN s /\ j - Len(s) \in DOMAIN t /\ st[i] = s[i] /\ st[j] = t[j - Len(s)]
        BY <1>2, <1>3, <1>6, <2>2
      <3>2. Len(s) \in DOMAIN s
        BY <1>3, <3>1
      <3>3. t[j - Len(s)].position < s[Len(s)].position /\ s[i].position >= s[Len(s)].position
        BY <1>5, <3>1
      <3> QED
        BY <1>4, <3>1, <3>2, <3>3
    <2>3. CASE ~(i <= Len(s))
      <3>1. /\ i - Len(s) \in DOMAIN t /\ j - Len(s) \in DOMAIN t /\ i - Len(s) < j - Len(s)
            /\ st[i] = t[i - Len(s)] /\ st[j] = t[j - Len(s)]
        BY <1>2, <1>3, <1>6, <2>3
      <3> QED
        BY <3>1 DEF Falls
    <2> QED
      BY <1>3, <1>6, <2>1, <2>2, <2>3
  <1>7. Falls(st)
    BY <1>6 DEF Falls
  <1> QED
    BY <1>7 DEF st

\* The members of a set of numbers in their order, each once.
InOrder(seq, M) ==
    /\ seq \in Seq(M) /\ \A m \in M : \E i \in DOMAIN seq : seq[i] = m
    /\ \A i, j \in DOMAIN seq : i < j => seq[i] < seq[j]

\* There is one such list.
LEMMA OneOrder ==
    ASSUME NEW M \in SUBSET Nat, NEW s, NEW t, InOrder(s, M), InOrder(t, M)
    PROVE  s = t
  <1>1. /\ Len(s) \in Nat /\ DOMAIN s = 1..Len(s) /\ \A i \in DOMAIN s : s[i] \in M
        /\ Len(t) \in Nat /\ DOMAIN t = 1..Len(t) /\ \A i \in DOMAIN t : t[i] \in M
    BY DEF InOrder
  <1> DEFINE Apart == {i \in Nat : (i \in DOMAIN s \/ i \in DOMAIN t) /\ ~(i \in DOMAIN s /\ i \in DOMAIN t /\ s[i] = t[i])}
  <1>2. ASSUME Apart # {} PROVE FALSE
    <2>1. PICK i \in Apart : \A j \in Apart : i <= j
      <3>1. Apart \in SUBSET Nat
        OBVIOUS
      <3> HIDE DEF Apart
      <3> QED
        BY <1>2, <3>1, LeastNat
    <2>2. \A j \in Nat : j < i /\ j > 0 /\ (j \in DOMAIN s \/ j \in DOMAIN t) =>
              j \in DOMAIN s /\ j \in DOMAIN t /\ s[j] = t[j]
      BY <2>1
    <2>3. ASSUME NEW u, NEW v, (u = s /\ v = t) \/ (u = t /\ v = s), i \in DOMAIN u
          PROVE  i \in DOMAIN v /\ v[i] <= u[i]
      <3>1. /\ Len(u) \in Nat /\ DOMAIN u = 1..Len(u) /\ \A k \in DOMAIN u : u[k] \in Nat
            /\ Len(v) \in Nat /\ DOMAIN v = 1..Len(v) /\ \A k \in DOMAIN v : v[k] \in Nat
        BY <1>1, <2>3
      <3>2. \A k, l \in DOMAIN v : k < l => v[k] < v[l]
        BY <2>3 DEF InOrder
      <3>3. \A k, l \in DOMAIN u : k < l => u[k] < u[l]
        BY <2>3 DEF InOrder
      <3>4. PICK k \in DOMAIN v : v[k] = u[i]
        BY <1>1, <2>3 DEF InOrder
      <3>5. ~(k < i)
        <4> SUFFICES ASSUME k < i PROVE FALSE
          OBVIOUS
        <4>1. k \in DOMAIN u /\ u[k] = v[k]
          BY <2>2, <2>3, <3>1, <3>4
        <4>2. u[k] < u[i]
          BY <2>3, <3>3, <4>1
        <4> QED
          BY <2>3, <3>1, <3>4, <4>1, <4>2
      <3>6. i \in DOMAIN v /\ (i < k \/ i = k)
        BY <2>3, <3>1, <3>4, <3>5
      <3> QED
        BY <3>1, <3>2, <3>4, <3>6
    <2>4. CASE i \in DOMAIN s
      <3>1. i \in DOMAIN t /\ t[i] <= s[i]
        <4>1. (s = s /\ t = t) \/ (s = t /\ t = s)
          OBVIOUS
        <4> QED
          BY <2>3, <2>4, <4>1
      <3>2. i \in DOMAIN s /\ s[i] <= t[i]
        BY <2>3, <3>1
      <3>3. s[i] \in Nat /\ t[i] \in Nat
        BY <1>1, <2>4, <3>1
      <3> QED
        BY <2>1, <2>4, <3>1, <3>2, <3>3
    <2>5. CASE i \notin DOMAIN s
      <3>1. i \in DOMAIN t
        BY <2>1, <2>5
      <3> QED
        BY <2>3, <2>5, <3>1
    <2> QED
      BY <2>4, <2>5
  <1>3. \A i \in 1..Len(s) : i \in DOMAIN t /\ s[i] = t[i]
    BY <1>1, <1>2
  <1>4. \A i \in 1..Len(t) : i \in DOMAIN s
    BY <1>1, <1>2
  <1>5. DOMAIN s = DOMAIN t
    BY <1>1, <1>3, <1>4
  <1> QED
    BY <1>3, <1>5 DEF InOrder

\* Rows in the order of their positions are in that of their places in the list.
LEMMA OrderOfPlaces ==
    ASSUME NEW log, Len(log) \in Nat, DOMAIN log = 1..Len(log), NEW diffs, KnownRows(diffs, log), Falls(diffs),
           NEW M \in SUBSET DOMAIN diffs, NEW seq, IsNewestFirst(seq, {diffs[m] : m \in M})
    PROVE  \E idx : /\ InOrder(idx, M) /\ Len(idx) = Len(seq) /\ DOMAIN idx = DOMAIN seq
                    /\ \A i \in DOMAIN seq : diffs[idx[i]] = seq[i]
  <1> DEFINE some == {diffs[m] : m \in M}
             idx == [i \in 1..Len(seq) |-> CHOOSE m \in M : diffs[m] = seq[i]]
  <1>1. Len(diffs) \in Nat /\ DOMAIN diffs = 1..Len(diffs) /\ \A m \in DOMAIN diffs : diffs[m].position \in Int
    BY DEF KnownRows
  <1>2. /\ seq \in Seq(some) /\ \A r \in some : \E i \in DOMAIN seq : seq[i] = r
        /\ \A i, j \in DOMAIN seq : i < j => seq[i].position > seq[j].position
    BY DEF IsNewestFirst
  <1>3. Len(seq) \in Nat /\ DOMAIN seq = 1..Len(seq) /\ \A i \in 1..Len(seq) : seq[i] \in some
    BY <1>2
  <1>4. \A i \in 1..Len(seq) : \E m \in M : diffs[m] = seq[i]
    BY <1>3
  <1>5. DOMAIN idx = 1..Len(seq) /\ \A i \in 1..Len(seq) : idx[i] \in M /\ diffs[idx[i]] = seq[i]
    BY <1>4
  <1>6. idx \in Seq(M) /\ Len(idx) = Len(seq)
    BY <1>3, <1>5
  <1> HIDE DEF idx
  <1>7. ASSUME NEW m \in M PROVE \E i \in DOMAIN idx : idx[i] = m
    <2>1. PICK i \in DOMAIN seq : seq[i] = diffs[m]
      BY <1>2
    <2>2. diffs[idx[i]] = diffs[m] /\ idx[i] \in DOMAIN diffs /\ m \in DOMAIN diffs
      BY <1>3, <1>5, <2>1
    <2>3. ~(idx[i] < m) /\ ~(m < idx[i])
      BY <1>1, <2>2 DEF Falls
    <2>4. idx[i] = m
      BY <1>1, <2>2, <2>3
    <2> QED
      BY <1>3, <1>5, <2>4
  <1>8. ASSUME NEW i \in DOMAIN idx, NEW j \in DOMAIN idx, i < j PROVE idx[i] < idx[j]
    <2>1. diffs[idx[i]].position > diffs[idx[j]].position
      BY <1>2, <1>3, <1>5, <1>8
    <2>2. idx[i] \in DOMAIN diffs /\ idx[j] \in DOMAIN diffs
      BY <1>5
    <2>3. ~(idx[j] < idx[i]) /\ idx[i] # idx[j]
      BY <1>1, <2>1, <2>2 DEF Falls
    <2> QED
      BY <1>1, <2>2, <2>3
  <1>9. InOrder(idx, M)
    BY <1>6, <1>7, <1>8 DEF InOrder
  <1> QED
    BY <1>3, <1>5, <1>6, <1>9

\* Where an id is listed for the first time, and where a group is.
FirstSeen(diffs) == {n \in DOMAIN diffs : \A j \in 1..(n - 1) : diffs[j].id # diffs[n].id}
WithKey(diffs, key) == {n \in FirstSeen(diffs) : KeyOf(diffs[n]) = key}
Leads(diffs) == {m \in FirstSeen(diffs) : \A n \in WithKey(diffs, KeyOf(diffs[m])) : m <= n}

LEMMA PlacesOfRows ==
    ASSUME IsLog(events), NEW diffs, KnownRows(diffs, events), Falls(diffs)
    PROVE  /\ Len(diffs) \in Nat /\ DOMAIN diffs = 1..Len(diffs) /\ Len(events) \in Nat /\ DOMAIN events = 1..Len(events)
           /\ \A n \in DOMAIN diffs : diffs[n].position \in DOMAIN events
           /\ SeenOnce(diffs) = {diffs[n] : n \in FirstSeen(diffs)}
           /\ \A key : {r \in SeenOnce(diffs) : KeyOf(r) = key} = {diffs[n] : n \in WithKey(diffs, key)}
           /\ \A m, n \in DOMAIN diffs : diffs[m].position > diffs[n].position => m < n
           /\ \A m, n \in DOMAIN diffs : diffs[m].position = diffs[n].position => m = n
  <1>1. Len(diffs) \in Nat /\ DOMAIN diffs = 1..Len(diffs) /\ Len(events) \in Nat /\ DOMAIN events = 1..Len(events)
    BY DEF KnownRows, IsLog
  <1>2. \A n \in DOMAIN diffs : diffs[n].position \in DOMAIN events
    BY DEF KnownRows
  <1>3. SeenOnce(diffs) = {diffs[n] : n \in FirstSeen(diffs)}
    BY DEF SeenOnce, FirstSeen
  <1>4. ASSUME NEW key PROVE {r \in SeenOnce(diffs) : KeyOf(r) = key} = {diffs[n] : n \in WithKey(diffs, key)}
    <2>1. WithKey(diffs, key) = {n \in FirstSeen(diffs) : KeyOf(diffs[n]) = key}
      BY DEF WithKey
    <2> QED
      BY <1>3, <2>1
  <1>5. ASSUME NEW m \in DOMAIN diffs, NEW n \in DOMAIN diffs
        PROVE  /\ diffs[m].position > diffs[n].position => m < n
               /\ diffs[m].position = diffs[n].position => m = n
    <2>1. diffs[m].position \in Int /\ diffs[n].position \in Int /\ m \in Int /\ n \in Int
      BY <1>1, <1>2
    <2>2. /\ m < n => diffs[m].position > diffs[n].position
          /\ n < m => diffs[n].position > diffs[m].position
      BY DEF Falls
    <2> QED
      BY <2>1, <2>2
  <1> QED
    BY <1>1, <1>2, <1>3, <1>4, <1>5

\* A group is where the first diff of its work is.
LEMMA LeadOfGroup ==
    ASSUME IsLog(events), NEW diffs, KnownRows(diffs, events), Falls(diffs), NEW key, WithKey(diffs, key) # {}
    PROVE  \E m \in Leads(diffs) : /\ KeyOf(diffs[m]) = key
                                   /\ DiffGroup(SeenOnce(diffs), key).position = diffs[m].position
  <1> DEFINE places == {r.position : r \in {s \in SeenOnce(diffs) : KeyOf(s) = key}}
  <1>1. /\ Len(diffs) \in Nat /\ DOMAIN diffs = 1..Len(diffs) /\ Len(events) \in Nat /\ DOMAIN events = 1..Len(events)
        /\ \A n \in DOMAIN diffs : diffs[n].position \in DOMAIN events
        /\ {r \in SeenOnce(diffs) : KeyOf(r) = key} = {diffs[n] : n \in WithKey(diffs, key)}
        /\ \A m, n \in DOMAIN diffs : diffs[m].position > diffs[n].position => m < n
        /\ \A m, n \in DOMAIN diffs : diffs[m].position = diffs[n].position => m = n
    BY PlacesOfRows
  <1>2. WithKey(diffs, key) \subseteq DOMAIN diffs /\ WithKey(diffs, key) \subseteq FirstSeen(diffs)
        /\ \A n \in WithKey(diffs, key) : KeyOf(diffs[n]) = key
    BY DEF WithKey, FirstSeen
  <1>3. places = {diffs[n].position : n \in WithKey(diffs, key)}
    BY <1>1
  <1>4. places \in SUBSET (1..Len(events)) /\ places # {}
    BY <1>1, <1>2, <1>3
  <1>5. DiffGroup(SeenOnce(diffs), key).position = Max(places)
    BY DEF DiffGroup
  <1> HIDE DEF places
  <1>6. Max(places) \in places /\ \A k \in places : k <= Max(places)
    BY <1>1, <1>4, MaxUpTo
  <1>7. PICK m \in WithKey(diffs, key) : Max(places) = diffs[m].position
    BY <1>3, <1>6
  <1>8. ASSUME NEW n \in WithKey(diffs, key) PROVE m <= n
    <2>1. diffs[n].position <= diffs[m].position /\ m \in DOMAIN diffs /\ n \in DOMAIN diffs
      BY <1>2, <1>3, <1>6, <1>7
    <2>2. diffs[n].position \in Int /\ diffs[m].position \in Int /\ m \in Int /\ n \in Int
      BY <1>1, <2>1
    <2>3. diffs[m].position > diffs[n].position \/ diffs[m].position = diffs[n].position
      BY <2>1, <2>2
    <2>4. m < n \/ m = n
      BY <1>1, <2>1, <2>3
    <2> QED
      BY <2>2, <2>4
  <1>9. m \in Leads(diffs)
    BY <1>2, <1>7, <1>8 DEF Leads
  <1> QED
    BY <1>2, <1>5, <1>7, <1>9

\* So the groups are in the order of their first diffs.
LEMMA GroupsInOrder ==
    ASSUME IsLog(events), NEW diffs, KnownRows(diffs, events), Falls(diffs)
    PROVE  \E idx : /\ InOrder(idx, Leads(diffs)) /\ DOMAIN idx = DOMAIN DiffGroups(diffs)
                    /\ \A i \in DOMAIN idx :
                           DiffGroups(diffs)[i] = DiffGroup(SeenOnce(diffs), KeyOf(diffs[idx[i]]))
  <1> DEFINE rows == SeenOnce(diffs)
             made == {DiffGroup(rows, KeyOf(r)) : r \in rows}
             groups == DiffGroups(diffs)
             lead(i) == CHOOSE m \in Leads(diffs) : /\ groups[i] = DiffGroup(rows, KeyOf(diffs[m]))
                                                    /\ groups[i].position = diffs[m].position
             idx == [i \in DOMAIN groups |-> lead(i)]
  <1>1. /\ Len(diffs) \in Nat /\ DOMAIN diffs = 1..Len(diffs) /\ Len(events) \in Nat /\ DOMAIN events = 1..Len(events)
        /\ \A n \in DOMAIN diffs : diffs[n].position \in DOMAIN events
        /\ rows = {diffs[n] : n \in FirstSeen(diffs)}
        /\ \A m, n \in DOMAIN diffs : diffs[m].position > diffs[n].position => m < n
    BY PlacesOfRows
  <1>2. IsNewestFirst(groups, made)
    BY GroupsAreNewestFirst
  <1> HIDE DEF rows, groups
  <1>3. /\ groups \in Seq(made) /\ Len(groups) \in Nat /\ DOMAIN groups = 1..Len(groups)
        /\ \A g \in made : \E i \in DOMAIN groups : groups[i] = g
        /\ \A i, j \in DOMAIN groups : i < j => groups[i].position > groups[j].position
    BY <1>2 DEF IsNewestFirst
  <1>4. ASSUME NEW n \in FirstSeen(diffs)
        PROVE  \E m \in Leads(diffs) : /\ KeyOf(diffs[m]) = KeyOf(diffs[n])
                                       /\ DiffGroup(rows, KeyOf(diffs[n])).position = diffs[m].position
    <2>1. WithKey(diffs, KeyOf(diffs[n])) # {}
      BY DEF WithKey
    <2> QED
      BY <2>1, LeadOfGroup DEF rows
  <1>5. ASSUME NEW i \in DOMAIN groups
        PROVE  \E m \in Leads(diffs) : /\ groups[i] = DiffGroup(rows, KeyOf(diffs[m]))
                                       /\ groups[i].position = diffs[m].position
    <2>1. groups[i] \in made
      BY <1>3
    <2>2. PICK r \in rows : groups[i] = DiffGroup(rows, KeyOf(r))
      BY <2>1
    <2>3. PICK n \in FirstSeen(diffs) : r = diffs[n]
      BY <1>1
    <2> QED
      BY <1>4, <2>2, <2>3
  <1>6. \A i \in DOMAIN groups : /\ idx[i] \in Leads(diffs)
                                 /\ groups[i] = DiffGroup(rows, KeyOf(diffs[idx[i]]))
                                 /\ groups[i].position = diffs[idx[i]].position
    BY <1>5
  <1>7. DOMAIN idx = DOMAIN groups /\ idx = [i \in DOMAIN groups |-> idx[i]]
    OBVIOUS
  <1> HIDE DEF idx
  <1>8. idx \in Seq(Leads(diffs))
    BY <1>3, <1>6, <1>7
  <1>9. \A m \in Leads(diffs) : m \in FirstSeen(diffs) /\ m \in DOMAIN diffs
    BY DEF Leads, FirstSeen
  <1>10. ASSUME NEW i \in DOMAIN idx, NEW j \in DOMAIN idx, i < j PROVE idx[i] < idx[j]
    <2>1. groups[i].position = diffs[idx[i]].position /\ groups[j].position = diffs[idx[j]].position
      BY <1>6, <1>7
    <2>2. diffs[idx[i]].position > diffs[idx[j]].position
      BY <1>3, <1>7, <1>10, <2>1
    <2>3. idx[i] \in DOMAIN diffs /\ idx[j] \in DOMAIN diffs
      BY <1>6, <1>7, <1>9
    <2> QED
      BY <1>1, <2>2, <2>3
  <1>11. ASSUME NEW m \in Leads(diffs) PROVE \E i \in DOMAIN idx : idx[i] = m
    <2>1. DiffGroup(rows, KeyOf(diffs[m])) \in made
      BY <1>1, <1>9
    <2>2. PICK i \in DOMAIN groups : groups[i] = DiffGroup(rows, KeyOf(diffs[m]))
      BY <1>3, <2>1
    <2>3. KeyOf(diffs[idx[i]]) = KeyOf(diffs[m])
      <3>1. \A key : DiffGroup(rows, key).key = key
        BY DEF DiffGroup
      <3>2. DiffGroup(rows, KeyOf(diffs[m])) = DiffGroup(rows, KeyOf(diffs[idx[i]]))
        BY <1>6, <2>2
      <3> QED
        BY <3>1, <3>2
    <2>4. idx[i] <= m /\ m <= idx[i]
      <3>1. /\ m \in WithKey(diffs, KeyOf(diffs[m])) /\ idx[i] \in Leads(diffs)
            /\ idx[i] \in WithKey(diffs, KeyOf(diffs[m]))
        BY <1>6, <1>9, <2>3 DEF WithKey
      <3> QED
        BY <2>3, <3>1 DEF Leads
    <2>5. idx[i] \in Int /\ m \in Int
      <3>1. idx[i] \in DOMAIN diffs /\ m \in DOMAIN diffs
        BY <1>6, <1>9
      <3> QED
        BY <1>1, <3>1
    <2> QED
      BY <1>7, <2>4, <2>5
  <1>12. InOrder(idx, Leads(diffs))
    BY <1>8, <1>10, <1>11 DEF InOrder
  <1> QED
    BY <1>6, <1>7, <1>12 DEF rows, groups

\* A group has as many files as the diffs of its work.
LEMMA FilesInOrder ==
    ASSUME IsLog(events), NEW diffs, KnownRows(diffs, events), Falls(diffs), NEW key
    PROVE  \E idx : InOrder(idx, WithKey(diffs, key)) /\ Len(idx) = Len(DiffGroup(SeenOnce(diffs), key).files)
  <1> DEFINE files == {r \in SeenOnce(diffs) : KeyOf(r) = key}
             some == {diffs[n] : n \in WithKey(diffs, key)}
             seq == NewestFirst(files)
  <1>1. /\ Len(events) \in Nat /\ DOMAIN events = 1..Len(events)
        /\ \A n \in DOMAIN diffs : diffs[n].position \in DOMAIN events
        /\ \A m, n \in DOMAIN diffs : diffs[m].position = diffs[n].position => m = n
    BY PlacesOfRows
  <1>0. files = some
    BY PlacesOfRows
  <1>2. WithKey(diffs, key) \in SUBSET DOMAIN diffs
    BY DEF WithKey, FirstSeen
  <1>3. DiffGroup(SeenOnce(diffs), key).files = Reverse(seq)
    BY DEF DiffGroup
  <1> HIDE DEF files
  <1>4. \A r \in files : r.position \in DOMAIN events
    BY <1>0, <1>1, <1>2
  <1>5. \A r, s \in files : r.position = s.position => r = s
    BY <1>0, <1>1, <1>2
  <1>6. IsNewestFirst(seq, files)
    BY <1>4, <1>5, NewestFirstFacts
  <1> HIDE DEF seq
  <1>7. IsNewestFirst(seq, some)
    BY <1>0, <1>6
  <1>8. PICK idx : InOrder(idx, WithKey(diffs, key)) /\ Len(idx) = Len(seq)
    <2> DEFINE M == WithKey(diffs, key)
    <2> HIDE DEF M
    <2>1. M \in SUBSET DOMAIN diffs /\ IsNewestFirst(seq, {diffs[m] : m \in M})
      BY <1>2, <1>7 DEF M
    <2>2. \E idx : /\ InOrder(idx, M) /\ Len(idx) = Len(seq) /\ DOMAIN idx = DOMAIN seq
                   /\ \A i \in DOMAIN seq : diffs[idx[i]] = seq[i]
      BY <1>1, <2>1, OrderOfPlaces
    <2> QED
      BY <2>2 DEF M
  <1>9. Len(Reverse(seq)) = Len(seq)
    <2>1. seq \in Seq(files)
      BY <1>6 DEF IsNewestFirst
    <2>2. \A i \in 1..Len(seq) : seq[(Len(seq) - i) + 1] \in files
      BY <2>1
    <2>3. Reverse(seq) \in Seq(files) /\ DOMAIN Reverse(seq) = 1..Len(seq)
      BY <2>1, <2>2 DEF Reverse
    <2> QED
      BY <2>1, <2>3
  <1> QED
    BY <1>3, <1>8, <1>9

\* The same diffs, each the same work as before, are shown as the same groups.
LEMMA SameGroups ==
    ASSUME IsLog(events), NEW d, KnownRows(d, events), Falls(d), NEW e, KnownRows(e, events), Falls(e),
           Ids(d) = Ids(e), \A i \in DOMAIN d : KeyOf(d[i]) = KeyOf(e[i])
    PROVE  DiffGroupList(d) = DiffGroupList(e)
  <1>1. /\ Len(d) \in Nat /\ DOMAIN d = 1..Len(d)
        /\ DOMAIN d = DOMAIN e /\ \A i \in DOMAIN d : d[i].id = e[i].id
    <2>1. DOMAIN Ids(d) = DOMAIN d /\ DOMAIN Ids(e) = DOMAIN e
      BY DEF Ids
    <2>2. \A i \in DOMAIN d : Ids(d)[i] = d[i].id
      BY DEF Ids
    <2>3. \A i \in DOMAIN e : Ids(e)[i] = e[i].id
      BY DEF Ids
    <2>4. Len(d) \in Nat /\ DOMAIN d = 1..Len(d)
      BY DEF KnownRows
    <2> QED
      BY <2>1, <2>2, <2>3, <2>4
  <1>2. FirstSeen(d) = FirstSeen(e)
    <2>1. ASSUME NEW n \in DOMAIN d
          PROVE  (\A j \in 1..(n - 1) : d[j].id # d[n].id) <=> (\A j \in 1..(n - 1) : e[j].id # e[n].id)
      <3>1. \A j \in 1..(n - 1) : j \in DOMAIN d
        BY <1>1
      <3> QED
        BY <1>1, <3>1
    <2> QED
      BY <1>1, <2>1 DEF FirstSeen
  <1>3. FirstSeen(d) \subseteq DOMAIN d
    BY DEF FirstSeen
  <1>4. \A key : WithKey(d, key) = WithKey(e, key)
    BY <1>2, <1>3 DEF WithKey
  <1>5. Leads(d) = Leads(e) /\ Leads(d) \subseteq DOMAIN d /\ Leads(d) \in SUBSET Nat
    BY <1>1, <1>2, <1>3, <1>4 DEF Leads
  <1>6. PICK a : /\ InOrder(a, Leads(d)) /\ DOMAIN a = DOMAIN DiffGroups(d)
                 /\ \A i \in DOMAIN a : DiffGroups(d)[i] = DiffGroup(SeenOnce(d), KeyOf(d[a[i]]))
    BY GroupsInOrder
  <1>7. PICK b : /\ InOrder(b, Leads(e)) /\ DOMAIN b = DOMAIN DiffGroups(e)
                 /\ \A i \in DOMAIN b : DiffGroups(e)[i] = DiffGroup(SeenOnce(e), KeyOf(e[b[i]]))
    BY GroupsInOrder
  <1>8. a = b
    BY <1>5, <1>6, <1>7, OneOrder
  <1>9. ASSUME NEW key
        PROVE  Len(DiffGroup(SeenOnce(d), key).files) = Len(DiffGroup(SeenOnce(e), key).files)
    <2>1. PICK p : InOrder(p, WithKey(d, key)) /\ Len(p) = Len(DiffGroup(SeenOnce(d), key).files)
      BY FilesInOrder
    <2>2. PICK q : InOrder(q, WithKey(e, key)) /\ Len(q) = Len(DiffGroup(SeenOnce(e), key).files)
      BY FilesInOrder
    <2>3. WithKey(d, key) \in SUBSET Nat
      BY <1>1, <1>3 DEF WithKey
    <2>4. p = q
      BY <1>4, <2>1, <2>2, <2>3, OneOrder
    <2> QED
      BY <2>1, <2>2, <2>4
  <1>10. ASSUME NEW i \in DOMAIN DiffGroups(d)
         PROVE  /\ DiffGroups(d)[i].key = DiffGroups(e)[i].key
                /\ Len(DiffGroups(d)[i].files) = Len(DiffGroups(e)[i].files)
    <2>1. a[i] \in DOMAIN d
      BY <1>5, <1>6 DEF InOrder
    <2> DEFINE key == KeyOf(d[a[i]])
    <2>2. /\ DiffGroups(d)[i] = DiffGroup(SeenOnce(d), key) /\ DiffGroups(e)[i] = DiffGroup(SeenOnce(e), key)
      BY <1>6, <1>7, <1>8, <2>1
    <2> HIDE DEF key
    <2>3. DiffGroup(SeenOnce(d), key).key = key /\ DiffGroup(SeenOnce(e), key).key = key
      BY DEF DiffGroup
    <2> QED
      BY <1>9, <2>2, <2>3
  <1> QED
    BY <1>6, <1>7, <1>8, <1>10 DEF DiffGroupList

-----------------------------------------------------------------------------
(* What is rendered: blocks below one another, each once.                        *)

IsBlocks(blocks) == blocks \in Seq(ToSet(blocks)) /\ \A i \in DOMAIN blocks : blocks[i].height \in Int

\* Each rendered entry is somewhere.
IsLayout(content) ==
    /\ content \in Seq(ToSet(content)) /\ Len(content) # 0
    /\ \A i \in DOMAIN content : content[i].from \in Int /\ content[i].to \in Int

LEMMA LayoutFacts ==
    ASSUME NEW blocks, IsBlocks(blocks), Len(blocks) # 0
    PROVE  IsLayout(Layout(blocks))
  <1> DEFINE n == Len(blocks)
             end == CHOOSE e : e = [k \in 0..n |-> IF k = 0 THEN 0 ELSE e[k - 1] + blocks[k].height]
             step == [k \in 1..n |-> [t \in Int |-> t + blocks[k].height]]
             content == Layout(blocks)
  <1>1. n \in Nat /\ DOMAIN blocks = 1..n /\ \A k \in 1..n : blocks[k].height \in Int
    BY DEF IsBlocks
  <1>2. content = [i \in 1..n |-> [id |-> blocks[i].id, from |-> end[i - 1], to |-> end[i]]]
    BY DEF Layout
  <1>3. step \in [1..n -> [Int -> Int]]
    BY <1>1
  <1>4. \A k \in 1..n : \A t \in Int : step[k][t] = t + blocks[k].height
    OBVIOUS
  <1> HIDE DEF step
  <1>5. PICK g \in [0..n -> Int] : Runs(g, n, 0, step)
    <2>1. 0 \in Int
      OBVIOUS
    <2> HIDE DEF n
    <2> QED
      BY <1>1, <1>3, <2>1, RecursionExists
  <1>6. ASSUME NEW k \in 0..n PROVE g[k] = IF k = 0 THEN 0 ELSE g[k - 1] + blocks[k].height
    <2>1. CASE k = 0
      BY <1>5, <2>1 DEF Runs
    <2>2. CASE k # 0
      <3>1. k \in 1..n /\ k - 1 \in 0..n
        BY <1>1, <2>2
      <3>2. g[k] = step[k][g[k - 1]] /\ g[k - 1] \in Int
        BY <1>5, <3>1 DEF Runs
      <3> QED
        BY <1>4, <2>2, <3>1, <3>2
    <2> QED
      BY <2>1, <2>2
  <1>7. g = [k \in 0..n |-> IF k = 0 THEN 0 ELSE g[k - 1] + blocks[k].height]
    BY <1>5, <1>6
  <1>8. end = [k \in 0..n |-> IF k = 0 THEN 0 ELSE end[k - 1] + blocks[k].height]
    BY <1>7
  <1> HIDE DEF end
  <1> DEFINE Wrong == {k \in 0..n : end[k] \notin Int}
  <1>9. ASSUME Wrong # {} PROVE FALSE
    <2>1. PICK k \in Wrong : \A j \in Wrong : k <= j
      <3>1. Wrong \in SUBSET Nat
        BY <1>1
      <3> HIDE DEF Wrong
      <3> QED
        BY <1>9, <3>1, LeastNat
    <2>2. end[k] = IF k = 0 THEN 0 ELSE end[k - 1] + blocks[k].height
      BY <1>8
    <2>3. k # 0
      BY <2>2
    <2>4. k - 1 \in 0..n /\ k - 1 \notin Wrong /\ k \in 1..n
      BY <1>1, <2>1, <2>3
    <2>5. end[k - 1] \in Int
      BY <2>4
    <2> QED
      BY <1>1, <2>2, <2>3, <2>4, <2>5
  <1>10. \A k \in 0..n : end[k] \in Int
    BY <1>9
  <1> HIDE DEF content, n
  <1>11. DOMAIN content = 1..n /\ Len(content) = n /\ \A i \in 1..n : content[i].from = end[i - 1] /\ content[i].to = end[i]
    BY <1>1, <1>2
  <1>12. content \in Seq(ToSet(content))
    <2>1. \A i \in 1..n : content[i] \in ToSet(content)
      BY <1>11 DEF ToSet
    <2>2. content = [i \in 1..n |-> content[i]]
      BY <1>2
    <2> QED
      BY <1>1, <2>1, <2>2
  <1>13. ASSUME NEW i \in 1..n PROVE content[i].from \in Int /\ content[i].to \in Int
    <2>1. i - 1 \in 0..n /\ i \in 0..n
      BY <1>1
    <2> QED
      BY <1>10, <1>11, <2>1
  <1>14. n # 0
    BY DEF n
  <1>15. IsLayout(content)
    BY <1>11, <1>12, <1>13, <1>14 DEF IsLayout
  <1> QED
    BY <1>15 DEF content

LEMMA BlocksAfter ==
    ASSUME NEW s, NEW t, IsBlocks(s), IsBlocks(t)
    PROVE  IsBlocks(s \o t) /\ Len(s \o t) = Len(s) + Len(t)
  <1> DEFINE A == ToSet(s) \cup ToSet(t)
             st == s \o t
  <1>1. s \in Seq(A) /\ t \in Seq(A)
    BY DEF IsBlocks
  <1>2. /\ st \in Seq(A) /\ Len(st) = Len(s) + Len(t)
        /\ \A i \in 1..Len(st) : st[i] = IF i <= Len(s) THEN s[i] ELSE t[i - Len(s)]
    BY <1>1
  <1>3. Len(s) \in Nat /\ Len(t) \in Nat /\ DOMAIN s = 1..Len(s) /\ DOMAIN t = 1..Len(t) /\ DOMAIN st = 1..Len(st)
    BY <1>1, <1>2
  <1> HIDE DEF st, A
  <1>4. st \in Seq(ToSet(st))
    BY <1>2, <1>3 DEF ToSet
  <1>5. ASSUME NEW i \in DOMAIN st PROVE st[i].height \in Int
    <2>1. CASE i <= Len(s)
      <3>1. st[i] = s[i] /\ i \in DOMAIN s
        BY <1>2, <1>3, <2>1
      <3> QED
        BY <3>1 DEF IsBlocks
    <2>2. CASE ~(i <= Len(s))
      <3>1. st[i] = t[i - Len(s)] /\ i - Len(s) \in DOMAIN t
        BY <1>2, <1>3, <2>2
      <3> QED
        BY <3>1 DEF IsBlocks
    <2> QED
      BY <2>1, <2>2
  <1>6. IsBlocks(st)
    BY <1>4, <1>5 DEF IsBlocks
  <1> QED
    BY <1>2, <1>6 DEF st

LEMMA OneBlock ==
    ASSUME NEW id, NEW height \in Int
    PROVE  IsBlocks(<<Block(id, height)>>) /\ Len(<<Block(id, height)>>) = 1
  <1> DEFINE b == Block(id, height)
  <1>1. b.height = height
    BY DEF Block
  <1> HIDE DEF b
  <1>2. <<b>> \in Seq({b}) /\ DOMAIN <<b>> = {1} /\ <<b>>[1] = b
    OBVIOUS
  <1>3. IsBlocks(<<b>>)
    BY <1>1, <1>2 DEF IsBlocks, ToSet
  <1> QED
    BY <1>3 DEF b

LEMMA NoBlocks == IsBlocks(<<>>) /\ Len(<<>>) = 0
  BY DEF IsBlocks, ToSet

\* One block for each element of a list.
LEMMA BlockEach ==
    ASSUME NEW n \in Nat, NEW f, DOMAIN f = 1..n, f = [i \in 1..n |-> f[i]],
           \A i \in 1..n : f[i].height \in Int
    PROVE  IsBlocks(f)
  <1>1. f \in Seq(ToSet(f))
    BY DEF ToSet
  <1> QED
    BY <1>1 DEF IsBlocks

Count(seq) == Len(seq) \in Nat /\ DOMAIN seq = 1..Len(seq)

LEMMA ListsAreBlocks ==
    /\ \A rows : Count(rows) => IsBlocks(FeedbackList(rows))
    /\ \A entries : Count(entries) => IsBlocks(ComponentHistoryList(entries))
  <1>1. ASSUME NEW rows, Count(rows) PROVE IsBlocks(FeedbackList(rows))
    <2> DEFINE f == FeedbackList(rows)
    <2>1. f = [i \in 1..Len(rows) |-> Block(<<"feedback", rows[i].id>>, 1)]
      BY <1>1 DEF FeedbackList, Count
    <2>2. \A i \in 1..Len(rows) : f[i].height \in Int
      BY <2>1 DEF Block
    <2> HIDE DEF f
    <2>3. DOMAIN f = 1..Len(rows) /\ f = [i \in 1..Len(rows) |-> f[i]] /\ Len(rows) \in Nat
      BY <1>1, <2>1 DEF Count
    <2>4. IsBlocks(f)
      BY <2>2, <2>3, BlockEach
    <2> QED
      BY <2>4 DEF f
  <1>2. ASSUME NEW entries, Count(entries) PROVE IsBlocks(ComponentHistoryList(entries))
    <2> DEFINE f == ComponentHistoryList(entries)
    <2>1. f = [i \in 1..Len(entries) |-> Block(<<"history", entries[i]>>, 1)]
      BY <1>2 DEF ComponentHistoryList, Count
    <2>2. \A i \in 1..Len(entries) : f[i].height \in Int
      BY <2>1 DEF Block
    <2> HIDE DEF f
    <2>3. DOMAIN f = 1..Len(entries) /\ f = [i \in 1..Len(entries) |-> f[i]] /\ Len(entries) \in Nat
      BY <1>2, <2>1 DEF Count
    <2>4. IsBlocks(f)
      BY <2>2, <2>3, BlockEach
    <2> QED
      BY <2>4 DEF f
  <1> QED
    BY <1>1, <1>2

LEMMA GroupsAreBlocks ==
    ASSUME IsLog(events), NEW diffs, KnownRows(diffs, events)
    PROVE  IsBlocks(DiffGroupList(diffs))
  <1> DEFINE groups == DiffGroups(diffs)
             f == DiffGroupList(diffs)
  <1>1. Len(groups) \in Nat /\ DOMAIN groups = 1..Len(groups)
    BY GroupsFacts
  <1>2. ASSUME NEW i \in DOMAIN groups PROVE Len(groups[i].files) \in Int
    <2>1. PICK A : groups[i].files \in Seq(A)
      BY GroupsFacts
    <2> QED
      BY <2>1
  <1>3. f = [i \in DOMAIN groups |-> Block(<<"diff-group", groups[i].key>>, 1 + Len(groups[i].files))]
    BY DEF DiffGroupList
  <1> HIDE DEF f, groups
  <1>4. \A i \in 1..Len(groups) : f[i].height \in Int
    BY <1>1, <1>2, <1>3 DEF Block
  <1>5. DOMAIN f = 1..Len(groups) /\ f = [i \in 1..Len(groups) |-> f[i]]
    BY <1>1, <1>3
  <1>6. IsBlocks(f)
    BY <1>1, <1>4, <1>5, BlockEach
  <1> QED
    BY <1>6 DEF f

LEMMA ContentFacts ==
    ASSUME IsLog(events), NEW shownRun, NEW shownHistory, NEW count \in Nat, NEW shownMode, NEW section,
           KnownRows(shownRun.diffs, events), KnownRows(shownRun.feedback, events), Count(shownHistory.entries),
           NEW broken
    PROVE  IsLayout(PaneContent(shownRun, shownHistory, count, shownMode, section, broken))
  <1> DEFINE head == Contributions(count) \o <<Block(None, 1)>>
             feedback == IF section = "diffs" THEN <<>> ELSE FeedbackList(shownRun.feedback)
             diffs == IF section = "feedback" THEN <<>> ELSE DiffGroupList(shownRun.diffs)
             foot == IF section = None THEN <<Block(None, 1)>> ELSE <<>>
             body == IF Unlisted(shownMode, broken) THEN <<>>
                     ELSE IF shownMode = "history" THEN ComponentHistoryList(shownHistory.entries)
                     ELSE feedback \o diffs \o foot
  <1>1. IsBlocks(Contributions(count)) /\ Len(Contributions(count)) \in Nat
    <2>1. CASE count = 0
      BY <2>1, NoBlocks DEF Contributions
    <2>2. CASE count # 0
      BY <2>2, OneBlock DEF Contributions
    <2> QED
      BY <2>1, <2>2
  <1>2. IsBlocks(<<Block(None, 1)>>) /\ Len(<<Block(None, 1)>>) = 1
    BY OneBlock
  <1>3. IsBlocks(head) /\ Len(head) \in Nat \ {0}
    BY <1>1, <1>2, BlocksAfter
  <1>4. Count(shownRun.feedback)
    BY DEF KnownRows, Count
  <1>5. IsBlocks(feedback)
    BY <1>4, ListsAreBlocks, NoBlocks
  <1>6. IsBlocks(diffs)
    BY GroupsAreBlocks, NoBlocks
  <1>7. IsBlocks(foot)
    BY <1>2, NoBlocks
  <1>8. IsBlocks(ComponentHistoryList(shownHistory.entries))
    BY ListsAreBlocks
  <1>9. PaneContent(shownRun, shownHistory, count, shownMode, section, broken) = Layout(head \o body)
    BY DEF PaneContent
  <1> HIDE DEF head, feedback, diffs, foot
  <1>10. IsBlocks(feedback \o diffs \o foot)
    BY <1>5, <1>6, <1>7, BlocksAfter
  <1>11. IsBlocks(body)
    BY <1>8, <1>10, NoBlocks
  <1> HIDE DEF body
  <1>12. IsBlocks(head \o body) /\ Len(head \o body) = Len(head) + Len(body) /\ Len(body) \in Nat
    <2>1. Len(body) \in Nat
      BY <1>11 DEF IsBlocks
    <2> QED
      BY <1>3, <1>11, <2>1, BlocksAfter
  <1>13. Len(head \o body) # 0
    BY <1>3, <1>12
  <1> QED
    BY <1>9, <1>12, <1>13, LayoutFacts

\* The same entries, each with the same work, are shown alike.
LEMMA SameContent ==
    ASSUME IsLog(events), NEW runA, KnownRows(runA.diffs, events), Falls(runA.diffs), NEW historyA, NEW brokenA,
           NEW runB, KnownRows(runB.diffs, events), Falls(runB.diffs), NEW historyB, NEW brokenB,
           Ids(runA.diffs) = Ids(runB.diffs), Ids(runA.feedback) = Ids(runB.feedback),
           \A i \in DOMAIN runA.diffs : KeyOf(runA.diffs[i]) = KeyOf(runB.diffs[i]),
           historyA.entries = historyB.entries, NEW count, NEW shownMode, NEW section,
           Unlisted(shownMode, brokenA) <=> Unlisted(shownMode, brokenB)
    PROVE  PaneContent(runA, historyA, count, shownMode, section, brokenA)
               = PaneContent(runB, historyB, count, shownMode, section, brokenB)
  <1>1. DiffGroupList(runA.diffs) = DiffGroupList(runB.diffs)
    BY SameGroups
  <1>2. FeedbackList(runA.feedback) = FeedbackList(runB.feedback)
    <2>1. DOMAIN Ids(runA.feedback) = DOMAIN runA.feedback /\ DOMAIN Ids(runB.feedback) = DOMAIN runB.feedback
      BY DEF Ids
    <2>2. \A i \in DOMAIN runA.feedback : Ids(runA.feedback)[i] = runA.feedback[i].id
      BY DEF Ids
    <2>3. \A i \in DOMAIN runB.feedback : Ids(runB.feedback)[i] = runB.feedback[i].id
      BY DEF Ids
    <2>4. /\ DOMAIN runA.feedback = DOMAIN runB.feedback
          /\ \A i \in DOMAIN runA.feedback : runA.feedback[i].id = runB.feedback[i].id
      BY <2>1, <2>2, <2>3
    <2> QED
      BY <2>4 DEF FeedbackList
  <1> QED
    BY <1>1, <1>2 DEF PaneContent

\* Where nothing is listed there is nothing to look at.
LEMMA BareContent ==
    ASSUME NEW shownRun, NEW shownHistory, NEW count, NEW shownMode, NEW section, NEW broken,
           Unlisted(shownMode, broken)
    PROVE  Anchored(PaneContent(shownRun, shownHistory, count, shownMode, section, broken)) = {}
  <1> DEFINE blocks == Contributions(count) \o <<Block(None, 1)>> \o <<>>
             content == PaneContent(shownRun, shownHistory, count, shownMode, section, broken)
  <1>1. content = Layout(blocks)
    BY DEF PaneContent
  <1>2. \A i \in 1..Len(blocks) : blocks[i].id = None
    <2> DEFINE b == Block(None, 1)
               c == Block(None, count)
    <2>1. b.id = None /\ c.id = None
      BY DEF Block
    <2> HIDE DEF b, c
    <2>2. CASE count = 0
      <3>1. blocks = <<>> \o <<b>> \o <<>>
        BY <2>2 DEF Contributions, b
      <3>2. Len(<<>> \o <<b>> \o <<>>) = 1 /\ (<<>> \o <<b>> \o <<>>)[1] = b
        OBVIOUS
      <3>3. Len(blocks) = 1 /\ blocks[1] = b
        BY <3>1, <3>2
      <3> HIDE DEF blocks
      <3> QED
        BY <2>1, <3>3
    <2>3. CASE count # 0
      <3>1. blocks = <<c>> \o <<b>> \o <<>>
        BY <2>3 DEF Contributions, b, c
      <3>2. Len(<<c>> \o <<b>> \o <<>>) = 2 /\ (<<c>> \o <<b>> \o <<>>)[1] = c /\ (<<c>> \o <<b>> \o <<>>)[2] = b
        OBVIOUS
      <3>3. Len(blocks) = 2 /\ blocks[1] = c /\ blocks[2] = b
        BY <3>1, <3>2
      <3> HIDE DEF blocks
      <3> QED
        BY <2>1, <3>3
    <2> QED
      BY <2>2, <2>3
  <1> HIDE DEF blocks
  <1>3. DOMAIN Layout(blocks) = 1..Len(blocks) /\ \A i \in 1..Len(blocks) : Layout(blocks)[i].id = blocks[i].id
    BY DEF Layout
  <1> QED
    BY <1>1, <1>2, <1>3 DEF Anchored, ToSet

-----------------------------------------------------------------------------
(* The pages of a component's history leave no event out.                        *)

\* The events that the history lists, and a list of them that leaves none out between
\* its first and its last.
NamedIn(log) == {p \in DOMAIN log : log[p].kind # "retraction" /\ log[p].names}
Unbroken(entries, log) ==
    /\ Descends(entries, Len(log)) /\ ToSet(entries) \subseteq NamedIn(log)
    /\ entries # <<>> =>
           \A p \in NamedIn(log) : p <= entries[1] /\ p >= entries[Len(entries)] => p \in ToSet(entries)

HistoryInv ==
    /\ DOMAIN history = {"entries", "pages", "more"} /\ history.pages \in Nat \ {0}
    /\ Unbroken(history.entries, events)
    /\ history.more => history.entries # <<>>

LEMMA ComponentHistoryFacts ==
    ASSUME IsLog(events)
    PROVE  /\ Descends(ComponentHistory, Len(events)) /\ Len(events) \in Nat
           /\ \A p : p \in ToSet(ComponentHistory) <=> p \in NamedIn(events)
  <1> DEFINE n == Len(events)
  <1>1. n \in Nat /\ DOMAIN events = 1..n
    BY DEF IsLog
  <1>2. Descends(Backwards(n), n) /\ \A p : p \in ToSet(Backwards(n)) <=> p \in DOMAIN events
    BY <1>1, BackwardsFacts
  <1>3. ComponentHistory = Picked(Backwards(n), NamedIn(events))
    BY DEF ComponentHistory, NamedIn
  <1> HIDE DEF n
  <1>4. /\ Descends(ComponentHistory, n)
        /\ \A p : p \in ToSet(ComponentHistory) <=> p \in NamedIn(events) /\ p \in ToSet(Backwards(n))
    BY <1>1, <1>2, <1>3, PickedDescends
  <1>5. NamedIn(events) \subseteq DOMAIN events
    BY DEF NamedIn
  <1> QED
    BY <1>1, <1>2, <1>4, <1>5 DEF n

\* What comes before an element of a descending list is greater.
LEMMA DescendsFacts ==
    ASSUME NEW n \in Nat, NEW seq, Descends(seq, n)
    PROVE  /\ seq \in Seq(1..n) /\ Len(seq) \in Nat /\ DOMAIN seq = 1..Len(seq)
           /\ \A i \in DOMAIN seq : seq[i] \in 1..n
           /\ \A i, j \in DOMAIN seq : seq[i] >= seq[j] => i <= j
           /\ \A x : x \in ToSet(seq) <=> \E i \in DOMAIN seq : seq[i] = x
  <1>1. seq \in Seq(1..n) /\ Len(seq) \in Nat /\ DOMAIN seq = 1..Len(seq)
    BY DEF Descends
  <1>2. \A i \in DOMAIN seq : seq[i] \in 1..n
    BY <1>1
  <1>3. ASSUME NEW i \in DOMAIN seq, NEW j \in DOMAIN seq, seq[i] >= seq[j] PROVE i <= j
    <2>1. ~(j < i)
      <3> SUFFICES ASSUME j < i PROVE FALSE
        OBVIOUS
      <3>1. seq[j] > seq[i]
        BY DEF Descends
      <3> QED
        BY <1>2, <1>3, <3>1
    <2> QED
      BY <1>1, <2>1
  <1>4. \A x : x \in ToSet(seq) <=> \E i \in DOMAIN seq : seq[i] = x
    BY DEF ToSet
  <1> QED
    BY <1>1, <1>2, <1>3, <1>4

\* The first of a descending list are a descending list, of all that is not below its last.
LEMMA FirstDescends ==
    ASSUME NEW n \in Nat, NEW seq, Descends(seq, n), NEW m \in Nat \ {0}
    PROVE  LET first == FirstOf(seq, m)
           IN  /\ Descends(first, n) /\ Len(first) <= Len(seq)
               /\ (first = <<>>) <=> (seq = <<>>)
               /\ \A i \in DOMAIN first : i \in DOMAIN seq /\ first[i] = seq[i]
               /\ ToSet(first) \subseteq ToSet(seq)
               /\ first # <<>> => \A p \in ToSet(seq) : p >= first[Len(first)] => p \in ToSet(first)
  <1> DEFINE first == FirstOf(seq, m)
  <1>1. /\ seq \in Seq(1..n) /\ Len(seq) \in Nat /\ DOMAIN seq = 1..Len(seq)
        /\ \A i, j \in DOMAIN seq : seq[i] >= seq[j] => i <= j
        /\ \A x : x \in ToSet(seq) <=> \E i \in DOMAIN seq : seq[i] = x
    BY DescendsFacts
  <1>2. /\ first \in Seq(1..n)
        /\ Len(first) = IF m <= Len(seq) THEN m ELSE Len(seq)
        /\ \A i \in 1..Len(first) : first[i] = seq[i]
    BY <1>1, FirstOfFacts
  <1> HIDE DEF first
  <1>3. /\ Len(first) \in Nat /\ DOMAIN first = 1..Len(first) /\ Len(first) <= Len(seq)
        /\ Len(first) = 0 <=> Len(seq) = 0
    BY <1>1, <1>2
  <1>4. \A i \in DOMAIN first : i \in DOMAIN seq /\ first[i] = seq[i]
    BY <1>1, <1>2, <1>3
  <1>5. Descends(first, n)
    BY <1>2, <1>4 DEF Descends
  <1>6. (first = <<>>) <=> (seq = <<>>)
    BY <1>1, <1>2, <1>3
  <1>7. \A x : x \in ToSet(first) <=> \E i \in DOMAIN first : first[i] = x
    BY DEF ToSet
  <1>8. ToSet(first) \subseteq ToSet(seq)
    BY <1>1, <1>4, <1>7
  <1>9. ASSUME first # <<>>, NEW p \in ToSet(seq), p >= first[Len(first)] PROVE p \in ToSet(first)
    <2>1. Len(first) # 0
      BY <1>2, <1>9
    <2>2. Len(first) \in DOMAIN first
      BY <1>3, <2>1
    <2>3. PICK k \in DOMAIN seq : seq[k] = p
      BY <1>1
    <2>4. k <= Len(first)
      BY <1>1, <1>4, <1>9, <2>2, <2>3
    <2>5. k \in DOMAIN first /\ first[k] = p
      BY <1>1, <1>3, <1>4, <2>3, <2>4
    <2> QED
      BY <1>7, <2>5
  <1> QED
    BY <1>3, <1>4, <1>5, <1>6, <1>8, <1>9 DEF first

LEMMA FetchedIsUnbroken ==
    ASSUME IsLog(events), NEW m \in Nat \ {0}
    PROVE  Unbroken(FirstOf(ComponentHistory, m), events)
  <1> DEFINE first == FirstOf(ComponentHistory, m)
  <1>1. /\ Descends(ComponentHistory, Len(events)) /\ Len(events) \in Nat
        /\ \A p : p \in ToSet(ComponentHistory) <=> p \in NamedIn(events)
    BY ComponentHistoryFacts
  <1>2. /\ Descends(first, Len(events)) /\ ToSet(first) \subseteq ToSet(ComponentHistory)
        /\ first # <<>> => \A p \in ToSet(ComponentHistory) : p >= first[Len(first)] => p \in ToSet(first)
    BY <1>1, FirstDescends
  <1> HIDE DEF first
  <1>3. Unbroken(first, events)
    BY <1>1, <1>2 DEF Unbroken
  <1> QED
    BY <1>3 DEF first

\* The next page goes on where the last one ended.
LEMMA MoreIsUnbroken ==
    ASSUME IsLog(events), NEW entries, Unbroken(entries, events), entries # <<>>
    PROVE  LET rest == Picked(ComponentHistory, 1..(entries[Len(entries)] - 1))
               new == entries \o FirstOf(rest, PageSize)
           IN  Unbroken(new, events) /\ new # <<>>
  <1> DEFINE n == Len(events)
             last == entries[Len(entries)]
             rest == Picked(ComponentHistory, 1..(last - 1))
             page == FirstOf(rest, PageSize)
             new == entries \o page
  <1>1. /\ Descends(ComponentHistory, n) /\ n \in Nat
        /\ \A p : p \in ToSet(ComponentHistory) <=> p \in NamedIn(events)
    BY ComponentHistoryFacts
  <1> HIDE DEF n
  <1>2. Descends(rest, n) /\ \A x : x \in ToSet(rest) <=> x \in 1..(last - 1) /\ x \in ToSet(ComponentHistory)
    <2> HIDE DEF last
    <2> QED
      BY <1>1, PickedDescends
  <1> HIDE DEF rest
  <1>3. PageSize \in Nat \ {0}
    BY InspectorAssumption
  <1>4. /\ Descends(page, n) /\ ((page = <<>>) <=> (rest = <<>>)) /\ ToSet(page) \subseteq ToSet(rest)
        /\ page # <<>> => \A p \in ToSet(rest) : p >= page[Len(page)] => p \in ToSet(page)
    BY <1>1, <1>2, <1>3, FirstDescends
  <1> HIDE DEF page
  <1>5. Descends(entries, n) /\ ToSet(entries) \subseteq NamedIn(events)
        /\ \A p \in NamedIn(events) : p <= entries[1] /\ p >= last => p \in ToSet(entries)
    BY DEF Unbroken, n
  <1>6. /\ entries \in Seq(1..n) /\ Len(entries) \in Nat /\ DOMAIN entries = 1..Len(entries)
        /\ \A i \in DOMAIN entries : entries[i] \in 1..n
        /\ \A i, j \in DOMAIN entries : entries[i] >= entries[j] => i <= j
        /\ \A x : x \in ToSet(entries) <=> \E i \in DOMAIN entries : entries[i] = x
    BY <1>1, <1>5, DescendsFacts
  <1>7. /\ page \in Seq(1..n) /\ Len(page) \in Nat /\ DOMAIN page = 1..Len(page)
        /\ \A i \in DOMAIN page : page[i] \in 1..n
        /\ \A x : x \in ToSet(page) <=> \E i \in DOMAIN page : page[i] = x
    BY <1>1, <1>4, DescendsFacts
  <1>8. Len(entries) # 0 /\ last \in 1..n
    BY <1>6
  <1> HIDE DEF last
  <1>9. /\ new \in Seq(1..n) /\ Len(new) = Len(entries) + Len(page) /\ DOMAIN new = 1..(Len(entries) + Len(page))
        /\ \A i \in 1..Len(new) : new[i] = IF i <= Len(entries) THEN entries[i] ELSE page[i - Len(entries)]
    BY <1>6, <1>7
  <1> HIDE DEF new
  <1>10. ASSUME NEW i \in DOMAIN entries PROVE i \in DOMAIN new /\ new[i] = entries[i] /\ entries[i] >= last
    <2>1. i \in DOMAIN new /\ new[i] = entries[i]
      BY <1>6, <1>7, <1>9
    <2>2. Len(entries) \in DOMAIN entries /\ i <= Len(entries)
      BY <1>6, <1>8
    <2>3. i = Len(entries) \/ entries[i] > entries[Len(entries)]
      BY <1>5, <1>6, <2>2 DEF Descends
    <2> QED
      BY <1>6, <2>1, <2>2, <2>3 DEF last
  <1>11. ASSUME NEW i \in DOMAIN page
         PROVE  i + Len(entries) \in DOMAIN new /\ new[i + Len(entries)] = page[i] /\ page[i] < last
    <2>1. i + Len(entries) \in DOMAIN new /\ new[i + Len(entries)] = page[i]
      BY <1>6, <1>7, <1>9
    <2>2. page[i] \in ToSet(rest)
      BY <1>4, <1>7
    <2> QED
      BY <1>2, <1>8, <2>1, <2>2
  <1>12. ASSUME NEW i \in DOMAIN new
         PROVE  i \in DOMAIN entries \/ i - Len(entries) \in DOMAIN page
    BY <1>6, <1>7, <1>9
  <1>13. ASSUME NEW i \in DOMAIN new, NEW j \in DOMAIN new, i < j PROVE new[i] > new[j]
    <2>0. i \in Nat /\ j \in Nat /\ i <= Len(new) /\ j <= Len(new) /\ i # 0 /\ j # 0
      BY <1>6, <1>7, <1>9
    <2>1. CASE j \in DOMAIN entries
      <3>1. i \in DOMAIN entries
        BY <1>6, <1>13, <2>0, <2>1
      <3> QED
        BY <1>5, <1>10, <1>13, <2>1, <3>1 DEF Descends
    <2>2. CASE i \in DOMAIN entries /\ j \notin DOMAIN entries
      <3>1. new[i] = entries[i] /\ entries[i] >= last /\ entries[i] \in 1..n
        BY <1>6, <1>10, <2>2
      <3>2. j - Len(entries) \in DOMAIN page /\ (j - Len(entries)) + Len(entries) = j
        BY <1>6, <1>12, <2>0, <2>2
      <3>3. new[j] = page[j - Len(entries)] /\ new[j] < last /\ new[j] \in 1..n
        BY <1>7, <1>11, <3>2
      <3> QED
        BY <1>8, <3>1, <3>3
    <2>3. CASE i \notin DOMAIN entries /\ j \notin DOMAIN entries
      <3>1. i - Len(entries) \in DOMAIN page /\ j - Len(entries) \in DOMAIN page
        BY <1>12, <2>3
      <3>2. /\ (i - Len(entries)) + Len(entries) = i /\ (j - Len(entries)) + Len(entries) = j
            /\ i - Len(entries) < j - Len(entries)
        BY <1>6, <1>13, <2>0
      <3>3. new[i] = page[i - Len(entries)] /\ new[j] = page[j - Len(entries)]
        BY <1>11, <3>1, <3>2
      <3> QED
        BY <1>4, <3>1, <3>2, <3>3 DEF Descends
    <2> QED
      BY <2>1, <2>2, <2>3
  <1>14. Descends(new, n)
    BY <1>9, <1>13 DEF Descends
  <1>15. ASSUME NEW x PROVE x \in ToSet(new) <=> x \in ToSet(entries) \/ x \in ToSet(page)
    <2>1. x \in ToSet(new) <=> \E i \in DOMAIN new : new[i] = x
      BY DEF ToSet
    <2>2. ASSUME NEW i \in DOMAIN new, new[i] = x PROVE x \in ToSet(entries) \/ x \in ToSet(page)
      <3>1. CASE i \in DOMAIN entries
        BY <1>6, <1>10, <2>2, <3>1
      <3>2. CASE i \notin DOMAIN entries
        <4>1. i - Len(entries) \in DOMAIN page /\ (i - Len(entries)) + Len(entries) = i
          BY <1>6, <1>9, <1>7, <1>12, <3>2
        <4> QED
          BY <1>7, <1>11, <2>2, <4>1
      <3> QED
        BY <3>1, <3>2
    <2> QED
      BY <1>6, <1>7, <1>10, <1>11, <2>1, <2>2
  <1>16. ToSet(new) \subseteq NamedIn(events)
    BY <1>1, <1>2, <1>4, <1>5, <1>15
  <1>17. new # <<>> /\ new[1] = entries[1] /\ 1 \in DOMAIN entries
    BY <1>6, <1>8, <1>9, <1>10
  <1>18. ASSUME NEW p \in NamedIn(events), p <= new[1], p >= new[Len(new)] PROVE p \in ToSet(new)
    <2>0. p \in 1..n
      BY <1>1, <1>6, DescendsFacts DEF NamedIn, Descends, n, IsLog
    <2>1. CASE p >= last
      BY <1>5, <1>15, <1>17, <1>18, <2>1
    <2>2. CASE p < last
      <3>1. p \in ToSet(rest)
        BY <1>1, <1>2, <1>8, <2>0, <2>2
      <3>2. rest # <<>>
        BY <3>1 DEF ToSet
      <3>3. page # <<>> /\ Len(page) # 0
        BY <1>4, <1>7, <3>2
      <3>4. new[Len(new)] = page[Len(page)]
        <4>1. Len(page) \in DOMAIN page /\ Len(page) + Len(entries) = Len(new)
          BY <1>6, <1>7, <1>9, <3>3
        <4> QED
          BY <1>11, <4>1
      <3> QED
        BY <1>4, <1>15, <1>18, <3>1, <3>3, <3>4
    <2> QED
      BY <1>8, <2>0, <2>1, <2>2
  <1>19. Unbroken(new, events)
    BY <1>14, <1>16, <1>17, <1>18 DEF Unbroken, n
  <1> QED
    BY <1>17, <1>19 DEF new, page, rest, last

-----------------------------------------------------------------------------
(* What holds of the Inspector in every state.                                   *)

LEMMA UnbrokenStays ==
    ASSUME NEW log, IsLog(log), NEW event, NEW entries, Unbroken(entries, log)
    PROVE  Unbroken(entries, Append(log, event))
  <1> DEFINE n == Len(log)
             new == Append(log, event)
  <1>1. log \in Seq(ToSet(log) \cup {event}) /\ n \in Nat /\ DOMAIN log = 1..n
    BY DEF IsLog
  <1>2. Len(new) = n + 1 /\ DOMAIN new = 1..(n + 1) /\ \A p \in 1..n : new[p] = log[p]
    BY <1>1
  <1> HIDE DEF new, n
  <1>3. /\ Descends(entries, n) /\ ToSet(entries) \subseteq NamedIn(log)
        /\ entries # <<>> =>
               \A p \in NamedIn(log) : p <= entries[1] /\ p >= entries[Len(entries)] => p \in ToSet(entries)
    BY DEF Unbroken, n
  <1>4. \A p \in 1..n : p \in NamedIn(log) <=> p \in NamedIn(new)
    BY <1>1, <1>2 DEF NamedIn
  <1>5. /\ entries \in Seq(1..n) /\ Len(entries) \in Nat /\ DOMAIN entries = 1..Len(entries)
        /\ \A i \in DOMAIN entries : entries[i] \in 1..n
    BY <1>1, <1>3, DescendsFacts
  <1>6. Descends(entries, n + 1)
    <2>1. entries \in Seq(1..(n + 1))
      BY <1>1, <1>5
    <2> QED
      BY <1>3, <2>1 DEF Descends
  <1>7. ToSet(entries) \subseteq NamedIn(new)
    <2>1. NamedIn(log) \subseteq 1..n
      BY <1>1 DEF NamedIn
    <2> QED
      BY <1>3, <1>4, <2>1
  <1>8. ASSUME entries # <<>>, NEW p \in NamedIn(new), p <= entries[1], p >= entries[Len(entries)]
        PROVE  p \in ToSet(entries)
    <2>1. entries[1] \in 1..n
      BY <1>5, <1>8
    <2>2. p \in 1..n
      <3>1. p \in 1..(n + 1)
        BY <1>2 DEF NamedIn
      <3> QED
        BY <1>1, <1>8, <2>1, <3>1
    <2> QED
      BY <1>3, <1>4, <1>8, <2>2
  <1>9. Unbroken(entries, new)
    BY <1>2, <1>6, <1>7, <1>8 DEF Unbroken
  <1> QED
    BY <1>9 DEF new

LEMMA MarksFacts ==
    ASSUME IsLog(events), NEW entries, Unbroken(entries, events)
    PROVE  CorrectionsAreMarked(HistoryItems(entries))
  <1> DEFINE n == Len(events)
             corrected == {events[p].target : p \in {q \in ToSet(entries) : events[q].kind = "correction"}}
             items == HistoryItems(entries)
             newest == IF items = <<>> THEN 0 ELSE items[1].position
  <1>1. n \in Nat /\ DOMAIN events = 1..n /\ \A p \in DOMAIN events :
            events[p].kind = "correction" => events[p].target \in 1..(p - 1)
    BY DEF IsLog
  <1>2. /\ Descends(entries, n) /\ ToSet(entries) \subseteq NamedIn(events)
        /\ entries # <<>> =>
               \A p \in NamedIn(events) : p <= entries[1] /\ p >= entries[Len(entries)] => p \in ToSet(entries)
    BY DEF Unbroken
  <1>3. /\ entries \in Seq(1..n) /\ Len(entries) \in Nat /\ DOMAIN entries = 1..Len(entries)
        /\ \A i \in DOMAIN entries : entries[i] \in 1..n
        /\ \A i, j \in DOMAIN entries : entries[i] >= entries[j] => i <= j
        /\ \A x : x \in ToSet(entries) <=> \E i \in DOMAIN entries : entries[i] = x
    BY <1>1, <1>2, DescendsFacts
  <1>4. /\ DOMAIN items = DOMAIN entries
        /\ \A i \in DOMAIN entries : /\ items[i].position = entries[i]
                                     /\ items[i].isCorrected = (entries[i] \in corrected)
    BY DEF HistoryItems
  <1> HIDE DEF items, n
  <1>5. ASSUME NEW i \in DOMAIN entries
        PROVE  items[i].isCorrected <=>
                   \E p \in DOMAIN events : /\ p <= newest /\ events[p].kind = "correction"
                                            /\ events[p].names /\ events[p].target = items[i].position
    <2>1. Len(entries) # 0 /\ entries # <<>> /\ 1 \in DOMAIN entries /\ Len(entries) \in DOMAIN entries
      BY <1>3
    <2>2. items # <<>> /\ newest = entries[1]
      BY <1>4, <2>1
    <2>3. ASSUME entries[i] \in corrected
          PROVE  \E p \in DOMAIN events : /\ p <= newest /\ events[p].kind = "correction"
                                          /\ events[p].names /\ events[p].target = entries[i]
      <3>1. PICK p \in ToSet(entries) : events[p].kind = "correction" /\ events[p].target = entries[i]
        BY <2>3
      <3>2. p \in NamedIn(events)
        BY <1>2, <3>1
      <3>3. PICK k \in DOMAIN entries : entries[k] = p
        BY <1>3, <3>1
      <3>4. ~(entries[k] > entries[1])
        BY <1>3, <2>1
      <3>5. p <= newest
        BY <1>3, <2>1, <2>2, <3>3, <3>4
      <3> QED
        BY <3>1, <3>2, <3>5 DEF NamedIn
    <2>4. ASSUME NEW p \in DOMAIN events, p <= newest, events[p].kind = "correction", events[p].names,
                 events[p].target = entries[i]
          PROVE  entries[i] \in corrected
      <3>1. p \in NamedIn(events)
        BY <2>4 DEF NamedIn
      <3>2. entries[i] \in 1..(p - 1) /\ p \in 1..n
        BY <1>1, <2>4
      <3>3. ~(entries[Len(entries)] > entries[i])
        BY <1>3, <2>1
      <3>4. p >= entries[Len(entries)]
        BY <1>3, <2>1, <3>2, <3>3
      <3>5. p \in ToSet(entries)
        BY <1>2, <2>1, <2>2, <2>4, <3>1, <3>4
      <3> QED
        BY <2>4, <3>5
    <2> HIDE DEF corrected, newest
    <2> QED
      BY <1>4, <2>3, <2>4
  <1>6. \A item \in ToSet(items) : \E i \in DOMAIN entries : item = items[i]
    BY <1>4 DEF ToSet
  <1>7. CorrectionsAreMarked(items)
    BY <1>5, <1>6 DEF CorrectionsAreMarked
  <1> QED
    BY <1>7 DEF items

-----------------------------------------------------------------------------

RunInv ==
    /\ DOMAIN run = {"feedback", "diffs", "pages", "more"} /\ run.pages \in Nat
    /\ KnownRows(run.diffs, events) /\ KnownRows(run.feedback, events) /\ Falls(run.diffs)

PlaceInv == IsLayout(rendered) /\ top \in Int /\ (anchor # None => anchor.offset \in Int)

\* What is rendered is what was read.
ShowsWhatWasRead == rendered = PaneContent(run, history, evidence, mode, focus, failed)

InspectorInv == IsLog(events) /\ RunInv /\ HistoryInv /\ evidence \in Nat /\ PlaceInv /\ ShowsWhatWasRead

LEMMA HistoryIsCounted == ASSUME IsLog(events), HistoryInv PROVE Count(history.entries)
  <1>1. Descends(history.entries, Len(events)) /\ Len(events) \in Nat
    BY DEF HistoryInv, Unbroken, IsLog
  <1> QED
    BY <1>1, DescendsFacts DEF Count

LEMMA FetchedRunFacts ==
    ASSUME IsLog(events), NEW pages \in Nat
    PROVE  /\ DOMAIN FetchedRun(pages) = {"feedback", "diffs", "pages", "more"}
           /\ FetchedRun(pages).pages = pages
           /\ KnownRows(FetchedRun(pages).diffs, events) /\ KnownRows(FetchedRun(pages).feedback, events)
           /\ Falls(FetchedRun(pages).diffs)
  <1>1. KnownRows(RowsOf("feedback"), events) /\ KnownRows(RowsOf("diff"), events)
    BY RowsOfFacts
  <1>2. pages * PageSize \in Nat
    BY InspectorAssumption
  <1>3. KnownRows(FirstOf(RowsOf("diff"), pages * PageSize), events)
    BY <1>1, <1>2, KnownFirst
  <1>5. Falls(FirstOf(RowsOf("diff"), pages * PageSize))
    BY <1>1, <1>2, RowsOfFall, FirstFall
  <1>4. /\ FetchedRun(pages).feedback = RowsOf("feedback")
        /\ FetchedRun(pages).diffs = FirstOf(RowsOf("diff"), pages * PageSize)
        /\ FetchedRun(pages).pages = pages
        /\ DOMAIN FetchedRun(pages) = {"feedback", "diffs", "pages", "more"}
    BY DEF FetchedRun, RunOf
  <1> QED
    BY <1>1, <1>3, <1>4, <1>5

LEMMA FetchedHistoryFacts ==
    ASSUME IsLog(events), NEW pages \in Nat \ {0}
    PROVE  /\ DOMAIN FetchedHistory(pages) = {"entries", "pages", "more"}
           /\ FetchedHistory(pages).pages = pages
           /\ Unbroken(FetchedHistory(pages).entries, events)
           /\ FetchedHistory(pages).more => FetchedHistory(pages).entries # <<>>
  <1> DEFINE m == pages * PageSize
  <1>1. m \in Nat \ {0}
    BY InspectorAssumption
  <1>2. /\ FetchedHistory(pages).entries = FirstOf(ComponentHistory, m)
        /\ FetchedHistory(pages).pages = pages
        /\ FetchedHistory(pages).more = (Len(ComponentHistory) > m)
        /\ DOMAIN FetchedHistory(pages) = {"entries", "pages", "more"}
    BY DEF FetchedHistory, HistoryPages
  <1> HIDE DEF m
  <1>3. Unbroken(FirstOf(ComponentHistory, m), events)
    BY <1>1, FetchedIsUnbroken
  <1>4. Descends(ComponentHistory, Len(events)) /\ Len(events) \in Nat
    BY ComponentHistoryFacts
  <1>5. (FirstOf(ComponentHistory, m) = <<>>) <=> (ComponentHistory = <<>>)
    BY <1>1, <1>4, FirstDescends
  <1>6. Len(ComponentHistory) > m => ComponentHistory # <<>>
    BY <1>1
  <1> QED
    BY <1>2, <1>3, <1>5, <1>6

LEMMA OfTwo ==
    ASSUME NEW x \in Int, NEW y \in Int
    PROVE  Min({x, y}) = (IF x <= y THEN x ELSE y) /\ Max({x, y}) = (IF x >= y THEN x ELSE y)
  BY DEF Min, Max

LEMMA MaxTopFacts ==
    ASSUME NEW content, IsLayout(content)
    PROVE  MaxTop(content) \in Int /\ MaxTop(content) >= 0
  <1>1. Len(content) \in DOMAIN content
    BY DEF IsLayout
  <1>2. Last(content).to \in Int
    BY <1>1 DEF IsLayout, Last
  <1> DEFINE below == Last(content).to - Window
  <1>3. below \in Int
    BY <1>2, InspectorAssumption
  <1>4. MaxTop(content) = Max({0, below})
    BY DEF MaxTop
  <1> HIDE DEF below
  <1>5. Max({0, below}) = IF 0 >= below THEN 0 ELSE below
    BY <1>3, OfTwo
  <1> QED
    BY <1>3, <1>4, <1>5

LEMMA EntryFacts ==
    ASSUME NEW content, IsLayout(content), NEW id \in Anchored(content)
    PROVE  EntryIn(content, id).from \in Int
  <1>1. \E block \in ToSet(content) : block.id = id
    BY DEF Anchored
  <1>2. EntryIn(content, id) \in ToSet(content)
    BY <1>1 DEF EntryIn
  <1> QED
    BY <1>2 DEF IsLayout, ToSet

LEMMA PinnedFacts ==
    ASSUME NEW content, IsLayout(content), PlaceInv, NEW changed \in BOOLEAN
    PROVE  /\ Pinned(content, changed) \in Int
           /\ changed /\ anchor # None /\ anchor.id \in Anchored(content) =>
                  LET moved == EntryIn(content, anchor.id).from - anchor.offset
                  IN  \/ Pinned(content, changed) = moved
                      \/ moved > MaxTop(content) /\ Pinned(content, changed) = MaxTop(content)
                      \/ moved < 0 /\ Pinned(content, changed) = 0
  <1> DEFINE max == MaxTop(content)
             at == Min({top, max})
             found == changed /\ anchor # None /\ anchor.id \in Anchored(content)
             from == EntryIn(content, anchor.id).from
             shift == from - at - anchor.offset
             moved == from - anchor.offset
  <1>1. max \in Int /\ max >= 0 /\ top \in Int
    BY MaxTopFacts DEF PlaceInv
  <1> HIDE DEF max
  <1>2. at \in Int
    BY <1>1, OfTwo
  <1>3. Pinned(content, changed) = IF found THEN Max({0, Min({max, at + shift})}) ELSE at
    BY DEF Pinned, NextScrollTop, max
  <1> HIDE DEF at
  <1>4. ASSUME found PROVE from \in Int /\ anchor.offset \in Int
    BY <1>4, EntryFacts DEF PlaceInv
  <1> HIDE DEF from
  <1>5. ASSUME found
        PROVE  /\ Pinned(content, changed) \in Int
               /\ \/ Pinned(content, changed) = moved
                  \/ moved > max /\ Pinned(content, changed) = max
                  \/ moved < 0 /\ Pinned(content, changed) = 0
    <2>1. moved \in Int /\ at + shift = moved
      BY <1>2, <1>4, <1>5
    <2> HIDE DEF moved, shift, found
    <2>2. Min({max, moved}) = (IF max <= moved THEN max ELSE moved)
      BY <1>1, <2>1, OfTwo
    <2> DEFINE low == Min({max, moved})
    <2>3. low \in Int
      BY <1>1, <2>1, <2>2
    <2> HIDE DEF low
    <2>4. Max({0, low}) = IF 0 >= low THEN 0 ELSE low
      BY <2>3, OfTwo
    <2>5. Pinned(content, changed) = Max({0, low})
      BY <1>3, <1>5, <2>1 DEF low
    <2> QED
      BY <1>1, <2>1, <2>2, <2>3, <2>4, <2>5 DEF low
  <1>6. ASSUME ~found PROVE Pinned(content, changed) \in Int
    BY <1>2, <1>3, <1>6
  <1> QED
    BY <1>5, <1>6 DEF max, from

LEMMA AnchorFacts ==
    ASSUME NEW content, IsLayout(content), NEW at \in Int, Captured(content, at) # None
    PROVE  Captured(content, at).offset \in Int
  <1> DEFINE visible == {i \in DOMAIN content : content[i].id # None /\ content[i].to > at}
  <1>1. Captured(content, at) = FindAnchor(content, at)
    BY DEF Captured
  <1>2. visible # {}
    BY <1>1 DEF FindAnchor
  <1>3. visible \in SUBSET Nat
    BY DEF IsLayout
  <1>4. Min(visible) \in visible
    <2> HIDE DEF visible
    <2> QED
      BY <1>2, <1>3, MinOf
  <1>5. Captured(content, at).offset = content[Min(visible)].from - at
    BY <1>1, <1>2 DEF FindAnchor
  <1>6. content[Min(visible)].from \in Int
    <2>1. Min(visible) \in DOMAIN content
      BY <1>4
    <2> QED
      BY <2>1 DEF IsLayout
  <1> QED
    BY <1>5, <1>6

LEMMA InspectorStart == ASSUME InspectorInit PROVE InspectorInv
  <1>1. PICK log \in Reported : Opened(log)
    BY DEF InspectorInit
  <1>2. IsLog(events) /\ events = log
    BY <1>1, InspectorAssumption DEF Opened
  <1>3. RunInv
    BY <1>1, <1>2, FetchedRunFacts DEF Opened, RunInv
  <1>4. Unbroken(<<>>, events)
    BY DEF Unbroken, Descends, ToSet
  <1>5. HistoryInv
    BY <1>1, <1>4 DEF Opened, HistoryInv
  <1>6. evidence \in Nat
    BY <1>1 DEF Opened
  <1>7. IsLayout(rendered)
    <2>1. Count(history.entries)
      BY <1>2, <1>5, HistoryIsCounted
    <2>2. rendered = PaneContent(run, history, evidence, mode, focus, failed)
      BY <1>1 DEF Opened
    <2> QED
      BY <1>2, <1>3, <1>6, <2>1, <2>2, ContentFacts DEF RunInv
  <1>8. PlaceInv /\ ShowsWhatWasRead
    BY <1>1, <1>7 DEF Opened, PlaceInv, ShowsWhatWasRead
  <1> QED
    BY <1>2, <1>3, <1>5, <1>6, <1>8 DEF InspectorInv

\* Lists in which no entry came, went, moved or changed its work are shown as they were.
LEMMA NothingNew ==
    ASSUME InspectorInv, RenderPane, events' = events, RunInv', evidence' = evidence,
           ReadAnew, ContentSignature' = ContentSignature
    PROVE  rendered' = rendered
  <1>1. /\ rendered' = PaneContent(run', history', evidence', mode', focus', failed')
        /\ rendered = PaneContent(run, history, evidence, mode, focus, failed)
    BY DEF RenderPane, InspectorInv, ShowsWhatWasRead
  <1>2. /\ mode' = mode /\ focus' = focus /\ anchor.id \in Anchored(rendered) /\ anchor.id \in Anchored(rendered')
        /\ ~OnlyRegrouped
    BY DEF ReadAnew
  <1>3. Ids(run'.diffs) = Ids(run.diffs) /\ Ids(run'.feedback) = Ids(run.feedback) /\ history'.entries = history.entries
    BY DEF ContentSignature, Ids
  <1>4. \A i \in DOMAIN run.diffs : KeyOf(run.diffs[i]) = KeyOf(run'.diffs[i])
    BY <1>2, <1>3 DEF OnlyRegrouped, Ids, KeyOf
  <1>5. ~Unlisted(mode, failed) /\ ~Unlisted(mode, failed')
    BY <1>1, <1>2, BareContent
  <1>6. /\ IsLog(events) /\ KnownRows(run.diffs, events) /\ Falls(run.diffs)
        /\ KnownRows(run'.diffs, events) /\ Falls(run'.diffs)
    BY DEF InspectorInv, RunInv, Falls
  <1>7. PaneContent(run, history, evidence, mode, focus, failed)
            = PaneContent(run', history', evidence, mode, focus, failed')
    BY <1>3, <1>4, <1>5, <1>6, SameContent
  <1> QED
    BY <1>1, <1>2, <1>7

\* Whatever is rendered anew, the reader is somewhere in it; what they looked at, where
\* it was, if it was read anew.
LEMMA RenderFacts ==
    ASSUME InspectorInv, RenderPane, events' = events, RunInv', HistoryInv', evidence' \in Nat,
           <<run, history>> # <<run, history>>' => evidence' = evidence
    PROVE  PlaceInv' /\ PlaceIsKept
  <1>0. IsLog(events) /\ PlaceInv
    BY DEF InspectorInv
  <1>1. Count(history.entries)'
    <2>1. IsLog(events)'
      BY <1>0
    <2>2. Descends(history'.entries, Len(events)) /\ Len(events) \in Nat
      BY <1>0 DEF HistoryInv, Unbroken, IsLog
    <2> QED
      BY <2>2, DescendsFacts DEF Count
  <1>2. KnownRows(run'.diffs, events) /\ KnownRows(run'.feedback, events)
    BY DEF RunInv
  <1>3. rendered' = PaneContent(run', history', evidence', mode', focus', failed')
    BY DEF RenderPane
  <1>4. IsLayout(rendered')
    <2>1. Count(history'.entries)
      BY <1>1
    <2> QED
      BY <1>0, <1>2, <1>3, <2>1, ContentFacts
  <1> DEFINE changed == ContentSignature' # ContentSignature
             max == MaxTop(rendered')
             from == EntryIn(rendered', anchor.id).from
             moved == from - anchor.offset
  <1>5. top' = Pinned(rendered', changed) /\ anchor' = anchor
    BY DEF RenderPane
  <1>6. changed \in BOOLEAN
    OBVIOUS
  <1> HIDE DEF changed
  <1>7. Pinned(rendered', changed) \in Int
    BY <1>0, <1>4, <1>6, PinnedFacts
  <1>8. PlaceInv'
    BY <1>0, <1>4, <1>5, <1>7 DEF PlaceInv
  <1>9. ASSUME ReadAnew
        PROVE  \/ OffsetOf(anchor.id)' = anchor.offset
               \/ OffsetOf(anchor.id)' > anchor.offset /\ top' = MaxTop(rendered')
               \/ OffsetOf(anchor.id)' < anchor.offset /\ top' = 0
    <2>1. anchor # None /\ anchor.id \in Anchored(rendered') /\ anchor.offset = OffsetOf(anchor.id)
      BY <1>9 DEF ReadAnew
    <2>2. OffsetOf(anchor.id)' = from - top'
      BY <1>5 DEF OffsetOf
    <2>3. from \in Int /\ anchor.offset \in Int /\ top' \in Int /\ top \in Int /\ max \in Int
      BY <1>0, <1>4, <1>5, <1>7, <2>1, EntryFacts, MaxTopFacts DEF PlaceInv
    <2>4. CASE changed
      <3>1. \/ Pinned(rendered', changed) = moved
            \/ moved > max /\ Pinned(rendered', changed) = max
            \/ moved < 0 /\ Pinned(rendered', changed) = 0
        BY <1>0, <1>4, <1>6, <2>1, <2>4, PinnedFacts
      <3> HIDE DEF max, from
      <3>2. \/ from - top' = anchor.offset
            \/ from - top' > anchor.offset /\ top' = max
            \/ from - top' < anchor.offset /\ top' = 0
        BY <1>5, <2>3, <3>1
      <3> QED
        BY <2>2, <3>2 DEF max
    <2>5. CASE ~changed
      <3>1. ContentSignature' = ContentSignature
        BY <2>5 DEF changed
      <3>2. evidence' = evidence
        BY <1>9 DEF ReadAnew
      <3>3. rendered' = rendered
        BY <1>9, <3>1, <3>2, NothingNew
      <3>4. anchor.offset = from - top
        BY <2>1, <3>3 DEF OffsetOf
      <3>5. Pinned(rendered', changed) = Min({top, max})
        BY <2>5 DEF Pinned
      <3> HIDE DEF max, from
      <3>6. top' = IF top <= max THEN top ELSE max
        BY <1>5, <2>3, <3>5, OfTwo
      <3>7. \/ from - top' = anchor.offset
            \/ from - top' > anchor.offset /\ top' = max
        BY <2>3, <3>4, <3>6
      <3> QED
        BY <2>2, <3>7 DEF max
    <2> QED
      BY <2>4, <2>5
  <1> QED
    BY <1>8, <1>9 DEF PlaceIsKept

-----------------------------------------------------------------------------
(* Every step of the Inspector keeps it, and its two theorems.                   *)

\* The agents: the log grows, and everything that was read is still in it.
LEMMA PublishStep ==
    ASSUME InspectorInv, NEW event, Publish(event), event.kind = "correction" => event.target \in DOMAIN events
    PROVE  InspectorInv' /\ PlaceIsKept
  <1>1. events' = Append(events, event) /\ UNCHANGED <<run, history, evidence, mode, focus, failed, rendered, top, anchor, owed>>
    BY DEF Publish
  <1>2. IsLog(events)'
    <2>1. IsLog(Append(events, event))
      BY LogGrows DEF InspectorInv
    <2> QED
      BY <1>1, <2>1
  <1>3. RunInv'
    <2>1. KnownRows(run.diffs, Append(events, event)) /\ KnownRows(run.feedback, Append(events, event))
      BY KnownStays DEF InspectorInv, RunInv
    <2> QED
      BY <1>1, <2>1 DEF InspectorInv, RunInv
  <1>4. HistoryInv'
    <2>1. Unbroken(history.entries, Append(events, event))
      BY UnbrokenStays DEF InspectorInv, HistoryInv
    <2> QED
      BY <1>1, <2>1 DEF InspectorInv, HistoryInv
  <1>5. PlaceInv' /\ evidence' \in Nat
    BY <1>1 DEF InspectorInv, PlaceInv
  <1>7. ShowsWhatWasRead'
    <2>1. PaneContent(run, history, evidence, mode, focus, failed)' = PaneContent(run, history, evidence, mode, focus, failed)
      BY <1>1 DEF PaneContent, DiffGroupList, DiffGroups
    <2> QED
      BY <1>1, <2>1 DEF InspectorInv, ShowsWhatWasRead
  <1>6. PlaceIsKept
    BY <1>1 DEF PlaceIsKept, ReadAnew
  <1> QED
    BY <1>2, <1>3, <1>4, <1>5, <1>6, <1>7 DEF InspectorInv

\* What reads anew, or shows something else, renders.
LEMMA RenderStep ==
    ASSUME InspectorInv, RenderPane, events' = events, RunInv', HistoryInv', evidence' \in Nat,
           <<run, history>> # <<run, history>>' => evidence' = evidence
    PROVE  InspectorInv' /\ PlaceIsKept
  <1>1. PlaceInv' /\ PlaceIsKept
    BY RenderFacts
  <1>2. IsLog(events)' /\ ShowsWhatWasRead'
    BY DEF InspectorInv, RenderPane, ShowsWhatWasRead
  <1> QED
    BY <1>1, <1>2 DEF InspectorInv

LEMMA FetchRunStep == ASSUME InspectorInv, FetchRun PROVE InspectorInv' /\ PlaceIsKept
  <1>1. run' = FetchedRun(run.pages) /\ UNCHANGED <<events, history, evidence, mode, focus>> /\ RenderPane
    BY DEF FetchRun
  <1>2. /\ DOMAIN FetchedRun(run.pages) = {"feedback", "diffs", "pages", "more"}
        /\ FetchedRun(run.pages).pages = run.pages /\ run.pages \in Nat
        /\ KnownRows(FetchedRun(run.pages).diffs, events) /\ KnownRows(FetchedRun(run.pages).feedback, events)
        /\ Falls(FetchedRun(run.pages).diffs)
    BY FetchedRunFacts DEF InspectorInv, RunInv
  <1>3. RunInv'
    BY <1>1, <1>2 DEF RunInv, Falls
  <1>4. HistoryInv' /\ evidence' \in Nat /\ evidence' = evidence
    BY <1>1 DEF InspectorInv, HistoryInv
  <1> QED
    BY <1>1, <1>3, <1>4, RenderStep

LEMMA FetchHistoryStep == ASSUME InspectorInv, FetchHistory PROVE InspectorInv' /\ PlaceIsKept
  <1>1. history' = FetchedHistory(history.pages) /\ UNCHANGED <<events, run, evidence, mode, focus>> /\ RenderPane
    BY DEF FetchHistory
  <1>2. /\ DOMAIN FetchedHistory(history.pages) = {"entries", "pages", "more"}
        /\ FetchedHistory(history.pages).pages = history.pages /\ history.pages \in Nat \ {0}
        /\ Unbroken(FetchedHistory(history.pages).entries, events)
        /\ FetchedHistory(history.pages).more => FetchedHistory(history.pages).entries # <<>>
    BY FetchedHistoryFacts DEF InspectorInv, HistoryInv
  <1>3. HistoryInv'
    BY <1>1, <1>2 DEF HistoryInv
  <1>4. RunInv' /\ evidence' \in Nat /\ evidence' = evidence
    BY <1>1 DEF InspectorInv, RunInv, Falls
  <1> QED
    BY <1>1, <1>3, <1>4, RenderStep

LEMMA LoadMoreDiffsStep == ASSUME InspectorInv, LoadMoreDiffs PROVE InspectorInv' /\ PlaceIsKept
  <1> DEFINE last == run.diffs[Len(run.diffs)].position
             listed == RowsOf("diff")
             some == {r \in ToSet(listed) : r.position < last}
             rest == NewestFirst(some)
             page == FirstOf(rest, PageSize)
  <1>1. /\ run' = [run EXCEPT !.diffs = run.diffs \o page, !.pages = run.pages + 1, !.more = Len(rest) > PageSize]
        /\ UNCHANGED <<events, history, evidence, mode, focus>> /\ RenderPane
    BY DEF LoadMoreDiffs
  <1>2. IsLog(events) /\ RunInv
    BY DEF InspectorInv
  <1>3. /\ KnownRows(listed, events)
        /\ \A i, j \in DOMAIN listed : listed[i].position = listed[j].position => listed[i] = listed[j]
    BY <1>2, RowsOfFacts
  <1> HIDE DEF listed, last
  <1>4. \A r \in some : \E i \in DOMAIN listed : r = listed[i]
    BY DEF ToSet
  <1>5. \A r \in some : r.position \in DOMAIN events /\ events[r.position].id = r.id
    BY <1>3, <1>4 DEF KnownRows
  <1>6. \A r, s \in some : r.position = s.position => r = s
    BY <1>3, <1>4
  <1> HIDE DEF some
  <1>7. IsNewestFirst(rest, some)
    BY <1>2, <1>5, <1>6, NewestFirstFacts
  <1> HIDE DEF rest
  <1>8. KnownRows(rest, events)
    <2>1. rest \in Seq(some)
      BY <1>7 DEF IsNewestFirst
    <2>2. rest \in Seq(ToSet(rest))
      BY <2>1 DEF ToSet
    <2>3. \A i \in DOMAIN rest : rest[i] \in some
      BY <2>1
    <2> QED
      BY <1>5, <2>2, <2>3 DEF KnownRows
  <1>9. KnownRows(page, events)
    BY <1>8, KnownFirst, InspectorAssumption
  <1> HIDE DEF page
  <1>10. KnownRows(run.diffs \o page, events)
    BY <1>2, <1>9, KnownAfter DEF RunInv
  <1>11. /\ DOMAIN run' = DOMAIN run /\ run'.diffs = run.diffs \o page /\ run'.feedback = run.feedback
         /\ run'.pages = run.pages + 1
    BY <1>1, <1>2 DEF RunInv
  <1>14. Falls(run.diffs \o page)
    <2>1. Falls(rest)
      BY <1>7 DEF IsNewestFirst, Falls
    <2>2. Falls(page)
      BY <1>8, <2>1, FirstFall, InspectorAssumption DEF page
    <2>3. \A i \in DOMAIN page : page[i].position < run.diffs[Len(run.diffs)].position
      <3>1. rest \in Seq(some)
        BY <1>7 DEF IsNewestFirst
      <3>2. page \in Seq(some)
        BY <3>1, FirstOfFacts, InspectorAssumption DEF page
      <3>3. \A r \in some : r.position < last
        BY DEF some
      <3> QED
        BY <3>2, <3>3 DEF last
    <2>4. Len(events) \in Nat /\ DOMAIN events = 1..Len(events)
      BY <1>2 DEF IsLog
    <2> QED
      BY <1>2, <1>9, <2>2, <2>3, <2>4, AfterFall DEF RunInv
  <1>12. RunInv'
    BY <1>1, <1>2, <1>10, <1>11, <1>14 DEF RunInv, Falls
  <1>13. HistoryInv' /\ evidence' \in Nat /\ evidence' = evidence
    BY <1>1 DEF InspectorInv, HistoryInv
  <1> QED
    BY <1>1, <1>12, <1>13, RenderStep

LEMMA LoadMoreHistoryStep == ASSUME InspectorInv, LoadMoreHistory PROVE InspectorInv' /\ PlaceIsKept
  <1> DEFINE entries == history.entries
             rest == Picked(ComponentHistory, 1..(entries[Len(entries)] - 1))
             new == entries \o FirstOf(rest, PageSize)
  <1>1. /\ history.more
        /\ history' = [history EXCEPT !.entries = new, !.pages = history.pages + 1, !.more = Len(rest) > PageSize]
        /\ UNCHANGED <<events, run, evidence, mode, focus>> /\ RenderPane
    BY DEF LoadMoreHistory
  <1>2. IsLog(events) /\ HistoryInv
    BY DEF InspectorInv
  <1>3. Unbroken(entries, events) /\ entries # <<>>
    BY <1>1, <1>2 DEF HistoryInv
  <1>4. Unbroken(new, events) /\ new # <<>>
    BY <1>2, <1>3, MoreIsUnbroken
  <1> HIDE DEF new, rest
  <1>5. DOMAIN history' = DOMAIN history /\ history'.entries = new /\ history'.pages = history.pages + 1
    BY <1>1, <1>2 DEF HistoryInv
  <1>6. HistoryInv'
    BY <1>1, <1>2, <1>4, <1>5 DEF HistoryInv
  <1>7. RunInv' /\ evidence' \in Nat /\ evidence' = evidence
    BY <1>1 DEF InspectorInv, RunInv, Falls
  <1> QED
    BY <1>1, <1>6, <1>7, RenderStep

LEMMA ShowStep ==
    ASSUME InspectorInv,
           Contribute \/ (\E next \in {"run", "history"} : SetHistoryMode(next) \/ FetchFails(next))
               \/ \E section \in {None, "feedback", "diffs"} : SetFocus(section)
    PROVE  InspectorInv' /\ PlaceIsKept
  <1>1. UNCHANGED <<events, run, history>> /\ RenderPane /\ evidence' \in Nat
    BY DEF Contribute, SetHistoryMode, SetFocus, FetchFails, InspectorInv
  <1>2. RunInv' /\ HistoryInv'
    BY <1>1 DEF InspectorInv, RunInv, HistoryInv, Falls
  <1> QED
    BY <1>1, <1>2, RenderStep

LEMMA ScrollStep ==
    ASSUME InspectorInv, (\E at \in 0..MaxTop(rendered) : Scroll(at)) \/ OnScroll
    PROVE  InspectorInv' /\ PlaceIsKept
  <1>1. IsLayout(rendered) /\ top \in Int /\ MaxTop(rendered) \in Int
    BY MaxTopFacts DEF InspectorInv, PlaceInv
  <1>2. /\ UNCHANGED <<events, run, history, evidence, mode, focus, failed, rendered>>
        /\ top' \in Int /\ anchor' = Captured(rendered, top')
    BY <1>1 DEF Scroll, OnScroll
  <1>3. anchor' # None => anchor'.offset \in Int
    BY <1>1, <1>2, AnchorFacts
  <1>4. PlaceInv'
    BY <1>1, <1>2, <1>3 DEF PlaceInv
  <1>5. IsLog(events)' /\ RunInv' /\ HistoryInv' /\ evidence' \in Nat /\ ShowsWhatWasRead'
    BY <1>2 DEF InspectorInv, RunInv, HistoryInv, Falls, ShowsWhatWasRead
  <1>6. PlaceIsKept
    BY <1>2 DEF PlaceIsKept, ReadAnew
  <1> QED
    BY <1>4, <1>5, <1>6 DEF InspectorInv

LEMMA InspectorStep ==
    ASSUME InspectorInv, [InspectorNext]_inspectorVars
    PROVE  InspectorInv' /\ PlaceIsKept
  <1>1. ASSUME NEW id, NEW kind \in {"feedback", "diff"}, NEW agent, NEW change, Report(kind, id, agent, change)
        PROVE  InspectorInv' /\ PlaceIsKept
    BY <1>1, PublishStep DEF Report, Event
  <1>2. ASSUME NEW target \in DOMAIN events, NEW agent, NEW change, NEW names, Correct(target, agent, change, names)
        PROVE  InspectorInv' /\ PlaceIsKept
    BY <1>2, PublishStep DEF Correct, Event
  <1>3. ASSUME NEW target \in DOMAIN events, Retract(target) PROVE InspectorInv' /\ PlaceIsKept
    BY <1>3, PublishStep DEF Retract, Event
  <1>4. ASSUME UNCHANGED inspectorVars PROVE InspectorInv' /\ PlaceIsKept
    <2>1. InspectorInv'
      BY <1>4 DEF inspectorVars, InspectorInv, RunInv, Falls, HistoryInv, PlaceInv, ShowsWhatWasRead
    <2>2. PlaceIsKept
      BY <1>4 DEF inspectorVars, PlaceIsKept, ReadAnew
    <2> QED
      BY <2>1, <2>2
  <1> QED
    BY <1>1, <1>2, <1>3, <1>4, FetchRunStep, FetchHistoryStep, LoadMoreDiffsStep, LoadMoreHistoryStep,
       ShowStep, ScrollStep DEF InspectorNext

\* What has been read stays legible, however it was read and whatever was corrected
\* meanwhile, for any pages and any number of events (diffGroups.ts:18-31,
\* historyEntries.ts:14-29).
THEOREM EvidenceIsLegible == InspectorSpec => []EvidenceStaysLegible
  <1>1. InspectorInit => InspectorInv
    BY InspectorStart
  <1>2. InspectorInv /\ [InspectorNext]_inspectorVars => InspectorInv'
    BY InspectorStep
  <1>3. InspectorInv => EvidenceStaysLegible
    BY GroupsFacts, MarksFacts DEF InspectorInv, RunInv, HistoryInv, EvidenceStaysLegible
  <1> QED
    BY <1>1, <1>2, <1>3, PTL DEF InspectorSpec

\* Whatever a read brings, fails before it or is corrected above the reader, the entry the
\* pane remembers stays at its place in the window, as far as the list reaches, for any
\* window, pages and lists, unless a correction has only given listed diffs to other work
\* (scrollStability.ts:1-29).
THEOREM PlaceOfTheReader == InspectorSpec => ReaderKeepsPlace
  <1>1. InspectorInit => InspectorInv
    BY InspectorStart
  <1>2. InspectorInv /\ [InspectorNext]_inspectorVars => InspectorInv' /\ PlaceIsKept
    BY InspectorStep
  <1> QED
    BY <1>1, <1>2, PTL DEF InspectorSpec, ReaderKeepsPlace
=============================================================================
