------------------------------- MODULE Listing -------------------------------
(* What the lists of both panes are made with. *)
EXTENDS Integers, SequencesExt, FiniteSets

\* Array.filter by what is in a set.
Picked(seq, S) == FoldLeft(LAMBDA done, x : IF x \in S THEN Append(done, x) ELSE done, <<>>, seq)

\* Every x, and as many more as it stands for.
Counted(weight, S) == FoldSet(LAMBDA x, n : n + weight[x] + 1, 0, S)
=============================================================================
