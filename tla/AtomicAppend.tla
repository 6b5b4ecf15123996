----------------------------- MODULE AtomicAppend -----------------------------
(* What appending to a project's event log promises its agents, without         *)
(* transactions or locks: commands enter the log one at a time, each            *)
(* idempotency key once, and only while the log admits them.  EventLog          *)
(* implements this module.                                                      *)
EXTENDS Sequences, Naturals

CONSTANTS
    Commands,              \* the commands agents may submit
    Admissible(_, _)       \* whether a log admits a command (the lifecycle rules)

VARIABLE log               \* the accepted commands, by project position

Init == log = <<>>

\* A command enters the log at the next position.
Accept(c) ==
    /\ \A p \in 1..Len(log) : log[p].key # c.key
    /\ Admissible(log, c)
    /\ log' = Append(log, c)

Next == \E c \in Commands : Accept(c)

Spec == Init /\ [][Next]_log

=============================================================================
