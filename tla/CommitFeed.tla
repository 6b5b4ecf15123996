------------------------------ MODULE CommitFeed ------------------------------
(* What the event log hands to the live stream: committed positions, each        *)
(* published at most once, after its commit and in any order.  EventLog          *)
(* implements this module; the source actions of EventStream are its actions.    *)
EXTENDS Integers

VARIABLES
    head,          \* the log is 1..head
    unpublished,   \* committed and still to be published
    unannounced    \* committed and never to be published by this process

vars == <<head, unpublished, unannounced>>

Init ==
    /\ head \in Nat
    /\ unpublished = {}
    /\ unannounced = {}

Commit ==
    /\ head' = head + 1
    /\ unpublished' = unpublished \union {head'}
    /\ UNCHANGED unannounced

\* The commit took place, and the goroutine that asked for it does not know.
CommitUnknown ==
    /\ head' = head + 1
    /\ unannounced' = unannounced \union {head'}
    /\ UNCHANGED unpublished

Publish ==
    /\ \E p \in unpublished : unpublished' = unpublished \ {p}
    /\ UNCHANGED <<head, unannounced>>

\* A new process: nothing of the old one is published any more.
Replaced ==
    /\ unpublished' = {}
    /\ unannounced' = {}
    /\ UNCHANGED head

Next == Commit \/ CommitUnknown \/ Publish \/ Replaced

Spec == Init /\ [][Next]_vars

=============================================================================
