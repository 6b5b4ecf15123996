---------------------------- MODULE EventDelivery ----------------------------
(* What the project event stream promises, without any of its machinery: a log *)
(* that only grows, and consumers that each process a run of consecutive        *)
(* positions of it, one at a time, in order.  EventStream implements this       *)
(* module; the promise is ADR 0006's "every committed event exactly once and    *)
(* in order", relative to the position a consumer starts from.                  *)
EXTENDS Integers

CONSTANTS
    Clients,      \* the consumers of the stream
    NoCursor      \* the cursor of a consumer that has processed nothing yet

VARIABLES
    head,         \* the position of the last committed event
    cursor        \* the position each consumer processed last

vars == <<head, cursor>>

Init ==
    /\ head \in Nat
    /\ cursor \in [Clients -> Nat \union {NoCursor}]

\* One more event is committed at the next position.
Commit ==
    /\ head' = head + 1
    /\ UNCHANGED cursor

\* A consumer without a baseline starts anywhere in the log.
Start(c) ==
    /\ cursor[c] = NoCursor
    /\ \E p \in 1..head : cursor' = [cursor EXCEPT ![c] = p]
    /\ UNCHANGED head

\* A consumer processes the successor of its cursor, which must be committed.
Process(c) ==
    /\ cursor[c] # NoCursor
    /\ cursor[c] < head
    /\ cursor' = [cursor EXCEPT ![c] = @ + 1]
    /\ UNCHANGED head

Next == Commit \/ \E c \in Clients : Start(c) \/ Process(c)

Spec == Init /\ [][Next]_vars

=============================================================================
