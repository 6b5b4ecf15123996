------------------------------ MODULE MCProcess ------------------------------
(* The renderer alone, with more calls than slots, and the whole process with two        *)
(* requests: one of the two from the initial state on.                                    *)
EXTENDS Process

CONSTANTS c1, c2, c3

VARIABLE alone

\* The third call is one of the renderer alone.
MCInit == ProcessInit /\ alone \in BOOLEAN

Renders == (\E c \in Calls : Call(c)) \/ (\E s \in Closers : Closer(s))

MCNext ==
    \/ alone /\ Renders /\ UNCHANGED <<processVars, alone>>
    \/ ~alone /\ ProcessNext /\ at'[c3] = "none" /\ UNCHANGED alone

MCSpec ==
    /\ MCInit /\ [][MCNext]_<<vars, processVars, alone>>
    /\ RenderFairness
    /\ ProcessFairness

\* A shutdown that has begun ends: the renders leave, the calls and their sessions too
\* (service.go:181-200, handler.go:126-145).
EverythingDrains == ShutdownDrains /\ McpDrains
=============================================================================
