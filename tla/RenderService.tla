----------------------------- MODULE RenderService -----------------------------
(* Rendering a view to an image (backend/internal/render/service.go): at most   *)
(* two renders at a time, a deadline for each, and a shutdown that cancels them *)
(* and waits until all have left.  A section under s.mu is one step; between    *)
(* two sections anything may happen, the shutdown and the end of a context too. *)
EXTENDS Integers, FiniteSets

CONSTANTS
    Calls,        \* the goroutines in Render
    Closers,      \* the goroutines in Shutdown: main.go calls it, and again when it unwinds
    Slots         \* capacity of the channel s.slots

ASSUME RenderAssumption ==
    /\ Slots \in Nat \ {0}
    /\ IsFiniteSet(Calls)

VARIABLES
    pc,           \* where a call of Render is
    answer,       \* what it answers
    ended,        \* the calls whose context has ended
    slots,        \* tokens in s.slots
    closed,       \* s.closed
    active,       \* s.active
    done,         \* how often s.done was closed: a second time panics
    closing       \* where a call of Shutdown is

vars == <<pc, answer, ended, slots, closed, active, done, closing>>

Answers == {"none", "shutting_down", "busy", "failed", "image"}

Init ==
    /\ pc = [c \in Calls |-> "idle"]
    /\ answer = [c \in Calls |-> "none"]
    /\ ended = {}
    /\ slots = 0
    /\ closed = FALSE
    /\ active = {}
    /\ done = 0
    /\ closing = [s \in Closers |-> "idle"]

\* Mutant: the flag is read before the lock is taken, when it was not set yet.
NeverRefused == TRUE

Admitting == ~closed

HasSlot == slots < Slots

\* A call is refused, or takes a slot and registers, in one section under s.mu.
Refuse(c) ==
    /\ pc[c] = "idle"
    /\ ~Admitting \/ ~HasSlot
    /\ answer' = [answer EXCEPT ![c] = IF ~Admitting THEN "shutting_down" ELSE "busy"]
    /\ UNCHANGED <<pc, ended, slots, closed, active, done, closing>>

Admit(c) ==
    /\ pc[c] = "idle"
    /\ Admitting
    /\ HasSlot
    /\ slots' = slots + 1
    /\ active' = active \union {c}
    /\ pc' = [pc EXCEPT ![c] = "capture"]
    /\ ended' = ended \ {c}
    /\ answer' = [answer EXCEPT ![c] = "none"]
    /\ UNCHANGED <<closed, done, closing>>

\* The deadline of a call passes, or its caller goes away.
End(c) ==
    /\ pc[c] \in {"capture", "paint"}
    /\ ended' = ended \union {c}
    /\ UNCHANGED <<pc, answer, slots, closed, active, done, closing>>

\* The snapshot is captured; a query may finish before it notices that its context
\* has ended.
Capture(c) ==
    /\ pc[c] = "capture"
    /\ pc' = [pc EXCEPT ![c] = "paint"]
    /\ UNCHANGED <<answer, ended, slots, closed, active, done, closing>>

\* The capture or the browser fails, the image is refused, or the context has ended.
Fail(c) ==
    /\ pc[c] \in {"capture", "paint"}
    /\ pc' = [pc EXCEPT ![c] = "leave"]
    /\ answer' = [answer EXCEPT ![c] = "failed"]
    /\ UNCHANGED <<ended, slots, closed, active, done, closing>>

\* The image is there and the context has not ended.
Paint(c) ==
    /\ pc[c] = "paint"
    /\ c \notin ended
    /\ pc' = [pc EXCEPT ![c] = "leave"]
    /\ answer' = [answer EXCEPT ![c] = "image"]
    /\ UNCHANGED <<ended, slots, closed, active, done, closing>>

\* Mutant: only the shutdown closes the channel.
NoLeaver(c) == FALSE

\* The call is the last one to leave.
LastLeaver(c) == active \ {c} = {}

\* The deferred section: the call gives its slot back, and the last one to leave a
\* closed service closes s.done.
Leave(c) ==
    /\ pc[c] = "leave"
    /\ active' = active \ {c}
    /\ slots' = slots - 1
    /\ done' = IF closed /\ LastLeaver(c) THEN done + 1 ELSE done
    /\ pc' = [pc EXCEPT ![c] = "idle"]
    /\ UNCHANGED <<answer, ended, closed, closing>>

\* The first Shutdown cancels every render, and closes s.done if there is none.
Shutdown(s) ==
    /\ closing[s] = "idle"
    /\ closing' = [closing EXCEPT ![s] = "waiting"]
    /\ IF closed
       THEN UNCHANGED <<ended, closed, done>>
       ELSE /\ closed' = TRUE
            /\ ended' = ended \union active
            /\ done' = IF active = {} THEN done + 1 ELSE done
    /\ UNCHANGED <<pc, answer, slots, active>>

ShutdownDone(s) ==
    /\ closing[s] = "waiting"
    /\ done > 0
    /\ closing' = [closing EXCEPT ![s] = "drained"]
    /\ UNCHANGED <<pc, answer, ended, slots, closed, active, done>>

\* The budget of the shutdown is used up.
ShutdownExpired(s) ==
    /\ closing[s] = "waiting"
    /\ closing' = [closing EXCEPT ![s] = "expired"]
    /\ UNCHANGED <<pc, answer, ended, slots, closed, active, done>>

Call(c) == Refuse(c) \/ Admit(c) \/ End(c) \/ Capture(c) \/ Fail(c) \/ Paint(c) \/ Leave(c)

Closer(s) == Shutdown(s) \/ ShutdownDone(s) \/ ShutdownExpired(s)

Next == (\E c \in Calls : Call(c)) \/ (\E s \in Closers : Closer(s))

Spec == Init /\ [][Next]_vars

\* Go runs every goroutine, and a capture and a browser come to an end once their
\* context has ended, which the deadline sees to.  Nobody has to call Shutdown.
RenderFairness ==
    \A c \in Calls : WF_vars(End(c)) /\ WF_vars(c \in ended /\ Fail(c)) /\ WF_vars(Leave(c))

-----------------------------------------------------------------------------
(* Properties.                                                                  *)

TypeOK ==
    /\ pc \in [Calls -> {"idle", "capture", "paint", "leave"}]
    /\ answer \in [Calls -> Answers]
    /\ ended \subseteq Calls
    /\ slots \in 0..Slots
    /\ closed \in BOOLEAN
    /\ active \subseteq Calls
    /\ done \in Nat
    /\ closing \in [Closers -> {"idle", "waiting", "drained", "expired"}]

\* However calls, contexts and shutdowns interleave, s.done is closed once at most:
\* closing a channel twice panics (service.go, close(s.done) in Render and Shutdown).
DoneClosedOnce == done <= 1

\* Once s.done is closed no render runs and none begins any more, so main may take
\* the server and the database down (main.go, renderer.Shutdown before server.Shutdown).
QuiescentWhenDone == done > 0 => closed /\ \A c \in Calls : pc[c] = "idle"

\* The tokens, the registered calls and the goroutines that run agree, and the
\* context of whatever still runs in a closed service has ended.
RenderInv ==
    /\ TypeOK
    /\ IsFiniteSet(active)
    /\ active = {c \in Calls : pc[c] # "idle"}
    /\ slots = Cardinality(active)
    /\ closed => done = IF active = {} THEN 1 ELSE 0
    /\ ~closed => done = 0
    /\ closed => active \subseteq ended

\* A shutdown that has begun drains the service (service.go, "cancels every process,
\* prevents new requests and observes one budget").
ShutdownDrains == closed ~> done = 1

=============================================================================
