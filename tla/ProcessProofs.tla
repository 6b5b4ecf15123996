----------------------------- MODULE ProcessProofs -----------------------------
(* The slots and the shutdown of the render service, for any number of calls    *)
(* and of slots, and the shutdown of the process that uses it, for any number   *)
(* of requests, whichever way its drains end.                                   *)
EXTENDS Process, FiniteSetTheorems, TLAPS

LEMMA InitRender == Init => RenderInv
  <1> SUFFICES ASSUME Init PROVE RenderInv
    OBVIOUS
  <1>1. IsFiniteSet({}) /\ Cardinality({}) = 0
    BY FS_EmptySet
  <1>2. TypeOK
    <2>1. slots \in 0..Slots /\ done \in Nat
      BY RenderAssumption DEF RenderAssumption, Init
    <2>2. closed \in BOOLEAN
      BY DEF Init
    <2> QED
      BY <2>1, <2>2 DEF Init, TypeOK, Answers
  <1>3. active = {c \in Calls : pc[c] # "idle"}
    BY DEF Init
  <1>4. active = {} /\ slots = 0 /\ done = 0 /\ closed = FALSE
    BY DEF Init
  <1> QED
    BY <1>1, <1>2, <1>3, <1>4 DEF RenderInv

LEMMA AdmitKeeps ==
    ASSUME RenderInv, NEW c \in Calls, Admit(c)
    PROVE  RenderInv'
  <1> USE DEF Admit, Admitting, HasSlot
  <1>1. c \notin active
    BY DEF RenderInv
  <1>2. IsFiniteSet(active') /\ Cardinality(active') = Cardinality(active) + 1
    BY <1>1, FS_AddElement DEF RenderInv
  <1>3. slots' \in 0..Slots
    BY RenderAssumption DEF RenderAssumption, RenderInv, TypeOK
  <1>4. TypeOK'
    BY <1>3 DEF RenderInv, TypeOK, Answers
  <1>5. active' = {d \in Calls : pc'[d] # "idle"}
    BY DEF RenderInv, TypeOK
  <1> QED
    BY <1>2, <1>4, <1>5 DEF RenderInv

LEMMA LeaveKeeps ==
    ASSUME RenderInv, NEW c \in Calls, Leave(c)
    PROVE  RenderInv'
  <1> USE DEF Leave, LastLeaver
  <1>1. c \in active
    BY DEF RenderInv
  <1>2. IsFiniteSet(active') /\ Cardinality(active') = Cardinality(active) - 1
    BY <1>1, FS_RemoveElement DEF RenderInv
  <1>3. Cardinality(active') \in Nat
    BY <1>2, FS_CardinalityType
  <1>4. slots' \in 0..Slots
    BY <1>2, <1>3, RenderAssumption DEF RenderAssumption, RenderInv, TypeOK
  <1>5. TypeOK'
    BY <1>4 DEF RenderInv, TypeOK
  <1>6. active' = {d \in Calls : pc'[d] # "idle"}
    BY DEF RenderInv, TypeOK
  <1>7. closed' => done' = IF active' = {} THEN 1 ELSE 0
    <2>1. closed => done = 0
      BY <1>1 DEF RenderInv
    <2> QED
      BY <2>1
  <1>8. slots' = Cardinality(active') /\ (~closed' => done' = 0)
    BY <1>2 DEF RenderInv
  <1>9. closed' => active' \subseteq ended'
    BY DEF RenderInv
  <1> QED
    BY <1>2, <1>5, <1>6, <1>7, <1>8, <1>9 DEF RenderInv

\* A call that goes on, and a context that ends, leave slots and registrations alone.
LEMMA CallKeeps ==
    ASSUME RenderInv, NEW c \in Calls,
           Refuse(c) \/ End(c) \/ Capture(c) \/ Fail(c) \/ Paint(c)
    PROVE  RenderInv'
  <1> USE DEF Refuse, End, Capture, Fail, Paint
  <1>1. UNCHANGED <<slots, closed, active, done, closing>>
    OBVIOUS
  <1>2. TypeOK'
    BY <1>1 DEF RenderInv, TypeOK, Answers
  <1>3. active' = {d \in Calls : pc'[d] # "idle"}
    <2>1. \A d \in Calls : pc'[d] # "idle" <=> pc[d] # "idle"
      BY DEF RenderInv, TypeOK
    <2> QED
      BY <1>1, <2>1 DEF RenderInv
  <1>4. ended \subseteq ended'
    OBVIOUS
  <1>5. IsFiniteSet(active') /\ slots' = Cardinality(active')
    BY <1>1 DEF RenderInv
  <1>6. /\ closed' => done' = IF active' = {} THEN 1 ELSE 0
        /\ ~closed' => done' = 0
    BY <1>1 DEF RenderInv
  <1>7. closed' => active' \subseteq ended'
    BY <1>1, <1>4 DEF RenderInv
  <1> QED
    BY <1>2, <1>3, <1>5, <1>6, <1>7 DEF RenderInv

LEMMA CloserKeeps ==
    ASSUME RenderInv, NEW s \in Closers, Closer(s)
    PROVE  RenderInv'
  <1> USE DEF Closer, Shutdown, ShutdownDone, ShutdownExpired
  <1>1. UNCHANGED <<pc, answer, slots, active>>
    OBVIOUS
  <1>2. closing' \in [Closers -> {"idle", "waiting", "drained", "expired"}]
    BY DEF RenderInv, TypeOK
  <1>3. TypeOK'
    <2>1. closed' \in BOOLEAN
      BY Zenon DEF RenderInv, TypeOK
    <2>2. done' \in Nat
      BY DEF RenderInv, TypeOK
    <2>3. ended' \subseteq Calls
      BY DEF RenderInv, TypeOK
    <2> QED
      BY <1>1, <1>2, <2>1, <2>2, <2>3 DEF RenderInv, TypeOK
  <1>4. (closed' => done' = IF active' = {} THEN 1 ELSE 0) /\ (~closed' => done' = 0)
    BY DEF RenderInv
  <1>5. closed' => active' \subseteq ended'
    BY DEF RenderInv
  <1> QED
    BY <1>1, <1>3, <1>4, <1>5 DEF RenderInv

LEMMA StepRender == RenderInv /\ [Next]_vars => RenderInv'
  <1> SUFFICES ASSUME RenderInv, [Next]_vars PROVE RenderInv'
    OBVIOUS
  <1>1. CASE UNCHANGED vars
    BY <1>1 DEF vars, RenderInv, TypeOK
  <1>2. ASSUME NEW c \in Calls, Call(c) PROVE RenderInv'
    BY <1>2, AdmitKeeps, LeaveKeeps, CallKeeps DEF Call
  <1> QED
    BY <1>1, <1>2, CloserKeeps DEF Next

\* Slots, registrations and running calls agree at all times (service.go Render).
THEOREM RenderInvariant == Spec => []RenderInv
  <1> QED
    BY InitRender, StepRender, PTL DEF Spec

\* s.done is never closed a second time, so neither Render nor Shutdown panics.
THEOREM NeverClosedTwice == Spec => []DoneClosedOnce
  <1>1. RenderInv => DoneClosedOnce
    BY DEF RenderInv, DoneClosedOnce
  <1> QED
    BY <1>1, RenderInvariant, PTL

\* After s.done was closed no render runs (service.go Shutdown, main.go run).
THEOREM ClosedIsQuiescent == Spec => []QuiescentWhenDone
  <1>1. RenderInv => QuiescentWhenDone
    BY DEF RenderInv, QuiescentWhenDone
  <1> QED
    BY <1>1, RenderInvariant, PTL

-----------------------------------------------------------------------------
(* The process uses the renderer as RenderService says: every request that      *)
(* renders is a call of it, and run() closes it twice.                          *)

LEMMA ProcessRenders ==
    ASSUME [ProcessNext]_<<vars, processVars>>
    PROVE  [Next]_vars
<1>1. CASE Main
  <2>1. CASE DrainRenders
    BY <2>1, ProcessAssumption DEF DrainRenders, ProcessAssumption, Next, Closer
  <2>2. CASE CleanUp
    BY <2>2, ProcessAssumption DEF CleanUp, ProcessAssumption, Next, Closer
  <2> QED
    BY <1>1, <2>1, <2>2 DEF Main, Bootstrap, EndStreams, CloseMcp, DrainCalls, DrainRequests, Unwind
<1>2. ASSUME NEW r \in Calls, Render(r)
      PROVE  [Next]_vars
  BY <1>2 DEF Render, Next
<1>3. ASSUME NEW r \in Calls,
             \/ \E k \in {"plain", "stream", "mcp"} : Arrive(r, k)
             \/ Gate(r) \/ Finish(r) \/ EnterMcp(r) \/ OpenSession(r)
             \/ \E s \in Calls : StartTool(r, s)
             \/ EndTool(r) \/ LeaveMcp(r) \/ ClientGoes(r)
             \/ SessionEnds(r) \/ CloseSession(r)
      PROVE  UNCHANGED vars
  BY <1>3 DEF Arrive, Gate, Finish, EnterMcp, OpenSession, StartTool, EndTool, LeaveMcp,
              ClientGoes, SessionEnds, CloseSession
<1>4. CASE FailToServe \/ Signal \/ Sweep
  BY <1>4 DEF FailToServe, Signal, Sweep
<1> QED  BY <1>1, <1>2, <1>3, <1>4 DEF ProcessNext

\* The process never uses its renderer in a way the renderer's own invariants do not
\* cover (main.go:137-187, the two calls of Shutdown included).
THEOREM ProcessImplementsRenderer == ProcessSpec => Spec
<1>1. ProcessInit => Init
  BY DEF ProcessInit
<1> QED  BY <1>1, ProcessRenders, PTL DEF ProcessSpec, Spec

-----------------------------------------------------------------------------
(* What a drain that ended without an error has left, stage by stage.           *)

Stages == {"starting", "serving", "ending streams", "draining renders", "draining calls",
           "draining requests", "unwinding", "cleaning up", "closed"}

RequestsDrained == {"unwinding", "cleaning up", "closed"}
CallsDrained == RequestsDrained \union {"draining requests"}
RendersDrained == CallsDrained \union {"draining calls"}

ProcessTypes ==
    /\ stage \in Stages
    /\ at \in [Calls -> {"none", "arrived", "handled", "called", "over"}]
    /\ tool \in [Calls -> Calls \union {None}]
    /\ sweep \in {"none", "first", "calls", "last", "done"}

\* A tool runs in a session that is still there.
ToolsHaveSessions == \A r \in Calls : tool[r] # None => tool[r] \in sessions

\* The sweep begins when no call enters any more, and its second pass begins when those
\* that had entered are gone: what it finds then is all there will ever be.
SweepFollowsCalls ==
    /\ sweep # "none" => mcpClosed
    /\ sweep \in {"last", "done"} => \A r \in Calls : at[r] # "called"
    /\ sweep = "last" => sessions \subseteq swept
    /\ sweep = "done" => sessions = {}

NothingIsAdmitted == stage \in {"cleaning up", "closed"} => ~ready /\ ~listening

DrainsHold ==
    ~failed =>
        /\ stage \in RendersDrained => done > 0
        /\ stage \in CallsDrained => sweep = "done"
        /\ stage \in RequestsDrained => ~listening /\ InFlight = {}

ProcessInv ==
    /\ RenderInv
    /\ ProcessTypes
    /\ ToolsHaveSessions
    /\ SweepFollowsCalls
    /\ NothingIsAdmitted
    /\ DrainsHold

LEMMA InitProcess == ProcessInit => ProcessInv
<1> SUFFICES ASSUME ProcessInit PROVE ProcessInv
  OBVIOUS
<1>1. RenderInv
  BY InitRender DEF ProcessInit
<1>2. ProcessTypes
  BY DEF ProcessInit, ProcessTypes, Stages
<1>3. ToolsHaveSessions
  BY DEF ProcessInit, ToolsHaveSessions
<1>4. SweepFollowsCalls /\ NothingIsAdmitted
  BY DEF ProcessInit, SweepFollowsCalls, NothingIsAdmitted
<1>5. DrainsHold
  BY DEF ProcessInit, DrainsHold, RendersDrained, CallsDrained, RequestsDrained
<1> QED  BY <1>1, <1>2, <1>3, <1>4, <1>5 DEF ProcessInv

\* A drained renderer stays drained.
LEMMA DoneStays ==
    ASSUME RenderInv, [Next]_vars
    PROVE  done > 0 => done' > 0
<1>1. done \in Nat
  BY DEF RenderInv, TypeOK
<1>2. CASE UNCHANGED vars
  BY <1>2 DEF vars
<1>3. ASSUME NEW c \in Calls, Call(c)
      PROVE  done > 0 => done' > 0
  BY <1>1, <1>3 DEF Call, Refuse, Admit, End, Capture, Fail, Paint, Leave
<1>4. ASSUME NEW s \in Closers, Closer(s)
      PROVE  done > 0 => done' > 0
  BY <1>1, <1>4 DEF Closer, Shutdown, ShutdownDone, ShutdownExpired
<1> QED  BY <1>2, <1>3, <1>4 DEF Next

\* A request that moves on without entering the MCP transport.
LEMMA RequestKeeps ==
    ASSUME ProcessInv, RenderInv', done > 0 => done' > 0, NEW r \in Calls,
           \/ \E k \in {"plain", "stream", "mcp"} : Arrive(r, k)
           \/ Gate(r) \/ Finish(r) \/ LeaveMcp(r) \/ ClientGoes(r) \/ EnterMcp(r)
    PROVE  ProcessInv'
<1> USE DEF Arrive, Gate, Finish, LeaveMcp, ClientGoes, EnterMcp, Goes, mainVars
<1>1. UNCHANGED <<mainVars, sessions, tool>>
  OBVIOUS
<1>2. ProcessTypes'
  BY DEF ProcessInv, ProcessTypes
<1>3. ToolsHaveSessions'
  BY <1>1 DEF ProcessInv, ToolsHaveSessions
<1>4. \A q \in Calls : at'[q] = "called" => at[q] = "called" \/ ~mcpClosed
  BY DEF ProcessInv, ProcessTypes
<1>5. SweepFollowsCalls'
  BY <1>1, <1>4 DEF ProcessInv, SweepFollowsCalls
<1>6. ~listening => InFlight' \subseteq InFlight
  BY DEF ProcessInv, ProcessTypes, InFlight
<1>7. DrainsHold'
  BY <1>1, <1>6 DEF ProcessInv, DrainsHold
<1>8. NothingIsAdmitted'
  BY <1>1 DEF ProcessInv, NothingIsAdmitted
<1> QED  BY <1>2, <1>3, <1>5, <1>7, <1>8 DEF ProcessInv

\* Sessions are opened by calls that have entered; tools begin and end in them.
LEMMA SessionKeeps ==
    ASSUME ProcessInv, RenderInv', done > 0 => done' > 0, NEW r \in Calls,
           \/ OpenSession(r) \/ SessionEnds(r) \/ CloseSession(r)
           \/ \E s \in Calls : StartTool(r, s)
           \/ EndTool(r) \/ Render(r)
    PROVE  ProcessInv'
<1> USE DEF OpenSession, SessionEnds, CloseSession, StartTool, EndTool, Render, mainVars, processVars
<1>1. UNCHANGED <<at, stage, failed, ready, listening, mcpClosed, sweep>>
  OBVIOUS
<1>2. ProcessTypes'
  BY <1>1 DEF ProcessInv, ProcessTypes
<1>3. ToolsHaveSessions'
  BY DEF ProcessInv, ProcessTypes, ToolsHaveSessions
<1>4. sweep \in {"last", "done"} => sessions' \subseteq sessions
  BY DEF ProcessInv, SweepFollowsCalls
<1>5. sweep = "last" => sessions' \subseteq swept'
  BY DEF ProcessInv, SweepFollowsCalls
<1>6. SweepFollowsCalls'
  BY <1>1, <1>4, <1>5 DEF ProcessInv, SweepFollowsCalls
<1>7. DrainsHold'
  BY <1>1 DEF ProcessInv, DrainsHold, InFlight
<1>8. NothingIsAdmitted'
  BY <1>1 DEF ProcessInv, NothingIsAdmitted
<1> QED  BY <1>2, <1>3, <1>6, <1>7, <1>8 DEF ProcessInv

LEMMA SweepKeeps ==
    ASSUME ProcessInv, RenderInv', done > 0 => done' > 0, Sweep
    PROVE  ProcessInv'
<1> USE DEF Sweep, AfterCalls, requestVars
<1>1. UNCHANGED <<at, tool, sessions, stage, failed, ready, listening, mcpClosed>>
  OBVIOUS
<1>2. ProcessTypes' /\ ToolsHaveSessions'
  BY <1>1 DEF ProcessInv, ProcessTypes, ToolsHaveSessions
<1>3. SweepFollowsCalls'
  BY <1>1 DEF ProcessInv, SweepFollowsCalls
<1>4. DrainsHold'
  BY <1>1 DEF ProcessInv, DrainsHold, InFlight
<1>5. stage' = stage /\ (ready' <=> ready) /\ (listening' <=> listening)
  BY <1>1
<1> HIDE DEF Sweep
<1>6. NothingIsAdmitted'
  BY <1>5, Zenon DEF ProcessInv, NothingIsAdmitted
<1> QED  BY <1>2, <1>3, <1>4, <1>6 DEF ProcessInv

\* run() goes on to the next stage when its drain has ended without an error.
LEMMA MainKeeps ==
    ASSUME ProcessInv, RenderInv', done > 0 => done' > 0, Main \/ FailToServe \/ Signal
    PROVE  ProcessInv'
<1> USE DEF Main, Bootstrap, EndStreams, DrainRenders, CloseMcp, DrainCalls, DrainRequests,
            Unwind, CleanUp, FailToServe, Signal, Reach, Give, requestVars
<1>1. UNCHANGED <<at, tool, sessions>>
  OBVIOUS
<1>2. ProcessTypes'
  BY <1>1 DEF ProcessInv, ProcessTypes, Stages
<1>3. ToolsHaveSessions'
  BY <1>1 DEF ProcessInv, ToolsHaveSessions
<1>4. SweepFollowsCalls'
  BY <1>1 DEF ProcessInv, SweepFollowsCalls
<1>5. NothingIsAdmitted'
  BY DEF ProcessInv, NothingIsAdmitted
<1>6. DrainsHold'
  <2> SUFFICES ASSUME ~failed' PROVE DrainsHold'
    BY DEF DrainsHold
  <2>1. stage' \in RendersDrained => done' > 0
    BY DEF ProcessInv, DrainsHold, RendersDrained, CallsDrained, RequestsDrained, ShutdownDone
  <2>2. stage' \in CallsDrained => sweep' = "done"
    BY DEF ProcessInv, DrainsHold, CallsDrained, RequestsDrained, SweepFollowsCalls
  <2>3. stage' \in RequestsDrained => ~listening' /\ InFlight' = {}
    BY <1>1 DEF ProcessInv, DrainsHold, RequestsDrained, InFlight
  <2> QED  BY <2>1, <2>2, <2>3 DEF DrainsHold
<1> QED  BY <1>2, <1>3, <1>4, <1>5, <1>6 DEF ProcessInv

LEMMA StepProcess == ProcessInv /\ [ProcessNext]_<<vars, processVars>> => ProcessInv'
<1> SUFFICES ASSUME ProcessInv, [ProcessNext]_<<vars, processVars>> PROVE ProcessInv'
  OBVIOUS
<1>1. RenderInv' /\ (done > 0 => done' > 0)
  BY ProcessRenders, StepRender, DoneStays DEF ProcessInv
<1>2. CASE UNCHANGED <<vars, processVars>>
  BY <1>1, <1>2 DEF processVars, ProcessInv, ProcessTypes, ToolsHaveSessions, SweepFollowsCalls,
                    NothingIsAdmitted, DrainsHold, InFlight, vars
<1> QED  BY <1>1, <1>2, RequestKeeps, SessionKeeps, SweepKeeps, MainKeeps DEF ProcessNext

\* The inductive invariant of the process (main.go run, handler.go Shutdown).
THEOREM ProcessInvariant == ProcessSpec => []ProcessInv
<1> QED  BY InitProcess, StepProcess, PTL DEF ProcessSpec

\* A process that has stopped without an error has left no request, tool, session or
\* render behind, and it admits nothing whichever way it stops (main.go:137-187).
THEOREM StopsQuietly == ProcessSpec => []StoppedIsQuiet
<1>1. ProcessInv => StoppedIsQuiet
  <2> SUFFICES ASSUME ProcessInv, stage = "closed"
               PROVE  /\ ~ready /\ ~listening
                      /\ ~failed => /\ InFlight = {} /\ active = {}
                                    /\ sessions = {} /\ \A r \in Calls : tool[r] = None
    BY DEF StoppedIsQuiet
  <2>1. ~ready /\ ~listening
    BY DEF ProcessInv, NothingIsAdmitted
  <2>2. ~failed => InFlight = {} /\ sweep = "done" /\ done > 0
    BY DEF ProcessInv, DrainsHold, RendersDrained, CallsDrained, RequestsDrained
  <2>3. ~failed => active = {}
    BY <2>2 DEF ProcessInv, RenderInv
  <2>4. ~failed => sessions = {} /\ \A r \in Calls : tool[r] = None
    BY <2>2 DEF ProcessInv, SweepFollowsCalls, ToolsHaveSessions
  <2> QED  BY <2>1, <2>2, <2>3, <2>4
<1> QED  BY <1>1, ProcessInvariant, PTL

=============================================================================
