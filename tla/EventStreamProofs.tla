-------------------------- MODULE EventStreamProofs --------------------------
(* The stream's inductive invariant and what follows from it, for every number  *)
(* of clients, every buffer and page size and every bound.                      *)
EXTENDS EventStream, SequenceTheorems, TLAPS

\* What appending one element to a channel or to the frames in flight does.
LEMMA AppendOne ==
    ASSUME NEW S, NEW s \in Seq(S), NEW x \in S
    PROVE  /\ Append(s, x) \in Seq(S)
           /\ Len(Append(s, x)) = Len(s) + 1
           /\ \A i \in 1..Len(s) : Append(s, x)[i] = s[i]
           /\ Append(s, x)[Len(s) + 1] = x
  OBVIOUS

\* What taking the first element off does.
LEMMA TakeOne ==
    ASSUME NEW S, NEW s \in Seq(S), s # <<>>
    PROVE  /\ Tail(s) \in Seq(S)
           /\ Len(s) \in Nat \ {0}
           /\ Len(Tail(s)) = Len(s) - 1
           /\ \A i \in 1..(Len(s) - 1) : Tail(s)[i] = s[i + 1]
           /\ Head(s) = s[1]
           /\ Head(s) \in S
  OBVIOUS

\* Nothing of client c changed in a step.
ClientUnchanged(c) ==
    /\ pc'[c] = pc[c] /\ lastSent'[c] = lastSent[c] /\ pageEnd'[c] = pageEnd[c]
    /\ short'[c] = short[c] /\ pending'[c] = pending[c] /\ held'[c] = held[c]
    /\ sub'[c] = sub[c] /\ buf'[c] = buf[c] /\ wire'[c] = wire[c]
    /\ url'[c] = url[c] /\ lastEventId'[c] = lastEventId[c]
    /\ cursor'[c] = cursor[c] /\ floor'[c] = floor[c] /\ seen'[c] = seen[c]
    /\ openedAt'[c] = openedAt[c]

\* A step that touches neither the log nor the client keeps the client's invariant.
LEMMA Frame ==
    ASSUME NEW c \in Clients, ClientInv(c), ClientUnchanged(c), UNCHANGED <<head, unpublished,
                                                                            unannounced>>
    PROVE  ClientInv(c)'
  BY DEF ClientInv, ClientUnchanged, CursorInv, WireInv, HandlerInv, CoverInv, CoveredAfter,
         Serving, Buffered

\* What type correctness says of one client, in the terms the provers compute with.
LEMMA Typed ==
    ASSUME TypeOK, NEW c \in Clients
    PROVE  /\ MaxPosition \in Nat /\ head \in Nat /\ head <= MaxPosition
           /\ lastSent[c] \in Int /\ -1 <= lastSent[c] /\ lastSent[c] <= MaxPosition
           /\ url[c] \in Int /\ -1 <= url[c] /\ url[c] <= MaxPosition
           /\ lastEventId[c] \in Int /\ -1 <= lastEventId[c] /\ lastEventId[c] <= MaxPosition
           /\ cursor[c] \in Int /\ -1 <= cursor[c] /\ cursor[c] <= MaxPosition
           /\ floor[c] \in Int /\ -1 <= floor[c] /\ floor[c] <= MaxPosition
           /\ openedAt[c] \in Int /\ -1 <= openedAt[c] /\ openedAt[c] <= MaxPosition
           /\ pageEnd[c] \in Nat /\ held[c] \in Nat /\ held[c] <= MaxPosition
           /\ wire[c] \in Seq(Positions) /\ buf[c] \in Seq(Positions)
           /\ seen[c] \subseteq Positions
           /\ pc[c] \in PcStates /\ sub[c] \in {"none", "attached", "closed"}
           /\ short[c] \in BOOLEAN /\ pending[c] \in BOOLEAN
  <1>1. MaxPosition \in Nat
    BY ConstantsAssumption DEF ConstantsAssumption
  <1>2. \A x \in Cursors : x \in Int /\ -1 <= x /\ x <= MaxPosition
    BY <1>1 DEF Cursors, liveOnly
  <1> QED
    BY <1>1, <1>2 DEF TypeOK

\* The values a cursor takes.
LEMMA CursorRange ==
    ASSUME NEW x \in Int, -1 <= x, x <= MaxPosition
    PROVE  x \in Cursors
  BY DEF Cursors, liveOnly

LEMMA InitInv == Init => StreamInv
  <1> SUFFICES ASSUME Init PROVE StreamInv
    OBVIOUS
  <1>1. TypeOK
    <2>0. MaxPosition \in Nat /\ InitialHead \in Nat /\ InitialHead <= MaxPosition
          /\ MaxFaults \in Nat /\ Buffer \in Nat
      BY ConstantsAssumption DEF ConstantsAssumption
    <2>1. head \in 0..MaxPosition /\ faults \in 0..MaxFaults
      BY <2>0 DEF Init
    <2>7. unpublished \subseteq 1..head /\ unannounced \subseteq 1..head /\ shutdown \in BOOLEAN
      BY DEF Init
    <2>2. /\ buf \in [Clients -> Seq(Positions)]
          /\ wire \in [Clients -> Seq(Positions)]
      BY DEF Init
    <2>6. \A c \in Clients : Len(buf[c]) <= Buffer
      <3> SUFFICES ASSUME NEW c \in Clients PROVE Len(buf[c]) <= Buffer
        OBVIOUS
      <3>1. buf[c] = <<>>
        BY DEF Init
      <3> QED BY <2>0, <3>1
    <2>3. /\ pc \in [Clients -> PcStates]
          /\ sub \in [Clients -> {"none", "attached", "closed"}]
          /\ short \in [Clients -> BOOLEAN]
          /\ pending \in [Clients -> BOOLEAN]
          /\ seen \in [Clients -> SUBSET Positions]
      BY DEF Init, PcStates
    <2>4. /\ lastSent \in [Clients -> Cursors]
          /\ url \in [Clients -> Cursors]
          /\ lastEventId \in [Clients -> Cursors]
          /\ cursor \in [Clients -> Cursors]
          /\ floor \in [Clients -> Cursors]
          /\ openedAt \in [Clients -> Cursors]
      BY DEF Init, Cursors
    <2>5. /\ pageEnd \in [Clients -> 0..MaxPosition]
          /\ held \in [Clients -> 0..MaxPosition]
      BY ConstantsAssumption DEF ConstantsAssumption, Init, NoEvent
    <2> QED
      BY <2>1, <2>2, <2>3, <2>4, <2>5, <2>6, <2>7 DEF TypeOK
  <1>2. ASSUME NEW c \in Clients PROVE ClientInv(c)
    BY <1>1 DEF Init, TypeOK, ClientInv, CursorInv, WireInv, HandlerInv, CoverInv, Serving,
                Cursors, liveOnly
  <1> QED
    BY <1>1, <1>2 DEF StreamInv

LEMMA ConnectStep ==
    ASSUME StreamInv, NEW c \in Clients, Connect(c)
    PROVE  StreamInv'
  <1> USE DEF vars, logVars, handlerVars, subVars, sourceVars, clientVars
  <1>1. TypeOK'
    <2>1. pc' \in [Clients -> PcStates]
      BY DEF StreamInv, TypeOK, Connect, PcStates
    <2>2. /\ url' \in [Clients -> Cursors]
          /\ lastEventId' \in [Clients -> Cursors]
          /\ lastSent' \in [Clients -> Cursors]
      BY DEF StreamInv, TypeOK, Connect, Request, StartPosition, Cursors, liveOnly
    <2>3. wire' \in [Clients -> Seq(Positions)]
      BY DEF StreamInv, TypeOK, Connect
    <2> QED
      BY <2>1, <2>2, <2>3 DEF StreamInv, TypeOK, Connect
  <1>2. ClientInv(c)'
    <2>1. CursorInv(c)'
      BY DEF StreamInv, TypeOK, ClientInv, CursorInv, Connect, Request, StartPosition,
             Cursors, liveOnly
    <2>2. WireInv(c)'
      BY DEF StreamInv, TypeOK, ClientInv, CursorInv, WireInv, Connect, Request,
             StartPosition, Cursors, liveOnly
    <2>3. HandlerInv(c)'
      BY DEF StreamInv, TypeOK, ClientInv, HandlerInv, Serving, Connect, Request
    <2>4. CoverInv(c)'
      BY DEF StreamInv, TypeOK, ClientInv, HandlerInv, CoverInv, Serving, Connect, Request
    <2> QED BY <2>1, <2>2, <2>3, <2>4 DEF ClientInv
  <1>3. ASSUME NEW d \in Clients, d # c PROVE ClientInv(d)'
    BY <1>3, Frame DEF StreamInv, TypeOK, Connect, Request, ClientUnchanged
  <1> QED
    BY <1>1, <1>2, <1>3 DEF StreamInv

LEMMA ReceiveStep ==
    ASSUME StreamInv, NEW c \in Clients, Receive(c)
    PROVE  StreamInv'
  <1> USE DEF vars, logVars, handlerVars, subVars, sourceVars, clientVars
  <1> DEFINE p == Head(wire[c])
             n == Len(wire[c])
  <1>1. TypeOK /\ ClientInv(c)
    BY DEF StreamInv
  <1>2. CursorInv(c) /\ WireInv(c) /\ HandlerInv(c) /\ CoverInv(c)
    BY <1>1 DEF ClientInv
  <1>3. /\ wire[c] # <<>>
        /\ wire'[c] = Tail(wire[c])
        /\ lastEventId'[c] = p
        /\ cursor'[c] = IF Known(c, p) THEN cursor[c] ELSE p
        /\ floor'[c] = IF ~Known(c, p) /\ cursor[c] = liveOnly THEN p - 1 ELSE floor[c]
        /\ seen'[c] = IF Known(c, p) THEN seen[c] ELSE seen[c] \union {p}
        /\ lastSent' = lastSent /\ pc' = pc /\ url' = url /\ head' = head
    BY <1>1 DEF TypeOK, Receive
  <1>4. /\ wire'[c] \in Seq(Positions)
        /\ n \in Nat \ {0}
        /\ Len(wire'[c]) = n - 1
        /\ \A i \in 1..(n - 1) : wire'[c][i] = wire[c][i + 1]
        /\ p = wire[c][1]
        /\ p \in Positions
    BY <1>1, <1>3, Typed, TakeOne
  <1>5. p \in Nat \ {0} /\ p <= head /\ p <= MaxPosition
    BY <1>1, <1>2, <1>4, Typed DEF WireInv, Positions
  <1>6. p = lastSent[c] - n + 1
    BY <1>2, <1>4 DEF WireInv
  <1>7. cursor[c] # liveOnly => p <= cursor[c] + 1
    BY <1>1, <1>2, <1>3, <1>4, <1>6, Typed DEF WireInv
  <1>8. ClientInv(c)'
    <2>1. CursorInv(c)'
      <3>1. CASE Known(c, p)
        BY <1>1, <1>2, <1>3, <1>5, <3>1, Typed DEF CursorInv, Known, liveOnly
      <3>2. CASE ~Known(c, p) /\ cursor[c] = liveOnly
        <4>1. seen[c] = {}
          BY <1>1, <1>2, <3>2, Typed DEF CursorInv, liveOnly
        <4>2. seen'[c] = (floor'[c] + 1)..cursor'[c]
          BY <1>3, <1>5, <3>2, <4>1
        <4>3. lastSent[c] # liveOnly
          BY <1>1, <1>4, <1>5, <1>6, Typed DEF liveOnly
        <4>4. url'[c] <= cursor'[c] /\ lastEventId'[c] <= cursor'[c] /\ floor'[c] <= cursor'[c]
          BY <1>1, <1>2, <1>3, <1>5, <3>2, Typed DEF CursorInv, Known
        <4>5. lastEventId'[c] # liveOnly
          BY <1>3, <1>5 DEF liveOnly
        <4> QED
          BY <1>3, <4>2, <4>3, <4>4, <4>5 DEF CursorInv
      <3>3. CASE ~Known(c, p) /\ cursor[c] # liveOnly
        <4>1. p = cursor[c] + 1
          BY <1>1, <1>5, <1>7, <3>3, Typed DEF Known
        <4>2. seen'[c] = (floor'[c] + 1)..cursor'[c]
          BY <1>1, <1>2, <1>3, <3>3, <4>1, Typed DEF CursorInv
        <4>3. lastSent[c] # liveOnly
          BY <1>1, <1>4, <1>5, <1>6, Typed DEF liveOnly
        <4>4. url'[c] <= cursor'[c] /\ lastEventId'[c] <= cursor'[c] /\ floor'[c] <= cursor'[c]
          BY <1>1, <1>2, <1>3, <1>5, <3>3, <4>1, Typed DEF CursorInv, Known
        <4>5. lastEventId'[c] # liveOnly
          BY <1>3, <1>5 DEF liveOnly
        <4> QED
          BY <1>3, <4>2, <4>3, <4>4, <4>5 DEF CursorInv
      <3> QED BY <3>1, <3>2, <3>3
    <2>2. WireInv(c)'
      <3>1. lastSent[c] - (n - 1) <= cursor'[c]
        BY <1>1, <1>3, <1>4, <1>5, <1>6, Typed DEF Known
      <3>2. \A i \in 1..(n - 1) : i + 1 \in 1..n
        BY <1>4
      <3>3. \A i \in 1..(n - 1) : wire'[c][i] = lastSent[c] - (n - 1) + i
        BY <1>1, <1>2, <1>4, <3>2, Typed DEF WireInv
      <3>4. \A i \in 1..(n - 1) : wire'[c][i] <= head
        BY <1>2, <1>4, <3>2 DEF WireInv
      <3>5. pc[c] \notin {"resolve", "subscribe"}
        BY <1>2, <1>3 DEF WireInv
      <3> QED
        BY <1>3, <1>4, <3>1, <3>3, <3>4, <3>5 DEF WireInv
    <2>3. HandlerInv(c)'
      BY <1>2 DEF HandlerInv, Serving, Receive
    <2>4. CoverInv(c)'
      BY <1>2 DEF CoverInv, CoveredAfter, Buffered, Receive
    <2> QED BY <2>1, <2>2, <2>3, <2>4 DEF ClientInv
  <1>9. TypeOK'
    <2>1. cursor'[c] \in Cursors /\ floor'[c] \in Cursors /\ lastEventId'[c] \in Cursors
      BY <1>1, <1>3, <1>5, Typed, CursorRange
    <2>2. seen'[c] \in SUBSET Positions
      BY <1>1, <1>3, <1>4, Typed
    <2> QED
      BY <1>1, <1>3, <1>4, <2>1, <2>2 DEF TypeOK, Receive
  <1>10. ASSUME NEW d \in Clients, d # c PROVE ClientInv(d)'
    BY <1>1, <1>10, Frame DEF StreamInv, TypeOK, Receive, ClientUnchanged
  <1> QED
    BY <1>8, <1>9, <1>10 DEF StreamInv

\* A handler that returns, for whatever reason, leaves the frames it wrote behind
\* or loses them.
LEMMA ReturnStep ==
    ASSUME StreamInv, NEW c \in Clients, Return(c),
           UNCHANGED <<logVars, lastSent, pageEnd, short, pending, sourceVars, clientVars,
                       openedAt>>,
           faults' \in 0..MaxFaults,
           wire' \in {wire, [wire EXCEPT ![c] = <<>>]}
    PROVE  StreamInv'
  <1> USE DEF logVars, sourceVars, clientVars
  <1>1. TypeOK /\ ClientInv(c)
    BY DEF StreamInv
  <1>2. /\ pc'[c] = "idle" /\ sub'[c] = "none" /\ buf'[c] = <<>> /\ held'[c] = NoEvent
        /\ wire'[c] \in {wire[c], <<>>}
    BY <1>1 DEF TypeOK, Return
  <1>3. CursorInv(c)'
    BY <1>1, <1>2 DEF ClientInv, CursorInv
  <1>4. WireInv(c)'
    <2>1. CASE wire'[c] = wire[c]
      BY <1>1, <1>2, <2>1 DEF ClientInv, WireInv
    <2>2. CASE wire'[c] = <<>>
      BY <1>2, <2>2 DEF WireInv
    <2> QED BY <1>2, <2>1, <2>2
  <1>5. HandlerInv(c)'
    BY <1>2 DEF HandlerInv, Serving
  <1>6. CoverInv(c)'
    BY <1>2 DEF CoverInv
  <1>7. TypeOK'
    <2>1. wire' \in [Clients -> Seq(Positions)]
      <3>1. wire \in [Clients -> Seq(Positions)]
        BY <1>1 DEF TypeOK
      <3>2. [wire EXCEPT ![c] = <<>>] \in [Clients -> Seq(Positions)]
        BY <3>1
      <3> QED BY <3>1, <3>2
    <2>2. pc' \in [Clients -> PcStates] /\ sub' \in [Clients -> {"none", "attached", "closed"}]
      BY <1>1 DEF TypeOK, Return, PcStates
    <2>3. buf' \in [Clients -> Seq(Positions)]
      BY <1>1 DEF TypeOK, Return
    <2>4. \A d \in Clients : Len(buf'[d]) <= Buffer
      <3> SUFFICES ASSUME NEW d \in Clients PROVE Len(buf'[d]) <= Buffer
        OBVIOUS
      <3>1. CASE d = c
        <4>1. Buffer \in Nat
          BY ConstantsAssumption DEF ConstantsAssumption
        <4> QED BY <1>2, <3>1, <4>1
      <3>2. CASE d # c
        BY <1>1, <3>2 DEF TypeOK, Return
      <3> QED BY <3>1, <3>2
    <2>5. held' \in [Clients -> 0..MaxPosition]
      <3>1. MaxPosition \in Nat
        BY ConstantsAssumption DEF ConstantsAssumption
      <3> QED
        BY <1>1, <3>1 DEF TypeOK, Return, NoEvent
    <2> QED
      BY <1>1, <2>1, <2>2, <2>3, <2>4, <2>5 DEF TypeOK
  <1>8. ASSUME NEW d \in Clients, d # c PROVE ClientInv(d)'
    BY <1>1, <1>8, Frame DEF StreamInv, TypeOK, Return, ClientUnchanged
  <1> QED
    BY <1>1, <1>3, <1>4, <1>5, <1>6, <1>7, <1>8 DEF StreamInv, ClientInv

LEMMA ReturnActions ==
    ASSUME StreamInv, NEW c \in Clients,
           LiveClosed(c) \/ ReadFails(c) \/ Disconnect(c)
    PROVE  StreamInv'
  <1>1. faults \in 0..MaxFaults /\ MaxFaults \in Nat
    BY ConstantsAssumption DEF ConstantsAssumption, StreamInv, TypeOK
  <1>2. Return(c)
    BY DEF LiveClosed, ReadFails, Disconnect
  <1>3. UNCHANGED <<logVars, lastSent, pageEnd, short, pending, sourceVars, clientVars,
                    openedAt>>
    BY DEF LiveClosed, ReadFails, Disconnect
  <1>4. faults' \in 0..MaxFaults
    BY <1>1 DEF LiveClosed, ReadFails, Disconnect
  <1>5. wire' \in {wire, [wire EXCEPT ![c] = <<>>]}
    BY DEF LiveClosed, ReadFails, Disconnect
  <1> QED
    BY <1>2, <1>3, <1>4, <1>5, ReturnStep

\* Sending the successor of lastSent, or the first event of a stream without a
\* baseline, keeps the frames in flight consecutive.
LEMMA SendStep ==
    ASSUME TypeOK, NEW c \in Clients, NEW p \in Positions, WireInv(c), CursorInv(c),
           Send(c, p), p <= head, head' = head, cursor' = cursor,
           Serving(c), Serving(c)',
           lastSent[c] # liveOnly => p = lastSent[c] + 1
    PROVE  /\ WireInv(c)'
           /\ wire' \in [Clients -> Seq(Positions)]
           /\ lastSent' \in [Clients -> Cursors]
           /\ lastSent'[c] = p
           /\ \A d \in Clients \ {c} : wire'[d] = wire[d] /\ lastSent'[d] = lastSent[d]
  <1> DEFINE n == Len(wire[c])
  <1>1. /\ wire'[c] = Append(wire[c], p)
        /\ lastSent'[c] = p
        /\ \A d \in Clients \ {c} : wire'[d] = wire[d] /\ lastSent'[d] = lastSent[d]
    BY DEF TypeOK, Send
  <1>2. /\ wire'[c] \in Seq(Positions)
        /\ Len(wire'[c]) = n + 1
        /\ \A i \in 1..n : wire'[c][i] = wire[c][i]
        /\ wire'[c][n + 1] = p
        /\ n \in Nat
    <2>1. wire[c] \in Seq(Positions)
      BY Typed
    <2> QED BY <1>1, <2>1, AppendOne
  <1>3. p \in Nat \ {0} /\ p <= MaxPosition
    BY Typed DEF Positions
  <1>4. lastSent[c] = liveOnly => n = 0
    <2> SUFFICES ASSUME lastSent[c] = liveOnly, n # 0 PROVE FALSE
      OBVIOUS
    <2>1. n \in 1..n /\ wire[c][n] \in Positions
      BY <1>2, Typed
    <2>2. wire[c][n] = lastSent[c] - n + n
      BY <2>1 DEF WireInv
    <2> QED
      BY <1>2, <2>1, <2>2 DEF liveOnly, Positions
  <1>5. \A i \in 1..(n + 1) : i \in 1..n \/ i = n + 1
    BY <1>2
  <1>6. \A i \in 1..(n + 1) : wire'[c][i] = p - (n + 1) + i
    <2> SUFFICES ASSUME NEW i \in 1..(n + 1) PROVE wire'[c][i] = p - (n + 1) + i
      OBVIOUS
    <2>1. CASE i = n + 1
      BY <1>2, <1>3, <2>1
    <2>2. CASE i \in 1..n
      <3>1. lastSent[c] # liveOnly
        BY <1>2, <1>4, <2>2
      <3>2. wire[c][i] = lastSent[c] - n + i
        BY <2>2 DEF WireInv
      <3> QED
        BY <1>2, <2>2, <3>1, <3>2, Typed
    <2> QED BY <1>5, <2>1, <2>2
  <1>7. \A i \in 1..(n + 1) : wire'[c][i] <= head
    BY <1>2, <1>5 DEF WireInv
  <1>8. cursor[c] # liveOnly => p - (n + 1) <= cursor[c]
    <2> SUFFICES ASSUME cursor[c] # liveOnly PROVE p - (n + 1) <= cursor[c]
      OBVIOUS
    <2>1. lastSent[c] # liveOnly
      BY DEF CursorInv, Serving
    <2>2. lastSent[c] - n <= cursor[c]
      BY DEF WireInv, Serving
    <2> QED
      BY <1>2, <1>3, <2>1, <2>2, Typed
  <1>9. pc'[c] \notin {"resolve", "subscribe"}
    BY DEF Serving
  <1>10. WireInv(c)'
    BY <1>1, <1>2, <1>6, <1>7, <1>8, <1>9 DEF WireInv
  <1>11. p \in Cursors
    BY <1>3, CursorRange
  <1> QED
    BY <1>1, <1>2, <1>10, <1>11 DEF TypeOK, Send

LEMMA ResolveStep ==
    ASSUME StreamInv, NEW c \in Clients, Resolve(c)
    PROVE  StreamInv'
  <1> USE DEF logVars, subVars, sourceVars, clientVars
  <1>1. TypeOK /\ ClientInv(c) /\ pc[c] = "resolve"
    BY DEF StreamInv, Resolve
  <1>2. CASE head = 0
    <2>1. Return(c) /\ wire' \in {wire, [wire EXCEPT ![c] = <<>>]} /\ faults' \in 0..MaxFaults
      BY <1>1, <1>2 DEF Resolve, TypeOK
    <2> QED
      BY <1>2, <2>1, ReturnStep DEF Resolve
  <1>3. CASE head # 0
    <2>1. /\ lastSent'[c] = ClampedStart(c)
          /\ pc'[c] = "subscribe"
          /\ UNCHANGED <<sub, buf, held>>
      BY <1>1, <1>3 DEF Resolve, TypeOK
    <2>2. /\ lastSent'[c] \in Int /\ lastSent'[c] <= lastSent[c] /\ lastSent'[c] <= head
          /\ -1 <= lastSent'[c]
          /\ lastSent'[c] = -1 => lastSent[c] = -1
      BY <1>1, <1>3, <2>1, Typed DEF ClampedStart, Min2
    <2>3. CursorInv(c)'
      BY <1>1, <2>1, <2>2 DEF ClientInv, CursorInv, Resolve, liveOnly
    <2>4. WireInv(c)'
      <3>1. wire'[c] = <<>> /\ wire[c] = <<>>
        BY <1>1 DEF Resolve, ClientInv, WireInv
      <3>2. cursor[c] # liveOnly => lastSent[c] - 0 <= cursor[c]
        BY <1>1, <3>1 DEF ClientInv, WireInv
      <3>3. cursor[c] # liveOnly => lastSent'[c] - 0 <= cursor[c]
        BY <1>1, <2>2, <3>2, Typed
      <3> QED
        BY <3>1, <3>3 DEF WireInv, Resolve
    <2>5. HandlerInv(c)'
      BY <1>1, <2>1, <2>2 DEF ClientInv, HandlerInv, Serving, Resolve
    <2>6. CoverInv(c)'
      BY <1>1, <2>1 DEF ClientInv, HandlerInv, CoverInv, Serving
    <2>7. TypeOK'
      <3>1. lastSent'[c] \in Cursors
        BY <1>1, <2>2, Typed, CursorRange
      <3> QED
        BY <1>1, <1>3, <3>1 DEF TypeOK, Resolve, PcStates
    <2>8. ASSUME NEW d \in Clients, d # c PROVE ClientInv(d)'
      BY <1>1, <1>3, <2>8, Frame DEF StreamInv, TypeOK, Resolve, ClientUnchanged
    <2> QED
      BY <2>3, <2>4, <2>5, <2>6, <2>7, <2>8 DEF StreamInv, ClientInv
  <1> QED BY <1>2, <1>3

LEMMA SubscribeStep ==
    ASSUME StreamInv, NEW c \in Clients, Subscribe(c)
    PROVE  StreamInv'
  <1> USE DEF logVars, sourceVars, clientVars
  <1>1. TypeOK /\ ClientInv(c) /\ pc[c] = "subscribe"
    BY DEF StreamInv, Subscribe
  <1>2. /\ sub'[c] \in {"attached", "closed"}
        /\ pc'[c] = IF lastSent[c] = liveOnly THEN "live" ELSE "replay"
        /\ openedAt'[c] = IF lastSent[c] = liveOnly THEN head ELSE liveOnly
    BY <1>1 DEF TypeOK, Subscribe
  <1>3. /\ UNCHANGED <<head, unpublished, unannounced, lastSent, buf, wire, url, lastEventId,
                       cursor, floor, seen>>
    BY DEF Subscribe
  <1>4. CursorInv(c)'
    BY <1>1, <1>2, <1>3 DEF ClientInv, CursorInv
  <1>5. WireInv(c)'
    BY <1>1, <1>2, <1>3 DEF ClientInv, WireInv
  <1>6. HandlerInv(c)'
    BY <1>1, <1>2, <1>3 DEF ClientInv, HandlerInv, Serving
  <1>7. CoverInv(c)'
    <2>1. pc'[c] = "live" => openedAt'[c] = head
      BY <1>2
    <2>2. pc'[c] = "live" => CoveredAfter(c, lastSent[c])'
      BY <1>1, <1>3, <2>1, Typed DEF CoveredAfter
    <2> QED
      BY <1>2, <1>3, <2>2 DEF CoverInv
  <1>8. TypeOK'
    <2>1. openedAt'[c] \in Cursors
      BY <1>1, <1>2, Typed, CursorRange DEF liveOnly
    <2> QED
      BY <1>1, <2>1 DEF TypeOK, Subscribe, PcStates
  <1>9. ASSUME NEW d \in Clients, d # c PROVE ClientInv(d)'
    BY <1>1, <1>9, Frame DEF StreamInv, TypeOK, Subscribe, ClientUnchanged
  <1> QED
    BY <1>4, <1>5, <1>6, <1>7, <1>8, <1>9 DEF StreamInv, ClientInv

LEMMA ReadPageStep ==
    ASSUME StreamInv, NEW c \in Clients, ReadPage(c)
    PROVE  StreamInv'
  <1> USE DEF logVars, subVars, sourceVars, clientVars
  <1>1. TypeOK /\ ClientInv(c) /\ pc[c] = "replay"
    BY DEF StreamInv, ReadPage
  <1>2. /\ pageEnd'[c] = Min2(head, lastSent[c] + PageSize)
        /\ short'[c] => head < lastSent[c] + PageSize
        /\ pending'[c] = FALSE
        /\ pc'[c] = "write"
    BY <1>1 DEF TypeOK, ReadPage
  <1>3. UNCHANGED <<head, unpublished, unannounced, lastSent, held, sub, buf, wire, url,
                    lastEventId, cursor, floor, seen, openedAt>>
    BY DEF ReadPage
  <1>4. lastSent[c] <= head /\ lastSent[c] # liveOnly
    BY <1>1 DEF ClientInv, HandlerInv, Serving
  <1>5. /\ pageEnd'[c] \in Nat /\ lastSent[c] <= pageEnd'[c] /\ pageEnd'[c] <= head
        /\ short'[c] => pageEnd'[c] = head
    <2>1. PageSize \in Nat \ {0}
      BY ConstantsAssumption DEF ConstantsAssumption
    <2> QED
      BY <1>1, <1>2, <1>4, <2>1, Typed DEF Min2, liveOnly
  <1>6. CursorInv(c)'
    BY <1>1, <1>2, <1>3 DEF ClientInv, CursorInv
  <1>7. WireInv(c)'
    BY <1>1, <1>2, <1>3 DEF ClientInv, WireInv
  <1>8. HandlerInv(c)'
    BY <1>1, <1>2, <1>3, <1>5 DEF ClientInv, HandlerInv, Serving
  <1>9. CoverInv(c)'
    <2>1. short'[c] => CoveredAfter(c, pageEnd[c])'
      BY <1>1, <1>3, <1>5, Typed DEF CoveredAfter
    <2> QED
      BY <1>2, <2>1 DEF CoverInv
  <1>10. TypeOK'
    <2>1. pageEnd'[c] \in 0..MaxPosition /\ (head < lastSent[c] + PageSize) \in BOOLEAN
      BY <1>1, <1>5, Typed
    <2>2. /\ pageEnd' \in [Clients -> 0..MaxPosition]
          /\ short' \in [Clients -> BOOLEAN]
      BY <1>1, <2>1 DEF TypeOK, ReadPage
    <2>3. pending' \in [Clients -> BOOLEAN] /\ pc' \in [Clients -> PcStates]
      BY <1>1 DEF TypeOK, ReadPage, PcStates
    <2> QED
      BY <1>1, <2>2, <2>3 DEF TypeOK, ReadPage
  <1>11. ASSUME NEW d \in Clients, d # c PROVE ClientInv(d)'
    BY <1>1, <1>11, Frame DEF StreamInv, TypeOK, ReadPage, ClientUnchanged
  <1> QED
    BY <1>6, <1>7, <1>8, <1>9, <1>10, <1>11 DEF StreamInv, ClientInv

LEMMA WritePageStep ==
    ASSUME StreamInv, NEW c \in Clients, WritePage(c)
    PROVE  StreamInv'
  <1> USE DEF logVars, subVars, sourceVars, clientVars
  <1>1. TypeOK /\ ClientInv(c) /\ pc[c] = "write" /\ Serving(c)
    BY DEF StreamInv, WritePage, Serving
  <1>2. UNCHANGED <<head, unpublished, unannounced, pageEnd, short, pending, held, sub, buf, url,
                    lastEventId, cursor, floor, seen, openedAt, shutdown, faults>>
    BY DEF WritePage
  <1>3. /\ lastSent[c] <= pageEnd[c] /\ pageEnd[c] <= head /\ ~pending[c]
        /\ lastSent[c] # liveOnly /\ sub[c] # "none"
    BY <1>1 DEF ClientInv, HandlerInv
  <1>4. CASE lastSent[c] < pageEnd[c]
    <2> DEFINE p == lastSent[c] + 1
    <2>1. Send(c, p) /\ pc' = pc
      BY <1>4 DEF WritePage
    <2>2. p \in Positions /\ p <= head
      BY <1>1, <1>3, <1>4, Typed DEF Positions, liveOnly
    <2>3. Serving(c)'
      BY <1>1, <2>1 DEF Serving
    <2> HIDE DEF p
    <2>4. /\ WireInv(c)'
          /\ wire' \in [Clients -> Seq(Positions)]
          /\ lastSent' \in [Clients -> Cursors]
          /\ lastSent'[c] = p
          /\ \A d \in Clients \ {c} : wire'[d] = wire[d] /\ lastSent'[d] = lastSent[d]
      <3>1. lastSent[c] # liveOnly => p = lastSent[c] + 1
        BY DEF p
      <3>2. WireInv(c) /\ CursorInv(c)
        BY <1>1 DEF ClientInv
      <3> QED
        BY <1>1, <1>2, <2>1, <2>2, <2>3, <3>1, <3>2, SendStep
    <2> USE DEF p
    <2>5. CursorInv(c)'
      BY <1>1, <1>2, <2>1, <2>4, Typed DEF ClientInv, CursorInv, liveOnly
    <2>6. HandlerInv(c)'
      BY <1>1, <1>2, <1>3, <1>4, <2>1, <2>2, <2>4, Typed
         DEF ClientInv, HandlerInv, Serving, liveOnly
    <2>7. CoverInv(c)'
      BY <1>1, <1>2, <2>1 DEF ClientInv, CoverInv, CoveredAfter, Buffered
    <2>8. TypeOK'
      BY <1>1, <1>2, <2>1, <2>4 DEF TypeOK
    <2>9. ASSUME NEW d \in Clients, d # c PROVE ClientInv(d)'
      BY <1>2, <2>1, <2>4, <2>9, Frame DEF StreamInv, ClientUnchanged
    <2> QED
      BY <2>4, <2>5, <2>6, <2>7, <2>8, <2>9 DEF StreamInv, ClientInv
  <1>5. CASE ~(lastSent[c] < pageEnd[c])
    <2>1. pc' = [pc EXCEPT ![c] = "drain"] /\ UNCHANGED <<wire, lastSent>> /\ pc'[c] = "drain"
      BY <1>1, <1>5 DEF WritePage, TypeOK
    <2>2. lastSent[c] = pageEnd[c]
      BY <1>1, <1>3, <1>5, Typed
    <2>3. CursorInv(c)' /\ WireInv(c)'
      BY <1>1, <1>2, <2>1 DEF ClientInv, CursorInv, WireInv
    <2>4. HandlerInv(c)'
      BY <1>1, <1>2, <2>1 DEF ClientInv, HandlerInv, Serving
    <2>5. CoverInv(c)'
      BY <1>1, <1>2, <2>1, <2>2 DEF ClientInv, CoverInv, CoveredAfter, Buffered
    <2>6. TypeOK'
      BY <1>1, <1>2, <2>1 DEF TypeOK, PcStates
    <2>7. ASSUME NEW d \in Clients, d # c PROVE ClientInv(d)'
      BY <1>1, <1>2, <2>1, <2>7, Frame DEF StreamInv, TypeOK, ClientUnchanged
    <2> QED
      BY <2>3, <2>4, <2>5, <2>6, <2>7 DEF StreamInv, ClientInv
  <1> QED BY <1>4, <1>5

\* Taking the first buffered event leaves every other one buffered.
LEMMA Unbuffered ==
    ASSUME TypeOK, NEW c \in Clients, buf[c] # <<>>, buf' = [buf EXCEPT ![c] = Tail(@)]
    PROVE  /\ buf' \in [Clients -> Seq(Positions)]
           /\ \A d \in Clients : Len(buf'[d]) <= Buffer
           /\ \A d \in Clients \ {c} : buf'[d] = buf[d]
           /\ \A q : Buffered(c, q) /\ q # Head(buf[c]) => Buffered(c, q)'
           /\ Head(buf[c]) \in Positions
           /\ Buffered(c, Head(buf[c]))
           /\ \A b : (\A i \in 1..Len(buf[c]) : buf[c][i] <= b)
                        => \A i \in 1..Len(buf'[c]) : buf'[c][i] <= b
  <1> DEFINE n == Len(buf[c])
  <1>1. buf[c] \in Seq(Positions)
    BY Typed
  <1>2. /\ buf'[c] = Tail(buf[c])
        /\ \A d \in Clients \ {c} : buf'[d] = buf[d]
    BY DEF TypeOK
  <1>3. /\ buf'[c] \in Seq(Positions)
        /\ n \in Nat \ {0}
        /\ Len(buf'[c]) = n - 1
        /\ \A i \in 1..(n - 1) : buf'[c][i] = buf[c][i + 1]
        /\ Head(buf[c]) = buf[c][1]
        /\ Head(buf[c]) \in Positions
    <2>1. buf[c] # <<>>
      OBVIOUS
    <2>2. /\ Tail(buf[c]) \in Seq(Positions)
          /\ n \in Nat \ {0}
          /\ Len(Tail(buf[c])) = n - 1
          /\ \A i \in 1..(n - 1) : Tail(buf[c])[i] = buf[c][i + 1]
          /\ Head(buf[c]) = buf[c][1]
          /\ Head(buf[c]) \in Positions
      BY <1>1, <2>1, TakeOne
    <2> QED BY <1>2, <2>2
  <1>4. ASSUME NEW q, Buffered(c, q), q # Head(buf[c]) PROVE Buffered(c, q)'
    <2>1. PICK i \in 1..n : buf[c][i] = q
      BY <1>4 DEF Buffered
    <2>2. i # 1
      BY <1>3, <1>4, <2>1
    <2>3. i - 1 \in 1..(n - 1) /\ (i - 1) + 1 = i
      BY <1>3, <2>1, <2>2
    <2>4. buf'[c][i - 1] = q
      BY <1>3, <2>1, <2>3
    <2> QED
      BY <1>3, <2>3, <2>4 DEF Buffered
  <1>5. Buffered(c, Head(buf[c]))
    <2>1. 1 \in 1..n
      BY <1>3
    <2> QED BY <1>3, <2>1 DEF Buffered
  <1>6. ASSUME NEW b, \A i \in 1..n : buf[c][i] <= b
        PROVE  \A i \in 1..Len(buf'[c]) : buf'[c][i] <= b
    <2>1. \A i \in 1..(n - 1) : i + 1 \in 1..n
      BY <1>3
    <2> QED BY <1>3, <1>6, <2>1
  <1>7. buf' \in [Clients -> Seq(Positions)]
    BY <1>2, <1>3 DEF TypeOK
  <1>8. \A d \in Clients : Len(buf'[d]) <= Buffer
    <2> SUFFICES ASSUME NEW d \in Clients PROVE Len(buf'[d]) <= Buffer
      OBVIOUS
    <2>1. Buffer \in Nat
      BY ConstantsAssumption DEF ConstantsAssumption
    <2>2. Len(buf[d]) <= Buffer
      BY DEF TypeOK
    <2>3. CASE d = c
      BY <1>3, <2>1, <2>2, <2>3
    <2>4. CASE d # c
      BY <1>2, <2>2, <2>4
    <2> QED BY <2>3, <2>4
  <1> QED
    BY <1>2, <1>3, <1>4, <1>5, <1>6, <1>7, <1>8

LEMMA DrainOneStep ==
    ASSUME StreamInv, NEW c \in Clients, DrainOne(c)
    PROVE  StreamInv'
  <1> USE DEF logVars, sourceVars, clientVars
  <1> DEFINE p == Head(buf[c])
  <1>1. TypeOK /\ ClientInv(c) /\ pc[c] = "drain" /\ buf[c] # <<>>
    BY DEF StreamInv, DrainOne
  <1>2. UNCHANGED <<head, unpublished, unannounced, shutdown, faults, pc, lastSent, pageEnd,
                    short, held, sub, wire, url, lastEventId, cursor, floor, seen, openedAt>>
    BY DEF DrainOne
  <1>3. buf' = [buf EXCEPT ![c] = Tail(@)]
    BY DEF DrainOne
  <1>4. pending'[c] = (pending[c] \/ p > lastSent[c])
    BY <1>1 DEF DrainOne, TypeOK
  <1>5. CursorInv(c)' /\ WireInv(c)'
    BY <1>1, <1>2 DEF ClientInv, CursorInv, WireInv
  <1>6. HandlerInv(c)'
    <2>1. sub[c] # "none" /\ \A i \in 1..Len(buf[c]) : buf[c][i] <= head
      BY <1>1 DEF ClientInv, HandlerInv
    <2>2. \A i \in 1..Len(buf'[c]) : buf'[c][i] <= head
      BY <1>1, <1>3, <2>1, Unbuffered
    <2> QED
      BY <1>1, <1>2, <2>1, <2>2 DEF ClientInv, HandlerInv, Serving
  <1>7. CoverInv(c)'
    <2> SUFFICES ASSUME sub[c] = "attached", short[c], ~pending'[c],
                        NEW q \in 1..head, q > lastSent[c], q > openedAt[c]
                 PROVE  q \in unpublished \/ q \in unannounced \/ Buffered(c, q)'
      BY <1>1, <1>2 DEF CoverInv, CoveredAfter
    <2>1. ~pending[c] /\ ~(p > lastSent[c])
      BY <1>4
    <2>2. q \in unpublished \/ q \in unannounced \/ Buffered(c, q)
      BY <1>1, <2>1 DEF ClientInv, CoverInv, CoveredAfter
    <2>3. q # p
      BY <2>1
    <2> QED
      BY <1>1, <1>3, <2>2, <2>3, Unbuffered
  <1>8. TypeOK'
    <2>1. pending' \in [Clients -> BOOLEAN]
      <3>1. (pending[c] \/ p > lastSent[c]) \in BOOLEAN
        OBVIOUS
      <3> QED
        BY <1>1, <3>1 DEF TypeOK, DrainOne
    <2>2. buf' \in [Clients -> Seq(Positions)] /\ \A d \in Clients : Len(buf'[d]) <= Buffer
      BY <1>1, <1>3, Unbuffered
    <2> QED
      BY <1>1, <1>2, <2>1, <2>2 DEF TypeOK
  <1>9. ASSUME NEW d \in Clients, d # c PROVE ClientInv(d)'
    BY <1>1, <1>9, Frame DEF StreamInv, TypeOK, DrainOne, ClientUnchanged
  <1> QED
    BY <1>5, <1>6, <1>7, <1>8, <1>9 DEF StreamInv, ClientInv

LEMMA DrainEndStep ==
    ASSUME StreamInv, NEW c \in Clients, DrainEnd(c)
    PROVE  StreamInv'
  <1> USE DEF logVars, subVars, sourceVars, clientVars
  <1>1. TypeOK /\ ClientInv(c) /\ pc[c] = "drain" /\ faults \in 0..MaxFaults
    BY DEF StreamInv, DrainEnd, TypeOK
  <1>2. UNCHANGED <<head, unpublished, unannounced, shutdown, faults, lastSent, pageEnd, short,
                    pending, wire, url, lastEventId, cursor, floor, seen, openedAt>>
    BY DEF DrainEnd
  <1>3. CASE Return(c)
    <2>1. wire' \in {wire, [wire EXCEPT ![c] = <<>>]} /\ faults' \in 0..MaxFaults
      BY <1>1, <1>2
    <2> QED
      BY <1>2, <1>3, <2>1, ReturnStep
  <1>4. ASSUME NEW s \in {"live", "replay"}, pc' = [pc EXCEPT ![c] = s],
               UNCHANGED <<sub, buf, held>>, s = "live" => ReplayDone(c)
        PROVE  StreamInv'
    <2>1. pc'[c] = s
      BY <1>1, <1>4 DEF TypeOK
    <2>2. CursorInv(c)' /\ WireInv(c)'
      BY <1>1, <1>2, <1>4, <2>1 DEF ClientInv, CursorInv, WireInv
    <2>3. HandlerInv(c)'
      BY <1>1, <1>2, <1>4, <2>1 DEF ClientInv, HandlerInv, Serving
    <2>4. CoverInv(c)'
      BY <1>1, <1>2, <1>4, <2>1
         DEF ClientInv, CoverInv, CoveredAfter, Buffered, ReplayDone
    <2>5. TypeOK'
      BY <1>1, <1>2, <1>4 DEF TypeOK, PcStates
    <2>6. ASSUME NEW d \in Clients, d # c PROVE ClientInv(d)'
      BY <1>1, <1>2, <1>4, <2>6, Frame DEF StreamInv, TypeOK, ClientUnchanged
    <2> QED
      BY <2>2, <2>3, <2>4, <2>5, <2>6 DEF StreamInv, ClientInv
  <1> QED
    BY <1>3, <1>4 DEF DrainEnd

LEMMA LiveEventStep ==
    ASSUME StreamInv, NEW c \in Clients, LiveEvent(c)
    PROVE  StreamInv'
  <1> USE DEF logVars, sourceVars, clientVars
  <1> DEFINE p == Head(buf[c])
  <1>1. TypeOK /\ ClientInv(c) /\ pc[c] = "live" /\ buf[c] # <<>> /\ Serving(c)
    BY DEF StreamInv, LiveEvent, Serving
  <1>2. UNCHANGED <<head, unpublished, unannounced, shutdown, faults, pageEnd, short, pending,
                    sub, url, lastEventId, cursor, floor, seen, openedAt>>
    BY DEF LiveEvent
  <1>3. buf' = [buf EXCEPT ![c] = Tail(@)]
    BY DEF LiveEvent
  <1>4. /\ buf' \in [Clients -> Seq(Positions)]
        /\ \A d \in Clients : Len(buf'[d]) <= Buffer
        /\ \A d \in Clients \ {c} : buf'[d] = buf[d]
        /\ \A q : Buffered(c, q) /\ q # p => Buffered(c, q)'
        /\ p \in Positions
    BY <1>1, <1>3, Unbuffered
  <1>5. \A i \in 1..Len(buf[c]) : buf[c][i] <= head
    BY <1>1 DEF ClientInv, HandlerInv
  <1>6. \A i \in 1..Len(buf'[c]) : buf'[c][i] <= head
    BY <1>1, <1>3, <1>5, Unbuffered
  <1>7. p <= head /\ p \in Nat \ {0} /\ p <= MaxPosition
    BY <1>1, <1>4, <1>5, Unbuffered, Typed DEF Buffered, Positions
  <1>8. sub[c] = "attached" =>
           \A q \in 1..head : q > lastSent[c] /\ q > openedAt[c] /\ q # p
                                 => q \in unpublished \/ q \in unannounced \/ Buffered(c, q)'
    BY <1>1, <1>4 DEF ClientInv, CoverInv, CoveredAfter
  <1>9. CASE Stale(c, p) /\ UNCHANGED <<pc, held, wire, lastSent>>
    <2>1. CursorInv(c)' /\ WireInv(c)'
      BY <1>1, <1>2, <1>9 DEF ClientInv, CursorInv, WireInv
    <2>2. HandlerInv(c)'
      BY <1>1, <1>2, <1>6, <1>9 DEF ClientInv, HandlerInv, Serving
    <2>3. CoverInv(c)'
      <3>1. \A q \in 1..head : q > lastSent[c] => q # p
        BY <1>1, <1>7, <1>9, Typed DEF Stale
      <3> QED
        BY <1>1, <1>2, <1>8, <1>9, <3>1 DEF CoverInv, CoveredAfter
    <2>4. TypeOK'
      BY <1>1, <1>2, <1>4, <1>9 DEF TypeOK
    <2>5. ASSUME NEW d \in Clients, d # c PROVE ClientInv(d)'
      BY <1>1, <1>2, <1>4, <1>9, <2>5, Frame DEF StreamInv, ClientUnchanged
    <2> QED
      BY <2>1, <2>2, <2>3, <2>4, <2>5 DEF StreamInv, ClientInv
  <1>10. CASE /\ Gap(c, p)
              /\ pc' = [pc EXCEPT ![c] = "fill"]
              /\ held' = [held EXCEPT ![c] = p]
              /\ UNCHANGED <<wire, lastSent>>
    <2>1. pc'[c] = "fill" /\ held'[c] = p
      BY <1>1, <1>10 DEF TypeOK
    <2>2. lastSent[c] # liveOnly /\ lastSent[c] < p
      BY <1>1, <1>7, <1>10, Typed DEF Gap
    <2>3. CursorInv(c)' /\ WireInv(c)'
      BY <1>1, <1>2, <1>10, <2>1 DEF ClientInv, CursorInv, WireInv
    <2>4. HandlerInv(c)'
      BY <1>1, <1>2, <1>6, <1>7, <1>10, <2>1, <2>2 DEF ClientInv, HandlerInv, Serving
    <2>5. CoverInv(c)'
      <3>1. \A q \in 1..head : q > p => q > lastSent[c] /\ q # p
        BY <1>1, <1>7, <2>2, Typed
      <3> QED
        BY <1>2, <1>8, <1>10, <2>1, <3>1 DEF CoverInv, CoveredAfter
    <2>6. TypeOK'
      <3>1. pc' \in [Clients -> PcStates]
        BY <1>1, <1>10 DEF TypeOK, PcStates
      <3>2. held' \in [Clients -> 0..MaxPosition]
        BY <1>1, <1>7, <1>10, Typed DEF TypeOK
      <3> QED
        BY <1>1, <1>2, <1>4, <1>10, <3>1, <3>2 DEF TypeOK
    <2>7. ASSUME NEW d \in Clients, d # c PROVE ClientInv(d)'
      BY <1>1, <1>2, <1>4, <1>10, <2>7, Frame DEF StreamInv, TypeOK, ClientUnchanged
    <2> QED
      BY <2>3, <2>4, <2>5, <2>6, <2>7 DEF StreamInv, ClientInv
  <1>11. CASE ~Stale(c, p) /\ ~Gap(c, p) /\ Send(c, p) /\ UNCHANGED <<pc, held>>
    <2>1. lastSent[c] # liveOnly => p = lastSent[c] + 1
      BY <1>1, <1>7, <1>11, Typed DEF Stale, Gap
    <2>2. Serving(c)' /\ cursor' = cursor /\ head' = head
      BY <1>1, <1>2, <1>11 DEF Serving
    <2>3. WireInv(c) /\ CursorInv(c)
      BY <1>1 DEF ClientInv
    <2>4. /\ WireInv(c)'
          /\ wire' \in [Clients -> Seq(Positions)]
          /\ lastSent' \in [Clients -> Cursors]
          /\ lastSent'[c] = p
          /\ \A d \in Clients \ {c} : wire'[d] = wire[d] /\ lastSent'[d] = lastSent[d]
      BY <1>1, <1>4, <1>7, <1>11, <2>1, <2>2, <2>3, SendStep
    <2>5. CursorInv(c)'
      BY <1>1, <1>2, <1>7, <1>11, <2>3, <2>4 DEF CursorInv, liveOnly
    <2>6. HandlerInv(c)'
      BY <1>1, <1>2, <1>6, <1>7, <1>11, <2>4 DEF ClientInv, HandlerInv, Serving
    <2>7. CoverInv(c)'
      <3>1. lastSent[c] < p
        BY <1>1, <1>7, <2>1, Typed DEF liveOnly
      <3>2. \A q \in 1..head : q > p => q > lastSent[c] /\ q # p
        BY <1>1, <1>7, <3>1, Typed
      <3> QED
        BY <1>1, <1>2, <1>8, <1>11, <2>4, <3>2 DEF CoverInv, CoveredAfter
    <2>8. TypeOK'
      BY <1>1, <1>2, <1>4, <1>11, <2>4 DEF TypeOK
    <2>9. ASSUME NEW d \in Clients, d # c PROVE ClientInv(d)'
      BY <1>2, <1>4, <1>11, <2>4, <2>9, Frame DEF StreamInv, ClientUnchanged
    <2> QED
      BY <2>4, <2>5, <2>6, <2>7, <2>8, <2>9 DEF StreamInv, ClientInv
  <1> QED
    BY <1>9, <1>10, <1>11 DEF LiveEvent

LEMMA FillStep ==
    ASSUME StreamInv, NEW c \in Clients, Fill(c)
    PROVE  StreamInv'
  <1> USE DEF logVars, subVars, sourceVars, clientVars
  <1> DEFINE p == lastSent[c] + 1
  <1>1. TypeOK /\ ClientInv(c) /\ pc[c] = "fill" /\ Serving(c)
    BY DEF StreamInv, Fill, Serving
  <1>2. UNCHANGED <<head, unpublished, unannounced, shutdown, faults, pageEnd, short, pending,
                    sub, buf, url, lastEventId, cursor, floor, seen, openedAt>>
    BY DEF Fill
  <1>3. lastSent[c] # liveOnly /\ lastSent[c] < held[c] /\ held[c] <= head /\ sub[c] # "none"
    BY <1>1 DEF ClientInv, HandlerInv
  <1>4. p \in Positions /\ p <= head /\ p <= held[c] /\ p \in Nat
    BY <1>1, <1>3, Typed DEF Positions, liveOnly
  <1>5. \/ p = held[c] /\ pc' = [pc EXCEPT ![c] = "live"] /\ held' = [held EXCEPT ![c] = NoEvent]
        \/ p # held[c] /\ pc' = pc /\ held' = held
    BY DEF Fill
  <1>6. \/ p = held[c] /\ pc'[c] = "live" /\ held'[c] = NoEvent
        \/ p < held[c] /\ pc'[c] = "fill" /\ held'[c] = held[c]
    BY <1>1, <1>4, <1>5, Typed DEF TypeOK
  <1>7. \A d \in Clients \ {c} : pc'[d] = pc[d] /\ held'[d] = held[d]
    BY <1>1, <1>5 DEF TypeOK
  <1>8. Serving(c)'
    BY <1>6 DEF Serving
  <1>9. Send(c, p)
    BY DEF Fill
  <1>10. /\ WireInv(c)'
         /\ wire' \in [Clients -> Seq(Positions)]
         /\ lastSent' \in [Clients -> Cursors]
         /\ lastSent'[c] = p
         /\ \A d \in Clients \ {c} : wire'[d] = wire[d] /\ lastSent'[d] = lastSent[d]
    <2>1. lastSent[c] # liveOnly => p = lastSent[c] + 1
      OBVIOUS
    <2>2. WireInv(c) /\ CursorInv(c) /\ head' = head /\ cursor' = cursor
      BY <1>1, <1>2 DEF ClientInv
    <2> HIDE DEF p
    <2> QED
      BY <1>1, <1>4, <1>8, <1>9, <2>1, <2>2, SendStep
  <1>11. CursorInv(c)'
    BY <1>1, <1>2, <1>4, <1>6, <1>10 DEF ClientInv, CursorInv, liveOnly
  <1>12. HandlerInv(c)'
    BY <1>1, <1>2, <1>3, <1>4, <1>6, <1>10 DEF ClientInv, HandlerInv, Serving, liveOnly
  <1>13. CoverInv(c)'
    BY <1>1, <1>2, <1>6, <1>10 DEF ClientInv, CoverInv, CoveredAfter, Buffered
  <1>14. TypeOK'
    <2>1. pc' \in [Clients -> PcStates]
      BY <1>1, <1>5 DEF TypeOK, PcStates
    <2>2. held' \in [Clients -> 0..MaxPosition]
      <3>1. NoEvent \in 0..MaxPosition
        BY <1>1, Typed DEF NoEvent
      <3>2. held \in [Clients -> 0..MaxPosition]
        BY <1>1 DEF TypeOK
      <3> QED
        BY <1>5, <3>1, <3>2
    <2> QED
      BY <1>1, <1>2, <1>10, <2>1, <2>2 DEF TypeOK
  <1>15. ASSUME NEW d \in Clients, d # c PROVE ClientInv(d)'
    BY <1>2, <1>7, <1>10, <1>15, Frame DEF StreamInv, ClientUnchanged
  <1> QED
    BY <1>10, <1>11, <1>12, <1>13, <1>14, <1>15 DEF StreamInv, ClientInv

LEMMA CommitStep ==
    ASSUME StreamInv, Commit \/ CommitUnknown
    PROVE  StreamInv'
  <1> USE DEF handlerVars, subVars, sourceVars, clientVars
  <1>1. TypeOK
    BY DEF StreamInv
  <1>2. /\ head \in Nat /\ head' = head + 1 /\ head < MaxPosition /\ MaxPosition \in Nat
        /\ unpublished \subseteq 1..head /\ unannounced \subseteq 1..head
        /\ unpublished' \subseteq 1..(head + 1) /\ unannounced' \subseteq 1..(head + 1)
        /\ unpublished \subseteq unpublished' /\ unannounced \subseteq unannounced'
        /\ head + 1 \in unpublished' \/ head + 1 \in unannounced'
    <2>1. /\ head \in Nat /\ head' = head + 1 /\ head < MaxPosition /\ MaxPosition \in Nat
          /\ unpublished \subseteq 1..head /\ unannounced \subseteq 1..head
      BY <1>1, ConstantsAssumption DEF TypeOK, Commit, CommitUnknown, ConstantsAssumption
    <2>2. 1..head \subseteq 1..(head + 1) /\ head + 1 \in 1..(head + 1)
      BY <2>1
    <2>3. CASE Commit
      <3>1. unpublished' = unpublished \union {head + 1} /\ unannounced' = unannounced
        BY <2>3 DEF Commit
      <3> QED BY <2>1, <2>2, <3>1
    <2>4. CASE CommitUnknown
      <3>1. unannounced' = unannounced \union {head + 1} /\ unpublished' = unpublished
        BY <2>4 DEF CommitUnknown
      <3> QED BY <2>1, <2>2, <3>1
    <2> QED BY <2>3, <2>4
  <1>3. UNCHANGED <<shutdown, pc, lastSent, pageEnd, short, pending, held, sub, buf,
                    wire, url, lastEventId, cursor, floor, seen, openedAt>>
    BY DEF Commit, CommitUnknown
  <1>4. TypeOK'
    <2>1. head' \in 0..MaxPosition
      BY <1>2
    <2>2. unpublished' \subseteq 1..head' /\ unannounced' \subseteq 1..head'
      BY <1>2
    <2>3. faults' \in 0..MaxFaults
      BY <1>1, ConstantsAssumption DEF TypeOK, Commit, CommitUnknown, ConstantsAssumption
    <2> QED
      BY <1>1, <1>3, <2>1, <2>2, <2>3 DEF TypeOK
  <1>5. ASSUME NEW c \in Clients PROVE ClientInv(c)'
    <2>1. ClientInv(c)
      BY DEF StreamInv
    <2>2. CursorInv(c)'
      BY <1>3, <2>1 DEF ClientInv, CursorInv
    <2>3. WireInv(c)'
      <3>1. \A i \in 1..Len(wire[c]) : wire[c][i] \in Nat
        BY <1>1, Typed DEF Positions
      <3> QED
        BY <1>2, <1>3, <2>1, <3>1 DEF ClientInv, WireInv
    <2>4. HandlerInv(c)'
      <3>1. \A i \in 1..Len(buf[c]) : buf[c][i] \in Nat
        BY <1>1, Typed DEF Positions
      <3>2. /\ sub'[c] = sub[c] /\ buf'[c] = buf[c] /\ pc'[c] = pc[c]
            /\ lastSent'[c] = lastSent[c] /\ pageEnd'[c] = pageEnd[c]
            /\ pending'[c] = pending[c] /\ held'[c] = held[c]
        BY <1>3
      <3>3. HandlerInv(c)
        BY <2>1 DEF ClientInv
      <3>4. \A i \in 1..Len(buf'[c]) : buf'[c][i] <= head'
        BY <1>2, <3>1, <3>2, <3>3 DEF HandlerInv
      <3>5. lastSent[c] \in Int /\ pageEnd[c] \in Int /\ held[c] \in Int
        BY <1>1, Typed
      <3>6. /\ lastSent[c] <= head => lastSent[c] <= head'
            /\ pageEnd[c] <= head => pageEnd[c] <= head'
            /\ held[c] <= head => held[c] <= head'
        BY <1>2, <3>5
      <3> QED
        BY <3>2, <3>3, <3>4, <3>6 DEF HandlerInv, Serving
    <2>5. CoverInv(c)'
      <3>1. ASSUME NEW p \in Nat, CoveredAfter(c, p)
            PROVE  \A q \in 1..(head + 1) :
                      q > p /\ q > openedAt[c] =>
                        q \in unpublished' \/ q \in unannounced' \/ Buffered(c, q)
        BY <1>2, <3>1 DEF CoveredAfter
      <3>2. ASSUME NEW p \in Int, CoveredAfter(c, p)
            PROVE  \A q \in 1..(head + 1) :
                      q > p /\ q > openedAt[c] =>
                        q \in unpublished' \/ q \in unannounced' \/ Buffered(c, q)
        BY <1>2, <3>2 DEF CoveredAfter
      <3> QED
        BY <1>1, <1>2, <1>3, <2>1, <3>1, <3>2, Typed
           DEF ClientInv, CoverInv, CoveredAfter, Buffered
    <2> QED BY <2>2, <2>3, <2>4, <2>5 DEF ClientInv
  <1> QED BY <1>4, <1>5 DEF StreamInv

LEMMA PublishStep ==
    ASSUME StreamInv, NEW p \in Positions, Publish(p)
    PROVE  StreamInv'
  <1> USE DEF handlerVars, sourceVars, clientVars
  <1>1. TypeOK /\ p \in unpublished /\ p <= head
    BY DEF StreamInv, TypeOK, Publish
  <1>2. UNCHANGED <<head, unannounced, shutdown, faults, pc, lastSent, pageEnd, short, pending,
                    held, wire, url, lastEventId, cursor, floor, seen, openedAt>>
    BY DEF Publish
  <1>3. unpublished' = unpublished \ {p}
    BY DEF Publish
  <1>4. ASSUME NEW c \in Clients
        PROVE  \/ /\ sub[c] = "attached" /\ HasRoom(c)
                  /\ buf'[c] = Append(buf[c], p) /\ sub'[c] = "attached"
               \/ /\ sub[c] = "attached" /\ ~HasRoom(c)
                  /\ buf'[c] = buf[c] /\ sub'[c] = "closed"
               \/ /\ sub[c] # "attached"
                  /\ buf'[c] = buf[c] /\ sub'[c] = sub[c]
    BY <1>1 DEF Publish, DetachOverflowed
  <1>5. ASSUME NEW c \in Clients, buf'[c] = Append(buf[c], p)
        PROVE  /\ buf'[c] \in Seq(Positions)
               /\ Len(buf'[c]) = Len(buf[c]) + 1
               /\ Len(buf[c]) \in Nat
               /\ \A i \in 1..Len(buf[c]) : buf'[c][i] = buf[c][i]
               /\ buf'[c][Len(buf[c]) + 1] = p
    <2>1. buf[c] \in Seq(Positions)
      BY <1>1, Typed
    <2> QED BY <1>5, <2>1, AppendOne
  <1>6. ASSUME NEW c \in Clients
        PROVE  /\ buf'[c] \in Seq(Positions)
               /\ Len(buf'[c]) <= Buffer
               /\ sub'[c] \in {"none", "attached", "closed"}
    <2>1. Buffer \in Nat /\ Len(buf[c]) <= Buffer /\ buf[c] \in Seq(Positions)
          /\ sub[c] \in {"none", "attached", "closed"}
      BY <1>1, ConstantsAssumption DEF TypeOK, ConstantsAssumption
    <2>2. CASE sub[c] = "attached" /\ HasRoom(c)
      BY <1>4, <1>5, <2>1, <2>2 DEF HasRoom
    <2>3. CASE ~(sub[c] = "attached" /\ HasRoom(c))
      BY <1>4, <2>1, <2>3
    <2> QED BY <2>2, <2>3
  <1>7. TypeOK'
    <2>1. buf' \in [Clients -> Seq(Positions)]
      BY <1>6 DEF Publish
    <2>2. sub' \in [Clients -> {"none", "attached", "closed"}]
      BY <1>6 DEF Publish
    <2>3. \A c \in Clients : Len(buf'[c]) <= Buffer
      BY <1>6
    <2> QED
      BY <1>1, <1>2, <1>3, <2>1, <2>2, <2>3 DEF TypeOK
  <1>8. ASSUME NEW c \in Clients PROVE ClientInv(c)'
    <2>1. ClientInv(c)
      BY DEF StreamInv
    <2>2. CursorInv(c)' /\ WireInv(c)'
      BY <1>2, <2>1 DEF ClientInv, CursorInv, WireInv
    <2>3. \A i \in 1..Len(buf'[c]) : buf'[c][i] <= head
      <3>1. \A i \in 1..Len(buf[c]) : buf[c][i] <= head
        BY <2>1 DEF ClientInv, HandlerInv
      <3>2. CASE buf'[c] = Append(buf[c], p)
        <4> SUFFICES ASSUME NEW i \in 1..Len(buf'[c]) PROVE buf'[c][i] <= head
          OBVIOUS
        <4>1. i \in 1..Len(buf[c]) \/ i = Len(buf[c]) + 1
          BY <1>5, <3>2
        <4> QED
          BY <1>1, <1>5, <3>1, <3>2, <4>1
      <3>3. CASE buf'[c] = buf[c]
        BY <3>1, <3>3
      <3> QED BY <1>4, <3>2, <3>3
    <2>4. HandlerInv(c)'
      <3>1. (sub'[c] # "none" <=> sub[c] # "none") /\ (sub[c] = "none" => buf'[c] = buf[c])
        BY <1>4
      <3> QED
        BY <1>2, <2>1, <2>3, <3>1 DEF ClientInv, HandlerInv, Serving
    <2>5. CoverInv(c)'
      <3> SUFFICES ASSUME sub'[c] = "attached" PROVE CoverInv(c)'
        BY DEF CoverInv
      <3>1. buf'[c] = Append(buf[c], p) /\ sub[c] = "attached"
        BY <1>4
      <3>2. ASSUME NEW q, Buffered(c, q) PROVE Buffered(c, q)'
        <4>1. PICK i \in 1..Len(buf[c]) : buf[c][i] = q
          BY <3>2 DEF Buffered
        <4>2. i \in 1..Len(buf'[c]) /\ buf'[c][i] = q
          BY <1>5, <3>1, <4>1
        <4> QED BY <4>2 DEF Buffered
      <3>3. Buffered(c, p)'
        <4>1. Len(buf[c]) + 1 \in 1..Len(buf'[c])
          BY <1>5, <3>1
        <4> QED BY <1>5, <3>1, <4>1 DEF Buffered
      <3>4. \A r : CoveredAfter(c, r) => CoveredAfter(c, r)'
        BY <1>2, <1>3, <3>2, <3>3 DEF CoveredAfter
      <3>5. /\ pc[c] = "write" /\ short[c] => CoveredAfter(c, pageEnd[c])
            /\ pc[c] = "drain" /\ short[c] /\ ~pending[c] => CoveredAfter(c, lastSent[c])
            /\ pc[c] = "live" => CoveredAfter(c, lastSent[c])
            /\ pc[c] = "fill" => CoveredAfter(c, held[c])
        BY <2>1, <3>1 DEF ClientInv, CoverInv
      <3> QED
        BY <1>2, <3>4, <3>5 DEF CoverInv, CoveredAfter
    <2> QED BY <2>2, <2>4, <2>5 DEF ClientInv
  <1> QED BY <1>7, <1>8 DEF StreamInv

LEMMA ShutdownStep ==
    ASSUME StreamInv, Shutdown
    PROVE  StreamInv'
  <1> USE DEF handlerVars, sourceVars, clientVars
  <1>1. TypeOK /\ MaxFaults \in Nat
    BY ConstantsAssumption DEF StreamInv, ConstantsAssumption
  <1>2. UNCHANGED <<head, unpublished, unannounced, pc, lastSent, pageEnd, short, pending, held,
                    buf, wire, url, lastEventId, cursor, floor, seen, openedAt>>
    BY DEF Shutdown
  <1>3. ASSUME NEW c \in Clients
        PROVE  /\ sub'[c] # "attached"
               /\ sub'[c] = "none" <=> sub[c] = "none"
    BY <1>1 DEF Shutdown
  <1>4. TypeOK'
    <2>1. faults' \in 0..MaxFaults /\ shutdown' \in BOOLEAN
      BY <1>1 DEF TypeOK, Shutdown
    <2>2. sub' \in [Clients -> {"none", "attached", "closed"}]
      BY <1>1 DEF TypeOK, Shutdown
    <2> QED
      BY <1>1, <1>2, <2>1, <2>2 DEF TypeOK
  <1>5. ASSUME NEW c \in Clients PROVE ClientInv(c)'
    <2>1. ClientInv(c)
      BY DEF StreamInv
    <2>2. CursorInv(c)' /\ WireInv(c)'
      BY <1>2, <2>1 DEF ClientInv, CursorInv, WireInv
    <2>3. HandlerInv(c)'
      BY <1>2, <1>3, <2>1 DEF ClientInv, HandlerInv, Serving
    <2>4. CoverInv(c)'
      BY <1>3 DEF CoverInv
    <2> QED BY <2>2, <2>3, <2>4 DEF ClientInv
  <1> QED BY <1>4, <1>5 DEF StreamInv

LEMMA ReplacedStep ==
    ASSUME StreamInv, Crash \/ Restart
    PROVE  StreamInv'
  <1>1. TypeOK /\ MaxFaults \in Nat /\ Buffer \in Nat /\ MaxPosition \in Nat /\ ProcessReplaced
    BY ConstantsAssumption DEF StreamInv, ConstantsAssumption, Crash, Restart
  <1>2. faults' \in 0..MaxFaults
    BY <1>1 DEF TypeOK, Crash, Restart
  <1>3. UNCHANGED <<head, lastSent, pageEnd, short, pending, wire, url, lastEventId, cursor,
                    floor, seen, openedAt>>
    BY <1>1 DEF ProcessReplaced, sourceVars, clientVars
  <1>4. ASSUME NEW c \in Clients
        PROVE  pc'[c] = "idle" /\ sub'[c] = "none" /\ buf'[c] = <<>> /\ held'[c] = NoEvent
    BY <1>1 DEF ProcessReplaced
  <1>5. TypeOK'
    <2>1. /\ pc' \in [Clients -> PcStates]
          /\ sub' \in [Clients -> {"none", "attached", "closed"}]
          /\ unpublished' \subseteq 1..head'
          /\ unannounced' \subseteq 1..head'
          /\ shutdown' \in BOOLEAN
      BY <1>1 DEF ProcessReplaced, PcStates
    <2>2. buf' \in [Clients -> Seq(Positions)]
      BY <1>1 DEF ProcessReplaced
    <2>3. \A c \in Clients : Len(buf'[c]) <= Buffer
      BY <1>1, <1>4
    <2>4. held' \in [Clients -> 0..MaxPosition]
      BY <1>1 DEF ProcessReplaced, NoEvent
    <2> QED
      BY <1>1, <1>2, <1>3, <2>1, <2>2, <2>3, <2>4 DEF TypeOK
  <1>6. ASSUME NEW c \in Clients PROVE ClientInv(c)'
    <2>1. ClientInv(c)
      BY DEF StreamInv
    <2>2. CursorInv(c)'
      BY <1>3, <1>4, <2>1 DEF ClientInv, CursorInv
    <2>3. WireInv(c)'
      BY <1>3, <1>4, <2>1 DEF ClientInv, WireInv
    <2>4. HandlerInv(c)' /\ CoverInv(c)'
      BY <1>4 DEF HandlerInv, CoverInv, Serving
    <2> QED BY <2>2, <2>3, <2>4 DEF ClientInv
  <1> QED BY <1>5, <1>6 DEF StreamInv

LEMMA NextInv == StreamInv /\ [Next]_vars => StreamInv'
  <1> SUFFICES ASSUME StreamInv, [Next]_vars PROVE StreamInv'
    OBVIOUS
  <1>1. CASE Commit \/ CommitUnknown
    BY <1>1, CommitStep
  <1>2. CASE \E p \in Positions : Publish(p)
    BY <1>2, PublishStep
  <1>3. CASE Shutdown
    BY <1>3, ShutdownStep
  <1>4. CASE Crash \/ Restart
    BY <1>4, ReplacedStep
  <1>5. ASSUME NEW c \in Clients, Connect(c) \/ Receive(c) PROVE StreamInv'
    BY <1>5, ConnectStep, ReceiveStep
  <1>6. ASSUME NEW c \in Clients, Handler(c) PROVE StreamInv'
    BY <1>6, ResolveStep, SubscribeStep, ReadPageStep, WritePageStep, DrainOneStep,
       DrainEndStep, LiveEventStep, FillStep, ReturnActions DEF Handler
  <1>7. ASSUME NEW c \in Clients, ReadFails(c) \/ Disconnect(c) PROVE StreamInv'
    BY <1>7, ReturnActions
  <1>8. CASE UNCHANGED vars
    BY <1>8 DEF vars, logVars, handlerVars, subVars, sourceVars, clientVars, StreamInv, TypeOK,
                ClientInv, CursorInv, WireInv, HandlerInv, CoverInv, CoveredAfter, Serving,
                Buffered
  <1> QED
    BY <1>1, <1>2, <1>3, <1>4, <1>5, <1>6, <1>7, <1>8 DEF Next

\* The strengthened invariant holds in every reachable state.
THEOREM StreamInvariant == Spec => []StreamInv
  <1>1. Init => StreamInv
    BY InitInv
  <1>2. StreamInv /\ [Next]_vars => StreamInv'
    BY NextInv
  <1> QED BY <1>1, <1>2, PTL DEF Spec

\* Type correctness, the bound on every subscription's buffer included.
THEOREM TypeCorrect == Spec => []TypeOK
  <1>1. StreamInv => TypeOK
    BY DEF StreamInv
  <1> QED BY <1>1, StreamInvariant, PTL

\* Gapless delivery: whatever interleaving of commits, publishes, overflows,
\* reconnects, failures and restarts, a client has processed exactly the positions
\* from its start to its cursor (Handler.live and handleMessage).
THEOREM Gapless == Spec => []GaplessDelivery
  <1>1. StreamInv => GaplessDelivery
    BY DEF StreamInv, ClientInv, CursorInv, GaplessDelivery
  <1> QED BY <1>1, StreamInvariant, PTL

\* Nothing the stream holds is ahead of the log, resumed cursors included
\* (Handler.Stream, start > head).
THEOREM StaysWithinLog == Spec => []WithinLog
  <1>1. StreamInv => WithinLog
    BY DEF StreamInv, ClientInv, HandlerInv, WireInv, WithinLog
  <1> QED BY <1>1, StreamInvariant, PTL

\* The replay-to-live handover: what a live connection still owes its client is in
\* its buffer or about to be published to it (Handler.replay and Broker.Publish).
THEOREM HandoverLosesNothing == Spec => []NothingLost
  <1>1. StreamInv => NothingLost
    BY DEF StreamInv, ClientInv, CoverInv, NothingLost
  <1> QED BY <1>1, StreamInvariant, PTL

\* One frame received is the first position of a fresh client or the successor of
\* the client's cursor, and committed; or the cursor does not move.
LEMMA ReceiveDelivers ==
    ASSUME StreamInv, NEW c \in Clients, Receive(c)
    PROVE  UNCHANGED <<head, cursor>> \/ Delivery!Start(c) \/ Delivery!Process(c)
  <1> DEFINE p == Head(wire[c])
             n == Len(wire[c])
  <1>1. TypeOK /\ WireInv(c) /\ wire[c] # <<>> /\ head' = head
    BY DEF StreamInv, ClientInv, Receive, logVars
  <1>2. n \in Nat \ {0} /\ p = wire[c][1] /\ p \in Positions
    BY <1>1, Typed, TakeOne
  <1>3. p \in 1..head
    BY <1>1, <1>2, Typed DEF WireInv, Positions
  <1>4. p = lastSent[c] - n + 1
    BY <1>1, <1>2 DEF WireInv
  <1>5. CASE Known(c, p)
    BY <1>1, <1>5 DEF Receive, clientVars
  <1>6. CASE ~Known(c, p) /\ cursor[c] = liveOnly
    <2>1. cursor' = [cursor EXCEPT ![c] = p]
      BY <1>6 DEF Receive
    <2> QED
      BY <1>1, <1>3, <1>6, <2>1 DEF Delivery!Start
  <1>7. CASE ~Known(c, p) /\ cursor[c] # liveOnly
    <2>1. p = cursor[c] + 1
      BY <1>1, <1>2, <1>3, <1>4, <1>7, Typed DEF Known, WireInv
    <2>2. cursor' = [cursor EXCEPT ![c] = cursor[c] + 1]
      BY <1>7, <2>1 DEF Receive
    <2> QED
      BY <1>1, <1>3, <1>7, <2>1, <2>2, Typed DEF Delivery!Process
  <1> QED BY <1>5, <1>6, <1>7

\* The stream refines the abstract delivery: every step commits one event, moves
\* one client's cursor to the successor, or is invisible.
THEOREM StreamImplementsDelivery == Spec => ImplementsDelivery
  <1>1. Init => Delivery!Init
    BY ConstantsAssumption DEF ConstantsAssumption, Init, Delivery!Init, Cursors
  <1>2. StreamInv /\ [Next]_vars => [Delivery!Next]_(Delivery!vars)
    <2> SUFFICES ASSUME StreamInv, [Next]_vars
                 PROVE  Delivery!Next \/ UNCHANGED <<head, cursor>>
      BY DEF Delivery!vars
    <2>1. CASE Commit \/ CommitUnknown
      BY <2>1 DEF Commit, CommitUnknown, clientVars, Delivery!Next, Delivery!Commit
    <2>2. CASE \E p \in Positions : Publish(p)
      BY <2>2 DEF Publish, clientVars
    <2>3. CASE Shutdown \/ Crash \/ Restart
      BY <2>3 DEF Shutdown, Crash, Restart, ProcessReplaced, clientVars
    <2>4. ASSUME NEW c \in Clients, Receive(c)
          PROVE  Delivery!Next \/ UNCHANGED <<head, cursor>>
      BY <2>4, ReceiveDelivers DEF Delivery!Next
    <2>5. ASSUME NEW c \in Clients, Connect(c) \/ Handler(c) \/ ReadFails(c) \/ Disconnect(c)
          PROVE  UNCHANGED <<head, cursor>>
      BY <2>5 DEF Connect, Handler, ReadFails, Disconnect, Resolve, Subscribe, ReadPage,
                  WritePage, DrainOne, DrainEnd, LiveEvent, LiveClosed, Fill, logVars,
                  clientVars
    <2>6. CASE UNCHANGED vars
      BY <2>6 DEF vars, logVars, clientVars
    <2> QED
      BY <2>1, <2>2, <2>3, <2>4, <2>5, <2>6 DEF Next
  <1>3. Spec => []StreamInv
    BY StreamInvariant
  <1> QED
    BY <1>1, <1>2, <1>3, PTL DEF Spec, ImplementsDelivery, Delivery!Spec

=============================================================================
