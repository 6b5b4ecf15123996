----------------------------- MODULE EventStream -----------------------------
(* The live event stream of one project: the commits of the event log, the     *)
(* ingesting goroutines that publish them afterwards, the in-process broker     *)
(* with its bounded subscriptions (backend/internal/sse/broker.go), one stream  *)
(* handler per connection (backend/internal/sse/stream.go) and the browser's    *)
(* client (frontend/src/api/liveStream.ts).  An event is its project position;  *)
(* the log of the project is 1..head.                                           *)
EXTENDS Integers, Sequences

CONSTANTS
    Clients,       \* the cockpit tabs following the project
    Buffer,        \* capacity of a subscription's channel (DefaultSubscriberBuffer)
    PageSize,      \* events per replay page (DefaultReplayPageSize)
    InitialHead,   \* the log may already hold up to so many events
    MaxPosition,   \* bound: events committed in all
    MaxFaults      \* bound: faults injected in all

ASSUME ConstantsAssumption ==
    /\ Buffer \in Nat \ {0}
    /\ PageSize \in Nat \ {0}
    /\ InitialHead \in Nat
    /\ MaxPosition \in Nat
    /\ InitialHead <= MaxPosition
    /\ MaxFaults \in Nat

\* The cursor of a connection or a client that has no baseline.
liveOnly == -1

\* No event is held back while a gap is being filled.
NoEvent == 0

Positions == 1..MaxPosition
Cursors == {liveOnly} \union 0..MaxPosition

VARIABLES
    head,          \* Project.LastPosition: the log is 1..head
    unpublished,   \* committed, but the ingesting goroutine has not published yet
    unannounced,   \* committed by this process and never to be published
    shutdown,      \* Broker.shutdown
    faults,        \* how many faults were injected
    \* one stream handler per client
    pc,            \* where the handler is
    lastSent,      \* connection.lastSent (before the replay: the start position)
    sub,           \* the subscription: "none", "attached" or "closed"
    buf,           \* Subscription.events
    pageEnd,       \* last position of the page being written
    short,         \* len(page) < pageSize for the page read last
    pending,       \* drain found an event beyond lastSent
    held,          \* the live event that waits for the gap before it
    \* one EventSource per client
    wire,          \* frames written and not yet handed to the client
    url,           \* the lastEventPosition query of the current EventSource
    lastEventId,   \* the browser's Last-Event-ID of the current EventSource
    cursor,        \* lastPosition of connectLiveStream, null = liveOnly
    \* history
    floor,         \* the position before the first one the client processes
    openedAt,      \* head when a stream without a baseline was opened, else liveOnly
    seen           \* the positions the client processed

logVars == <<head, unpublished, unannounced, shutdown>>
handlerVars == <<pc, lastSent, pageEnd, short, pending, held>>
subVars == <<sub, buf>>
sourceVars == <<url, lastEventId>>
clientVars == <<cursor, floor, seen>>
vars == <<logVars, faults, handlerVars, subVars, wire, sourceVars, clientVars, openedAt>>

Min2(a, b) == IF a <= b THEN a ELSE b

PcStates == {"idle", "resolve", "subscribe", "replay", "write", "drain", "live", "fill"}

-----------------------------------------------------------------------------
(* Initially nothing runs.  A client is a fresh tab (no cursor) or returns to   *)
(* a project it followed before; its cursor may lie beyond the log when the     *)
(* database was reset in between.                                               *)

Init ==
    /\ head \in 0..InitialHead
    /\ unpublished = {}
    /\ unannounced = {}
    /\ shutdown = FALSE
    /\ faults = 0
    /\ pc = [c \in Clients |-> "idle"]
    /\ lastSent = [c \in Clients |-> liveOnly]
    /\ sub = [c \in Clients |-> "none"]
    /\ buf = [c \in Clients |-> <<>>]
    /\ pageEnd = [c \in Clients |-> 0]
    /\ short = [c \in Clients |-> FALSE]
    /\ pending = [c \in Clients |-> FALSE]
    /\ held = [c \in Clients |-> NoEvent]
    /\ wire = [c \in Clients |-> <<>>]
    /\ cursor \in [Clients -> Cursors]
    /\ url = cursor
    /\ lastEventId = [c \in Clients |-> liveOnly]
    /\ floor = cursor
    /\ openedAt = [c \in Clients |-> liveOnly]
    /\ seen = [c \in Clients |-> {}]

-----------------------------------------------------------------------------
(* The ingesting goroutines and the broker.                                     *)

\* AppendGuarded commits: the position is assigned under the project row lock.
\* The publish call comes later, from the same goroutine, outside any lock.
Commit ==
    /\ head < MaxPosition
    /\ head' = head + 1
    /\ unpublished' = unpublished \union {head + 1}
    /\ UNCHANGED <<unannounced, shutdown, faults, handlerVars, subVars, wire, sourceVars,
                   clientVars, openedAt>>

\* The database commits, but the goroutine gets an error instead of the outcome
\* (its request was cancelled, the database connection broke): submit publishes
\* only when AppendGuarded returned no error, and the retry is a duplicate.
CommitUnknown ==
    /\ head < MaxPosition
    /\ faults < MaxFaults
    /\ faults' = faults + 1
    /\ head' = head + 1
    /\ unannounced' = unannounced \union {head + 1}
    /\ UNCHANGED <<unpublished, shutdown, handlerVars, subVars, wire, sourceVars,
                   clientVars, openedAt>>

\* Whether the channel of an attached subscription takes one more event.
HasRoom(c) == Len(buf[c]) < Buffer

\* Mutant: an event that does not fit is dropped, and the subscription goes on.
KeepOverflowed(c) == sub[c]

\* A subscription that has no room is detached and its end is signalled.
DetachOverflowed(c) == IF sub[c] = "attached" /\ ~HasRoom(c) THEN "closed" ELSE sub[c]

\* Broker.Publish: a non-blocking send to every subscription; one whose buffer is
\* full is dropped.
Publish(p) ==
    /\ p \in unpublished
    /\ unpublished' = unpublished \ {p}
    /\ buf' = [c \in Clients |->
                  IF sub[c] = "attached" /\ HasRoom(c) THEN Append(buf[c], p) ELSE buf[c]]
    /\ sub' = [c \in Clients |-> DetachOverflowed(c)]
    /\ UNCHANGED <<head, unannounced, shutdown, faults, handlerVars, wire, sourceVars,
                   clientVars, openedAt>>

\* Broker.Shutdown: every subscription ends, later ones come back closed.
Shutdown ==
    /\ ~shutdown
    /\ faults < MaxFaults
    /\ faults' = faults + 1
    /\ shutdown' = TRUE
    /\ sub' = [c \in Clients |-> IF sub[c] = "attached" THEN "closed" ELSE sub[c]]
    /\ UNCHANGED <<head, unpublished, unannounced, handlerVars, buf, wire, sourceVars,
                   clientVars, openedAt>>

-----------------------------------------------------------------------------
(* The client: connectLiveStream and the EventSource below it.                  *)

\* Handler.startPosition: the query wins over the Last-Event-ID header.
StartPosition(query, header) == IF query # liveOnly THEN query ELSE header

Request(c, query, header) ==
    /\ url' = [url EXCEPT ![c] = query]
    /\ lastEventId' = [lastEventId EXCEPT ![c] = header]
    /\ lastSent' = [lastSent EXCEPT ![c] = StartPosition(query, header)]

\* A request reaches the server.  The browser's own reconnect repeats the URL and
\* adds the header; the manual one opens a new EventSource at the client's cursor.
\* Frames of the previous response that did not arrive are gone.
Connect(c) ==
    /\ pc[c] = "idle"
    /\ pc' = [pc EXCEPT ![c] = "resolve"]
    /\ \/ Request(c, url[c], lastEventId[c])
       \/ Request(c, cursor[c], liveOnly)
    /\ wire' = [wire EXCEPT ![c] = <<>>]
    /\ UNCHANGED <<logVars, faults, pageEnd, short, pending, held, subVars, clientVars,
                   openedAt>>

\* Mutant: the client applies every frame.
NothingKnown(c, p) == FALSE

\* Whether the client has processed the position already.
Known(c, p) == p <= cursor[c]

\* handleMessage: a position at or below the cursor is dropped, anything else is
\* applied and becomes the cursor.  The browser remembers the id either way.
Receive(c) ==
    /\ wire[c] # <<>>
    /\ wire' = [wire EXCEPT ![c] = Tail(@)]
    /\ lastEventId' = [lastEventId EXCEPT ![c] = Head(wire[c])]
    /\ IF Known(c, Head(wire[c]))
       THEN UNCHANGED clientVars
       ELSE /\ cursor' = [cursor EXCEPT ![c] = Head(wire[c])]
            /\ floor' = [floor EXCEPT ![c] =
                            IF cursor[c] = liveOnly THEN Head(wire[c]) - 1 ELSE @]
            /\ seen' = [seen EXCEPT ![c] = @ \union {Head(wire[c])}]
    /\ UNCHANGED <<logVars, faults, handlerVars, subVars, url, openedAt>>

-----------------------------------------------------------------------------
(* The stream handler: Handler.Stream, replay, drain, live and fill.            *)

\* The handler returns: the deferred Close unsubscribes and its locals are gone.
\* The frames it wrote may still be on their way.
Return(c) ==
    /\ pc' = [pc EXCEPT ![c] = "idle"]
    /\ sub' = [sub EXCEPT ![c] = "none"]
    /\ buf' = [buf EXCEPT ![c] = <<>>]
    /\ held' = [held EXCEPT ![c] = NoEvent]

\* A cursor beyond the end of the log starts at the end instead.
ClampedStart(c) == Min2(lastSent[c], head)

\* Reading the project's position: a project without an event does not exist
\* (404).
Resolve(c) ==
    /\ pc[c] = "resolve"
    /\ IF head = 0
       THEN Return(c) /\ UNCHANGED lastSent
       ELSE /\ lastSent' = [lastSent EXCEPT ![c] = ClampedStart(c)]
            /\ pc' = [pc EXCEPT ![c] = "subscribe"]
            /\ UNCHANGED <<subVars, held>>
    /\ UNCHANGED <<logVars, faults, pageEnd, short, pending, wire, sourceVars, clientVars,
                   openedAt>>

\* Broker.Subscribe and the opening keepalive, which is what fires the client's
\* open event.
Subscribe(c) ==
    /\ pc[c] = "subscribe"
    /\ sub' = [sub EXCEPT ![c] = IF shutdown THEN "closed" ELSE "attached"]
    /\ pc' = [pc EXCEPT ![c] = IF lastSent[c] = liveOnly THEN "live" ELSE "replay"]
    /\ openedAt' = [openedAt EXCEPT ![c] = IF lastSent[c] = liveOnly THEN head ELSE liveOnly]
    /\ UNCHANGED <<logVars, faults, lastSent, pageEnd, short, pending, held, buf, wire,
                   sourceVars, clientVars>>

\* EventReader.Page after lastSent without an upper bound.
ReadPage(c) ==
    /\ pc[c] = "replay"
    /\ pageEnd' = [pageEnd EXCEPT ![c] = Min2(head, lastSent[c] + PageSize)]
    /\ short' = [short EXCEPT ![c] = head < lastSent[c] + PageSize]
    /\ pending' = [pending EXCEPT ![c] = FALSE]
    /\ pc' = [pc EXCEPT ![c] = "write"]
    /\ UNCHANGED <<logVars, faults, lastSent, held, subVars, wire, sourceVars, clientVars,
                   openedAt>>

\* connection.send: one frame, and lastSent becomes its position.
Send(c, p) ==
    /\ wire' = [wire EXCEPT ![c] = Append(@, p)]
    /\ lastSent' = [lastSent EXCEPT ![c] = p]

\* One event of the page, or the end of the page.
WritePage(c) ==
    /\ pc[c] = "write"
    /\ IF lastSent[c] < pageEnd[c]
       THEN Send(c, lastSent[c] + 1) /\ UNCHANGED pc
       ELSE pc' = [pc EXCEPT ![c] = "drain"] /\ UNCHANGED <<wire, lastSent>>
    /\ UNCHANGED <<logVars, faults, pageEnd, short, pending, held, subVars, sourceVars,
                   clientVars, openedAt>>

\* drain discards one buffered event; one beyond lastSent is still missing.
DrainOne(c) ==
    /\ pc[c] = "drain"
    /\ buf[c] # <<>>
    /\ buf' = [buf EXCEPT ![c] = Tail(@)]
    /\ pending' = [pending EXCEPT ![c] = @ \/ Head(buf[c]) > lastSent[c]]
    /\ UNCHANGED <<logVars, faults, pc, lastSent, pageEnd, short, held, sub, wire,
                   sourceVars, clientVars, openedAt>>

\* Mutant: a short page alone ends the replay.
ShortPage(c) == short[c]

\* The replay ends only when the page was short and nothing was pending.
ReplayDone(c) == short[c] /\ ~pending[c]

\* The buffer is empty: go live, end with the subscription, or read another page.
DrainEnd(c) ==
    /\ pc[c] = "drain"
    /\ buf[c] = <<>>
    /\ \/ /\ ReplayDone(c)
          /\ pc' = [pc EXCEPT ![c] = "live"]
          /\ UNCHANGED <<subVars, held>>
       \/ /\ ~ReplayDone(c)
          /\ sub[c] = "closed"
          /\ Return(c)
       \/ /\ ~ReplayDone(c)
          /\ sub[c] = "attached"
          /\ pc' = [pc EXCEPT ![c] = "replay"]
          /\ UNCHANGED <<subVars, held>>
    /\ UNCHANGED <<logVars, faults, lastSent, pageEnd, short, pending, wire, sourceVars,
                   clientVars, openedAt>>

\* What the live loop does with an event: a stream without a baseline sends
\* whatever comes first; otherwise an event already sent is dropped, and one that
\* is not the next waits until the gap before it is filled.
Stale(c, p) == lastSent[c] # liveOnly /\ p <= lastSent[c]

\* Mutant: the live loop trusts the order in which the broker delivers.
NoGap(c, p) == FALSE
Gap(c, p) == lastSent[c] # liveOnly /\ p > lastSent[c] + 1

LiveEvent(c) ==
    /\ pc[c] = "live"
    /\ buf[c] # <<>>
    /\ buf' = [buf EXCEPT ![c] = Tail(@)]
    /\ LET p == Head(buf[c])
       IN  \/ /\ Stale(c, p)
              /\ UNCHANGED <<pc, held, wire, lastSent>>
           \/ /\ Gap(c, p)
              /\ pc' = [pc EXCEPT ![c] = "fill"]
              /\ held' = [held EXCEPT ![c] = p]
              /\ UNCHANGED <<wire, lastSent>>
           \/ /\ ~Stale(c, p) /\ ~Gap(c, p)
              /\ Send(c, p)
              /\ UNCHANGED <<pc, held>>
    /\ UNCHANGED <<logVars, faults, pageEnd, short, pending, sub, sourceVars, clientVars,
                   openedAt>>

\* The select may take the closed subscription even when events are buffered.
LiveClosed(c) ==
    /\ pc[c] = "live"
    /\ sub[c] = "closed"
    /\ Return(c)
    /\ UNCHANGED <<logVars, faults, lastSent, pageEnd, short, pending, wire, sourceVars,
                   clientVars, openedAt>>

\* fill writes the missing positions from the log, then the held event goes out.
\* The log below a published position never changes, so its pages need no bound.
Fill(c) ==
    /\ pc[c] = "fill"
    /\ Send(c, lastSent[c] + 1)
    /\ IF lastSent[c] + 1 = held[c]
       THEN /\ pc' = [pc EXCEPT ![c] = "live"]
            /\ held' = [held EXCEPT ![c] = NoEvent]
       ELSE UNCHANGED <<pc, held>>
    /\ UNCHANGED <<logVars, faults, pageEnd, short, pending, subVars, sourceVars,
                   clientVars, openedAt>>

-----------------------------------------------------------------------------
(* Faults.                                                                      *)

\* A database read of the handler fails: 500 before the stream is open, the end
\* of the stream afterwards.
ReadFails(c) ==
    /\ pc[c] \in {"resolve", "replay", "fill"}
    /\ faults < MaxFaults
    /\ faults' = faults + 1
    /\ Return(c)
    /\ UNCHANGED <<logVars, lastSent, pageEnd, short, pending, wire, sourceVars,
                   clientVars, openedAt>>

\* The connection breaks.  The handler sees its context done and returns; the
\* frames in flight are lost.
Disconnect(c) ==
    /\ pc[c] # "idle"
    /\ faults < MaxFaults
    /\ faults' = faults + 1
    /\ Return(c)
    /\ wire' = [wire EXCEPT ![c] = <<>>]
    /\ UNCHANGED <<logVars, lastSent, pageEnd, short, pending, sourceVars, clientVars,
                   openedAt>>

\* The process is gone, and with it the broker, every handler and every publish
\* call not made yet.  The log stays.
ProcessReplaced ==
    /\ unpublished' = {}
    /\ unannounced' = {}
    /\ shutdown' = FALSE
    /\ pc' = [c \in Clients |-> "idle"]
    /\ sub' = [c \in Clients |-> "none"]
    /\ buf' = [c \in Clients |-> <<>>]
    /\ held' = [c \in Clients |-> NoEvent]
    /\ UNCHANGED <<head, lastSent, pageEnd, short, pending, wire, sourceVars, clientVars,
                   openedAt>>

Crash ==
    /\ ~shutdown
    /\ faults < MaxFaults
    /\ faults' = faults + 1
    /\ ProcessReplaced

Restart ==
    /\ shutdown
    /\ UNCHANGED faults
    /\ ProcessReplaced

-----------------------------------------------------------------------------

Handler(c) ==
    \/ Resolve(c) \/ Subscribe(c)
    \/ ReadPage(c) \/ WritePage(c) \/ DrainOne(c) \/ DrainEnd(c)
    \/ LiveEvent(c) \/ LiveClosed(c) \/ Fill(c)

Next ==
    \/ Commit \/ CommitUnknown
    \/ \E p \in Positions : Publish(p)
    \/ Shutdown \/ Crash \/ Restart
    \/ \E c \in Clients : Connect(c) \/ Receive(c) \/ Handler(c)
                          \/ ReadFails(c) \/ Disconnect(c)

Spec == Init /\ [][Next]_vars

\* Goroutines are scheduled, browsers reconnect and read what arrives, and a
\* backend that was shut down is started again.  Nothing makes agents commit and
\* nothing makes a fault happen.
Fairness ==
    /\ \A p \in Positions : WF_vars(Publish(p))
    /\ WF_vars(Restart)
    /\ \A c \in Clients : WF_vars(Connect(c)) /\ WF_vars(Receive(c)) /\ WF_vars(Handler(c))

FairSpec == Spec /\ Fairness

-----------------------------------------------------------------------------
(* Properties.                                                                  *)

TypeOK ==
    /\ head \in 0..MaxPosition
    /\ unpublished \subseteq 1..head
    /\ unannounced \subseteq 1..head
    /\ shutdown \in BOOLEAN
    /\ faults \in 0..MaxFaults
    /\ pc \in [Clients -> PcStates]
    /\ lastSent \in [Clients -> Cursors]
    /\ sub \in [Clients -> {"none", "attached", "closed"}]
    /\ buf \in [Clients -> Seq(Positions)]
    /\ \A c \in Clients : Len(buf[c]) <= Buffer
    /\ pageEnd \in [Clients -> 0..MaxPosition]
    /\ short \in [Clients -> BOOLEAN]
    /\ pending \in [Clients -> BOOLEAN]
    /\ held \in [Clients -> 0..MaxPosition]
    /\ wire \in [Clients -> Seq(Positions)]
    /\ url \in [Clients -> Cursors]
    /\ lastEventId \in [Clients -> Cursors]
    /\ cursor \in [Clients -> Cursors]
    /\ floor \in [Clients -> Cursors]
    /\ openedAt \in [Clients -> Cursors]
    /\ seen \in [Clients -> SUBSET Positions]

Buffered(c, p) == \E i \in 1..Len(buf[c]) : buf[c][i] = p

\* A handler that is subscribed and relies on the broker for what is to come.
Serving(c) == pc[c] \in {"replay", "write", "drain", "live", "fill"}

\* What connectLiveStream and the browser remember never runs ahead of what the
\* client processed, and a client with a cursor never asks for a stream without a
\* baseline.
CursorInv(c) ==
    /\ url[c] <= cursor[c]
    /\ lastEventId[c] <= cursor[c]
    /\ url[c] = liveOnly /\ lastEventId[c] = liveOnly => cursor[c] = liveOnly
    /\ pc[c] # "idle" /\ lastSent[c] = liveOnly => cursor[c] = liveOnly
    /\ floor[c] <= cursor[c]
    /\ seen[c] = (floor[c] + 1)..cursor[c]

\* The frames in flight are consecutive positions that end with lastSent, and the
\* first of them is at most the successor of the client's cursor.
WireInv(c) ==
    /\ \A i \in 1..Len(wire[c]) : wire[c][i] = lastSent[c] - Len(wire[c]) + i
    /\ \A i \in 1..Len(wire[c]) : wire[c][i] <= head
    /\ pc[c] \in {"resolve", "subscribe"} => wire[c] = <<>>
    /\ (pc[c] # "idle" \/ wire[c] # <<>>) /\ cursor[c] # liveOnly
          => lastSent[c] - Len(wire[c]) <= cursor[c]

\* A handler holds a subscription from the moment it subscribes until it returns,
\* and where it stands in the log fits what it is doing.
HandlerInv(c) ==
    /\ Serving(c) <=> sub[c] # "none"
    /\ sub[c] = "none" => buf[c] = <<>>
    /\ \A i \in 1..Len(buf[c]) : buf[c][i] <= head
    /\ Serving(c) \/ pc[c] = "subscribe" => lastSent[c] <= head
    /\ Serving(c) /\ pc[c] # "live" => lastSent[c] # liveOnly
    /\ pc[c] = "write" => lastSent[c] <= pageEnd[c] /\ pageEnd[c] <= head /\ ~pending[c]
    /\ pc[c] = "fill" => lastSent[c] < held[c] /\ held[c] <= head

\* Every position beyond p that the connection is owed reaches it through the
\* broker, unless its ingesting goroutine never published it.
CoveredAfter(c, p) ==
    \A q \in 1..head : q > p /\ q > openedAt[c] =>
        q \in unpublished \/ q \in unannounced \/ Buffered(c, q)

CoverInv(c) ==
    sub[c] = "attached" =>
        /\ pc[c] = "write" /\ short[c] => CoveredAfter(c, pageEnd[c])
        /\ pc[c] = "drain" /\ short[c] /\ ~pending[c] => CoveredAfter(c, lastSent[c])
        /\ pc[c] = "live" => CoveredAfter(c, lastSent[c])
        /\ pc[c] = "fill" => CoveredAfter(c, held[c])

ClientInv(c) == CursorInv(c) /\ WireInv(c) /\ HandlerInv(c) /\ CoverInv(c)

\* The inductive invariant behind the safety properties below: the cursors, the
\* frames in flight, the handler's place in the log and the coverage by the broker
\* fit together at every step of every actor.
StreamInv == TypeOK /\ \A c \in Clients : ClientInv(c)

\* Every client has processed each position from its start to its cursor, exactly
\* those: nothing the server, the broker, a reconnect or a crash did made it skip
\* one (sse/stream.go "every position exactly once, in order").
GaplessDelivery == \A c \in Clients : seen[c] = (floor[c] + 1)..cursor[c]

\* No frame runs ahead of the log, and a resumed connection never sits beyond its
\* end, where it would filter away every later event (stream.go, "permanently
\* silent stream").
WithinLog ==
    \A c \in Clients :
        /\ Serving(c) => lastSent[c] <= head
        /\ \A i \in 1..Len(buf[c]) : buf[c][i] <= head
        /\ \A i \in 1..Len(wire[c]) : wire[c][i] <= head

\* The replay-to-live handover loses nothing: whatever a live connection has not
\* sent yet is in its buffer or still to be published to it, or is an event no one
\* publishes (stream.go, "Either condition alone would leave a window in which an
\* event is neither in a page nor picked up by the live loop").  A stream without a
\* baseline is owed only what was committed after it opened.
NothingLost ==
    \A c \in Clients :
        pc[c] = "live" /\ sub[c] = "attached" => CoveredAfter(c, lastSent[c])

\* The stream implements the promise: cursors move along the log one by one.
Delivery == INSTANCE EventDelivery WITH NoCursor <- liveOnly
ImplementsDelivery == Delivery!Spec

\* Once a client has a cursor it always catches up with the log again, whatever
\* overflows, failures and restarts happen on the way (a stream without a baseline:
\* with what was committed after it opened).  An event that was never published may
\* stay out as long as no later one follows it.
CaughtUp(c) == \A q \in 1..head : q > cursor[c] /\ q > openedAt[c] => q \in unannounced
CatchesUp == \A c \in Clients : [](cursor[c] # liveOnly => <>CaughtUp(c))

\* A client that has seen the opening comment of a stream without a baseline
\* receives every event committed from then on (stream.go:160, "a client that
\* waits for it cannot miss a live event it should have seen").
OpenedStreamMissesNothing ==
    \A c \in Clients :
        openedAt[c] # liveOnly /\ cursor[c] # liveOnly => floor[c] <= openedAt[c]

\* A client whose cursor lies beyond the log, because the database was reset, still
\* follows the project: every frame it receives is one it has processed or
\* processes now (stream.go:140, "Resuming from it verbatim would filter away every
\* event until the project caught up again").
ReceivedFramesAreProcessed ==
    [][\A c \in Clients : Receive(c) => Head(wire[c]) \in seen'[c]]_vars

=============================================================================
