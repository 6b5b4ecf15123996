-------------------------------- MODULE Process --------------------------------
(* The life of the backend's process (backend/cmd/server/main.go): it admits requests   *)
(* once its schema is migrated, and on a signal it withdraws the admission, ends the      *)
(* streams, drains the renderer, the MCP transport (mcptransport/handler.go) and the      *)
(* HTTP server within one budget, and closes the database last.                           *)
(*                                                                                        *)
(* Every request may be an ordinary one, a stream or a call of the MCP transport, which   *)
(* opens sessions and runs tools in them; a tool may render (RenderService).  The MCP     *)
(* library is external: a session that is closed has first waited for its tools, and a    *)
(* tool may outlive the request that called it, whose client went away.  The renderer is  *)
(* configured.                                                                            *)
EXTENDS RenderService

CONSTANTS main, unwind, None    \* the closers of the renderer; no session

ASSUME ProcessAssumption ==
    /\ {main, unwind} \subseteq Closers
    /\ None \notin Calls

VARIABLES
    stage,        \* where run() is
    failed,       \* run() returns an error
    ready,        \* checker.bootstrapped
    listening,    \* the listener accepts connections
    kind, at,     \* what a request is, and where
    gone,         \* the requests whose context has ended
    streamsEnd,   \* the broker is shut down
    mcpClosed,    \* h.closed
    sessions,     \* the sessions of the MCP server, named after the request that opened them
    tool,         \* the session in which the tool of a request runs
    sweep, swept  \* the goroutine of Handler.Shutdown, and the sessions it has still to close

processVars == <<stage, failed, ready, listening, kind, at, gone, streamsEnd,
                 mcpClosed, sessions, tool, sweep, swept>>
requestVars == <<kind, at, gone, sessions, tool>>
mainVars == <<stage, failed, ready, listening, streamsEnd, mcpClosed, sweep, swept>>

ProcessInit ==
    /\ Init
    /\ stage = "starting" /\ failed = FALSE
    /\ ready = FALSE /\ listening = TRUE
    /\ kind = [r \in Calls |-> "none"] /\ at = [r \in Calls |-> "none"]
    /\ gone = {}
    /\ streamsEnd = FALSE /\ mcpClosed = FALSE
    /\ sessions = {} /\ tool = [r \in Calls |-> None]
    /\ sweep = "none" /\ swept = {}

-----------------------------------------------------------------------------
(* Requests.                                                                       *)

Goes(r, place) == at' = [at EXCEPT ![r] = place]

Arrive(r, k) ==
    /\ listening /\ at[r] = "none"
    /\ Goes(r, "arrived") /\ kind' = [kind EXCEPT ![r] = k]
    /\ UNCHANGED <<vars, mainVars, gone, sessions, tool>>

\* requireBootstrap
Gate(r) ==
    /\ at[r] = "arrived"
    /\ Goes(r, IF ready THEN "handled" ELSE "over")
    /\ UNCHANGED <<vars, mainVars, kind, gone, sessions, tool>>

\* An ordinary request answers; a stream ends once the broker or its client does.
Finish(r) ==
    /\ at[r] = "handled" /\ kind[r] # "mcp"
    /\ kind[r] = "stream" => streamsEnd \/ r \in gone
    /\ Goes(r, "over")
    /\ UNCHANGED <<vars, mainVars, kind, gone, sessions, tool>>

\* Handler.ServeHTTP: refused, or counted in one section under h.mu.
EnterMcp(r) ==
    /\ at[r] = "handled" /\ kind[r] = "mcp"
    /\ Goes(r, IF ~mcpClosed THEN "called" ELSE "over")
    /\ UNCHANGED <<vars, mainVars, kind, gone, sessions, tool>>

OpenSession(r) ==
    /\ at[r] = "called"
    /\ sessions' = sessions \union {r}
    /\ UNCHANGED <<vars, mainVars, kind, at, gone, tool>>

StartTool(r, s) ==
    /\ at[r] = "called" /\ tool[r] = None /\ r \notin gone
    /\ s \in sessions
    /\ tool' = [tool EXCEPT ![r] = s]
    /\ UNCHANGED <<vars, mainVars, kind, at, gone, sessions>>

EndTool(r) ==
    /\ tool[r] # None /\ pc[r] = "idle"
    /\ tool' = [tool EXCEPT ![r] = None]
    /\ UNCHANGED <<vars, mainVars, kind, at, gone, sessions>>

\* A tool that renders calls the renderer once.
Render(r) ==
    /\ pc[r] = "idle" => tool[r] # None /\ answer[r] = "none"
    /\ Call(r)
    /\ UNCHANGED processVars

LeaveMcp(r) ==
    /\ at[r] = "called"
    /\ tool[r] = None \/ r \in gone
    /\ Goes(r, "over")
    /\ UNCHANGED <<vars, mainVars, kind, gone, sessions, tool>>

ClientGoes(r) ==
    /\ at[r] \in {"handled", "called"} /\ r \notin gone
    /\ gone' = gone \union {r}
    /\ UNCHANGED <<vars, mainVars, kind, at, sessions, tool>>

\* A client deletes its session, or the session expires.
SessionEnds(s) ==
    /\ s \in sessions /\ \A r \in Calls : tool[r] # s
    /\ sessions' = sessions \ {s}
    /\ UNCHANGED <<vars, mainVars, kind, at, gone, tool>>

-----------------------------------------------------------------------------
(* run().                                                                          *)

Reach(next) == stage' = next /\ UNCHANGED failed
Give(from) == stage = from /\ stage' = "unwinding" /\ failed' = TRUE

Bootstrap ==
    /\ stage = "starting"
    /\ Reach("serving") /\ ready' = TRUE
    /\ UNCHANGED <<vars, requestVars, listening, streamsEnd, mcpClosed, sweep, swept>>

\* The migration fails, or the listener does.
FailToServe ==
    /\ Give("starting") \/ Give("serving")
    /\ UNCHANGED <<vars, requestVars, ready, listening, streamsEnd, mcpClosed, sweep, swept>>

Signal ==
    /\ stage = "serving"
    /\ Reach("ending streams") /\ ready' = FALSE
    /\ UNCHANGED <<vars, requestVars, listening, streamsEnd, mcpClosed, sweep, swept>>

EndStreams ==
    /\ stage = "ending streams"
    /\ Reach("draining renders") /\ streamsEnd' = TRUE
    /\ UNCHANGED <<vars, requestVars, ready, listening, mcpClosed, sweep, swept>>

\* renderer.Shutdown(shutdownCtx): an error ends the shutdown here.
DrainRenders ==
    /\ stage = "draining renders"
    /\ \/ Shutdown(main) /\ UNCHANGED <<stage, failed>>
       \/ ShutdownDone(main) /\ Reach("draining calls")
       \/ ShutdownExpired(main) /\ Give("draining renders")
    /\ UNCHANGED <<requestVars, ready, listening, streamsEnd, mcpClosed, sweep, swept>>

\* Handler.Shutdown: new calls are refused, those that run and the tools of those that
\* ran are cancelled, and a goroutine begins to close the sessions there are.
CloseMcp ==
    /\ stage = "draining calls" /\ ~mcpClosed
    /\ mcpClosed' = TRUE
    /\ gone' = gone \union {r \in Calls : at[r] = "called" \/ tool[r] # None}
    /\ sweep' = "first" /\ swept' = sessions
    /\ UNCHANGED <<vars, stage, failed, ready, listening, streamsEnd, kind, at, sessions, tool>>

DrainCalls ==
    /\ stage = "draining calls" /\ mcpClosed
    /\ \/ sweep = "done" /\ Reach("draining requests")
       \/ Give("draining calls")
    /\ UNCHANGED <<vars, requestVars, ready, listening, streamsEnd, mcpClosed, sweep, swept>>

InFlight == {r \in Calls : at[r] \in {"arrived", "handled", "called"}}

\* server.Shutdown(shutdownCtx)
DrainRequests ==
    /\ stage = "draining requests"
    /\ listening' = FALSE
    /\ \/ InFlight = {} /\ Reach("unwinding")
       \/ InFlight # {} /\ listening /\ UNCHANGED <<stage, failed>>
       \/ InFlight # {} /\ Give("draining requests")
    /\ UNCHANGED <<vars, requestVars, ready, streamsEnd, mcpClosed, sweep, swept>>

\* The deferred calls, the last one first: the admission, server.Close, which ends what
\* its connections still wait for, the renderer once more, the database.
Unwind ==
    /\ stage = "unwinding"
    /\ Reach("cleaning up")
    /\ ready' = FALSE /\ listening' = FALSE
    /\ gone' = gone \union InFlight
    /\ UNCHANGED <<vars, kind, at, sessions, tool, streamsEnd, mcpClosed, sweep, swept>>

CleanUp ==
    /\ stage = "cleaning up"
    /\ \/ Shutdown(unwind) /\ UNCHANGED <<stage, failed>>
       \/ (ShutdownDone(unwind) \/ ShutdownExpired(unwind)) /\ Reach("closed")
    /\ UNCHANGED <<requestVars, ready, listening, streamsEnd, mcpClosed, sweep, swept>>

Main ==
    \/ Bootstrap \/ EndStreams \/ DrainRenders \/ CloseMcp \/ DrainCalls \/ DrainRequests
    \/ Unwind \/ CleanUp

-----------------------------------------------------------------------------
(* The goroutine of Handler.Shutdown, which goes on when the budget is used up.    *)

\* Closing a session waits for its tools.
CloseSession(s) ==
    /\ s \in swept /\ \A r \in Calls : tool[r] # s
    /\ swept' = swept \ {s} /\ sessions' = sessions \ {s}
    /\ UNCHANGED <<vars, kind, at, gone, tool, stage, failed, ready, listening, streamsEnd, mcpClosed, sweep>>

\* Mutant: the sessions opened since the first pass stay.
SweptOnce == "done"

\* After the calls have drained, the sessions they opened meanwhile.
AfterCalls == "last"

Sweep ==
    /\ swept = {}
    /\ \/ sweep = "first" /\ sweep' = "calls" /\ UNCHANGED swept
       \/ /\ sweep = "calls" /\ \A r \in Calls : at[r] # "called"
          /\ sweep' = AfterCalls /\ swept' = sessions
       \/ sweep = "last" /\ sweep' = "done" /\ UNCHANGED swept
    /\ UNCHANGED <<vars, requestVars, stage, failed, ready, listening, streamsEnd, mcpClosed>>

-----------------------------------------------------------------------------

ProcessNext ==
    \/ \E r \in Calls :
           \/ \E k \in {"plain", "stream", "mcp"} : Arrive(r, k)
           \/ Gate(r) \/ Finish(r) \/ EnterMcp(r)
           \/ OpenSession(r)
           \/ \E s \in Calls : StartTool(r, s)
           \/ EndTool(r) \/ Render(r) \/ LeaveMcp(r) \/ ClientGoes(r)
           \/ SessionEnds(r) \/ CloseSession(r)
    \/ FailToServe \/ Signal
    \/ Main
    \/ Sweep

ProcessSpec == ProcessInit /\ [][ProcessNext]_<<vars, processVars>>

\* A goroutine that can run runs; calls and tools whose context has ended come to an end,
\* as they wait with that context, and so does a render.
ProcessFairness ==
    /\ WF_<<vars, processVars>>(Sweep)
    /\ \A r \in Calls :
          /\ WF_<<vars, processVars>>(CloseSession(r))
          /\ WF_<<vars, processVars>>(r \in gone /\ EndTool(r))
          /\ WF_<<vars, processVars>>(r \in gone /\ LeaveMcp(r))

-----------------------------------------------------------------------------

\* A process that has stopped without an error has left nothing behind when it closes the
\* database: no request, no stream, no tool, no session, no render; and whichever way it
\* stops, it admits nothing any more (main.go:137-187, handler.go:126-152).
StoppedIsQuiet ==
    stage = "closed" =>
        /\ ~ready /\ ~listening
        /\ ~failed => /\ InFlight = {} /\ active = {}
                      /\ sessions = {} /\ \A r \in Calls : tool[r] = None

\* Unless the process ends before, the sessions are closed and the calls drained, whoever
\* called last (handler.go:126-145).
McpDrains == mcpClosed ~> (stage = "closed" \/ (sweep = "done" /\ sessions = {}))
=============================================================================
