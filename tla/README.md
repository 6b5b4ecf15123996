# Visualise AI: specifications, model checks and proofs

This directory holds TLA+ specifications of the parts of Visualise AI in which order,
concurrency, failure or a long sequence of legal calls decides whether the cockpit tells
the truth: the event log and the streams that carry it to the browser, the projections the
server makes of it, the process around them, what the browser folds, caches and draws of
it, and the simulator that acts out a run. TLC checks each on small instances; the theorems
in the `*Proofs` modules hold for every value of the constants and are checked by TLAPS.

`backend/` stands for `backend/internal/` where a Go package is named, other paths are
relative to the repository, those of the browser to `frontend/src/`.

## 1. The system

Agents report what they do as events. `POST /api/v1/events` and the MCP tools hand each
event to `ingest.Service`, which validates it against the contract and appends it in one
PostgreSQL transaction together with its effect on every read model (the projections).
Once the transaction has committed, the ingesting goroutine hands the event to the SSE
broker, which fans it out to the streams of the project. A browser reads the projections
over the read API and follows the project with an `EventSource`; each frame is folded into
its change ledger and invalidates its queries, and canvas, panes and inspector draw what
ledger and queries say while their reader goes on using them. The native render service
paints a saved view in a headless browser for agents that ask for an image.

| Component | State it keeps | Operations | How it interacts | What is hard | What makes it correct |
| --- | --- | --- | --- | --- | --- |
| event log append (`store/store.go`, `store/commands.go`, `ingest/service.go`) | project row with `last_position`, events, receipts | lock, retry lookup, guard, insert, commit; then `Publish` | called by HTTP and MCP; calls guard, projector, broker | concurrent writers, retries, a commit whose answer is lost, a crash before `Publish` | atomic append, positions without a gap, acknowledgements that hold for good |
| SSE broker and stream handler (`sse/`) | subscriptions with bounded buffers; per stream a cursor and a page | `Subscribe`, `Publish`, `Shutdown`, `Stream`: replay, drain, live, fill | fed by ingestion, reads the log, writes to browsers | events published out of order, overflow, the handover from replay to live, shutdown | each position once and in order, nothing lost |
| frontend live client (`api/liveStream.ts`, `api/useLiveStream.ts`) | cursor, source, retry timer | open, message, error, close | `EventSource` reconnects on its own beside it | two reconnect mechanisms with two cursors | no position twice, none skipped |
| run and agent lifecycle, work steps, plans (`ingest/lifecycle.go`, `store/work.go`, `store/projector.go`) | runs, agents, work steps, plans with revisions | the guard of each event type and the projector's handler of it, directly and inside a correction | inside the append transaction | corrections re-run handlers with old ids; agents in parallel; ids shared by runs | one tree of agents, only its owner finishes a step, a finished run rests |
| architecture model (`store/model.go`) | components, relationships, reserved identities, model revision | mutation, snapshot, legacy changes, the same as corrections; read | inside the append transaction | stale revisions, several operations in one mutation, four write paths | a sound graph, no revived id, no lost update |
| saved views (`store/view_commands.go`, `store/views.go`, `store/view_reads.go`) | definitions, revisions, tombstones | save, remove, capture | against the model's revision; read by the renderer | two revisions at once | nothing is saved over what was not seen |
| model tracking migration (`store/model_migration.go`) | activation position, identities | migration at start-up, activation on append | takes the project row | two processes and an append race for one activation | activated once, no id handed out again |
| native render service (`render/service.go`) | slots, `active`, `closed`, `done` | `Render`, `Shutdown` | called by MCP tools, drives a browser | admission racing shutdown, deferred release | `done` closed once, when nothing is being rendered |
| MCP transport, start-up and shutdown (`mcptransport/handler.go`, `cmd/server/main.go`, `httpapi/router.go`) | readiness, calls in flight, sessions | serve, sweep, shut down | owns broker, renderer, HTTP server, database | a session that is opened during the shutdown; one budget for all drains | a process that stopped without an error left nothing behind |
| change ledger and overlays (`state/changeLedger.ts`, `state/workStates.ts`, `canvas/changeOverlays.ts`) | history, steps, descriptors, scopes | ingest a frame, observe a read | fed by the live client and by cached reads | a capped history with corrections and retractions; a read older or newer than the stream | agrees with the server's projections |
| read cache (`api/queryClient.ts`, `api/queryKeys.ts`, `api/queries.ts`) | data and fetch of each query | fetch, invalidate, collect | invalidated by frames | an event that overtakes the fetch it should have invalidated | data that is not marked is up to date |
| panes and focus modes (`state/uiStore.ts`, `WorkspaceLayout.tsx`) | arrangement, stack of modes, notes to come back to | enter, leave, resize, fold, reload, navigate | URL and browser history | modes entered and left in any order | the user's arrangement comes back |
| canvas requests and layout (`canvas/ArchitectureCanvas.tsx`, `canvas/useArchitectureGraph.ts`, `canvas/cameraPolicy.ts`) | picture, layout run, parked requests, camera policy | model update, layout, fit, focus, fold, turn, resize | asynchronous solver | a layout that ends after what it was for has changed | the newest graph is drawn; the camera is the user's |
| canvas keyboard (`canvas/spatialNavigation.ts`) | roving focus, camera | arrows, entry and exit | graph, placement, camera | the focused box vanishes or moves | no live event takes the focus |
| canvas graph (`canvas/graphProjection.ts`, `canvas/collapse.ts`, `views/*.ts`) | none | project, close, resolve a view | from snapshot, view and ledger | missing parents, cycles, repeated rows, proposals, views and closed containers together | everything reported is drawn or counted once |
| canvas views (`CanvasViewBoundary.tsx`, `WorkspacePage.tsx`, `state/uiStore.ts`) | memory of every view, URL | show, load, mount, move, fold, select | reads, URL, canvas | late transitions, effects and definitions | each view keeps its own |
| run and agent pane (`runAgents/*`) | folded branches, opened rows, filter | fold, open, filter, refetch | agents query | agents in any order, unknown and circular parents | every agent is shown or counted once |
| inspector (`InspectorPane.tsx`, `inspector/*`) | pages, anchor, mode, focus | page, refetch, scroll, switch | two queries and the ledger | entries that come in above the reader | evidence stays legible, the reader keeps the place |
| simulator (`simulator/src/*`) | the execution under way | run, resume, repeat | HTTP | a scenario has to be accepted in its order | it runs to its end and one run is one execution |
| read API, MCP tools, contract validation, renderer's browser driver, layout geometry, wording, configuration | none of their own, or presentation only | | | | |

Every place where the code is exposed to something a test would hardly reach is listed
at its line under `hazards` in `PROJECT.json`, with the properties that watch it.

## 2. Modules

| Module | Models | Runs | Proofs |
| --- | --- | --- | --- |
| `EventDelivery` | what a stream promises: a cursor moves over a growing log one position at a time | refined by `EventStream` | |
| `EventStream` | broker, stream handler, wire, `EventSource` and live client | `event_stream`, `event_stream_live_tail`, `event_stream_reset` | `EventStreamProofs` |
| `AtomicAppend` | what the log promises: commands enter it one at a time, each key once, guarded | refined by `EventLog` | |
| `CommitFeed` | what the log feeds the streams: commits, publications, losses | refined by `EventLog` | |
| `EventLog` (`MCEventLog`) | append transaction and publication of concurrent writers | `event_log`, `event_log_duplicate` | `EventLogProofs` |
| `RunLifecycle`, `Plans` (`MCRunLifecycle`) | runs, agents, work steps, corrections; plans beside them | `run_lifecycle`, `run_lifecycle_current` | `RunLifecycleProofs` |
| `ArchitectureModel`, `SavedViews`, `ModelMigration` (`MCArchitectureModel`) | the graph under all write paths; the views that refer to it; how an older project comes to have one | `architecture_model` | `ArchitectureModelProofs` |
| `RenderService`, `Process` (`MCProcess`) | the renderer; the process that calls and drains it | `render_service` | `ProcessProofs` |
| `ChangeLedger`, `ChangeOverlays` (`MCChangeLedger`) | log, server's rows, stream, cached read and the browser's ledger; what is drawn of both | `change_ledger` | `ChangeLedgerProofs` |
| `Missing`, `ModelRows`, `Listing` | the constants for what is not there, shared by the parts of the cockpit and by the modules of the model; what the lists of both panes are made with | | |
| `Panes`, `Canvas`, `QueryCache`, `CanvasViews` | the layout of the panes, the canvas, the cached reads and the views | `cockpit`, `canvas_requests` (`MCCanvas`) | `CockpitProofs` |
| `RunAgents`, `Inspector` | the panes beside the canvas | `cockpit` (`MCCockpit`) | `PaneProofs` |
| `Scenario`, `ScenarioFull`, `ScenarioSelf`, `Simulator` | the scenarios of the simulator, and its runner against the server | `cockpit` (`MCCockpit`) | `CockpitProofs` |
| `CanvasKeyboard`, `ArchitectureGraph`, `UnifiedDiff` | the other parts of the cockpit | `cockpit` (`MCCockpit`) | |

The modules meet at interfaces. `EventStream` does not contain the writers: its commits,
publications and losses are the actions of `CommitFeed`, which `EventLog` is shown to
implement, so what the streams assume of the log is what the log was shown to do.
`RunLifecycle` and `ArchitectureModel` take an accepted event as one step, which
`AtomicAppend` justifies. `SavedViews` and `Plans` extend the modules whose state they
read; `Process` extends `RenderService` and is proved to drive it only as that module says;
`Simulator` asks the guards of `RunLifecycle` and `ArchitectureModel`, as instances, what
the server answers. The parts of the cockpit share no state: `MCCockpit` explores one of
them in each behaviour, so a single run covers them all without multiplying their states.
`MCArchitectureModel`, `MCRunLifecycle` and `MCProcess` do the same with a module and the
modules that extend it.

### 2.1 `EventStream`: from the log to the browser

One step is one section under the broker's mutex, one database read, one frame or one
channel receive; everything in between may interleave.

- `head` is the end of the project's log, `unpublished` the committed positions whose
  goroutine has not called `Publish` yet (any of them may be next, so publication is out of
  order), `unannounced` those that never will be.
- `sub`, `buf` are a `Subscription`: attached, or closed because it overflowed or the
  broker shut down. `Publish` sends without blocking and detaches a full subscriber.
- `pc` follows `Handler.Stream`: `Resolve` (start position, clamped to the end of the
  log), `Subscribe`, then `ReadPage`/`WritePage` of the replay, `DrainOne`/`DrainEnd`
  between pages, and the live phase with `LiveEvent`, `LiveClosed` and `Fill`.
- `wire` holds frames written and not yet received: a broken connection loses them.
- `url`, `lastEventId` are what an `EventSource` was opened with and what the browser
  remembers; `cursor` is `lastPosition` in `connectLiveStream`. `Connect` opens a source
  with the client's cursor, the browser's own reconnect repeats its URL and sends
  `Last-Event-ID`, which the handler uses only when the URL has no cursor.
- `floor`, `seen`, `openedAt` are history: where a client began, what it processed and
  where the log ended when a stream without a cursor subscribed.

### 2.2 `EventLog`: the append transaction

A writer goes from `Submit` through `LockProject` (which inserts the project's row first,
unless the command is one of contract 2.0 that needs an existing project), `Check` (retry
lookup, conflict, guard), `Commit` and `Publish`. `Fail` is a database error or a
cancelled request: it rolls back, the row inserted for a new project included.
`CommitUnknown` commits and reports an error. `Crash` ends the process with all of its
transactions. `Repeats` is the comparison `replayCommand` and the payload hash make, which
differs between the versions of the contract.

### 2.3 `RunLifecycle` and `Plans`

One action is one accepted event: the guard of `checkLifecycle` and `ValidateWork`, and the
rows its handler in `projector.go` writes. A correction is its own action with the guard of
`checkEffectiveCorrection` and the same `Apply...` operator as the event it corrects,
because the projector runs the same handler. A rejected event changes nothing and needs no
action. `since`, `lastOpened`, `closer` and `completer` are history. `Plans` adds the rows
of plans, revisions and steps; revisions and steps have no column for the run, so two runs
that use one plan id share them. A title is represented by the run that told it.

### 2.4 `ArchitectureModel`, `SavedViews`, `ModelMigration`

`Finish` is `finishModelWrite`, which all write paths share: the diagnostics of the graph
that results, the retired ids, the reservation of its ids, the revision. `Mutate` is
`model.mutation_applied` with any set of operations on different targets; the legacy events
carry no revision and come directly or as the content of a correction. The initial states
are all graphs a legacy project may hold, defects included, with the ids its history used.
`InCycles` is the walk `graphDiagnostics` makes with its visited set, as a function;
`AcceptedModelIsSound` compares it with a definition of a forest that has no walk.

`SavedViews` saves, removes and captures views at a revision of the model and of the view;
an agent counts as having read what one of its snapshots contained, so the list of views,
which has revisions without definitions, is no such read. `ModelMigration` folds the log of
an older project as the activation does; a component is its id. An id that was imported and
removed before the activation without a trace in the log is not reserved.
`HistoricalReuse` is what a later model read turns into diagnostics
(`store/model.go:389-395`), which are left out.

### 2.5 `RenderService` and `Process`

One step is one section under `s.mu`, or one step of the work between admission and the
deferred release. `Shutdown` runs twice, as `main.go` calls it, and any step may be the
moment at which a context ends. `Process` is `run()`: `stage` names the drain it is in,
requests are ordinary ones, streams or MCP calls, and the MCP library is external: closing
a session waits for its tools, a tool may outlive the request that called it. When a drain
runs out of budget `run()` returns at once, so sessions and requests are cut and the
database closed under them; `StoppedIsQuiet` therefore speaks of a shutdown that did not
fail. The sweep's goroutine may go on after the process has closed.

### 2.6 `ChangeLedger` and `ChangeOverlays`

The module keeps the log with the server's rows after each event, the position the stream
was opened behind, the position of the cached architecture read, and the browser's ledger.
`Commit` is an event the projector takes in, `Read` the answer of a cached read, `Frame` the
next event of the stream or a repeated one, folded by `Ingest`, which first takes in what
the cached read knows (`ObserveModel`). A descriptor is the position that reported it
whole and the one that patched
it last, so two descriptors agree exactly when the code would show the same. `ModelAt(p)`
is the server's projection of the log up to `p`; its fields are those of
`projector.go` and `model.go` the overlays read. `ChangeOverlays` condenses both sides
into the one work state the canvas draws of an element. Nested corrections are left out
(the browser follows four, `changeLedger.ts:307`, the projector one, `projector.go:24`), and
so are corrections that carry a retraction; a mutation has at most two operations, of the
hundred the contract allows. The reads of agents and runs that also make an element active
(`changeOverlays.ts:368-403`) are left out: they make more elements active, never fewer.
The status `done` of an agent and the variants of `work.reported` fold into the same
operators as the others.

### 2.7 The cockpit

- `Panes`: one action per operation of the store. `own` is history: what the user arranged
  outside of both modes. The effect that mirrors the URL runs late (`due`).
- `Canvas`: a step is one callback of the browser and the effects React runs after it, in
  their order (`Render`, `Effects`). `run` is the layout run under way, or how the last one
  ended; a failed one and an error of the hook are one outcome. `key`, `visible` and
  `closed` are kept in the record because the code memoises them. `asked` and `unasked`
  are history: what the user asked the camera for, and whether it moved without. Coordinates
  are left out; a surface of size 0 is too small to be fitted. An empty graph cancels the
  run under way and starts none. The reveal of a relationship, the zoom buttons and the
  minimap move the camera on request like `Reveal` and `Pan` and are not modelled apart.
- `QueryCache`: one cached read beside the log it is read from. Data and answers are the
  position they were read at. TanStack Query is external, modelled by what the code relies
  on: an invalidation marks the entry and fetches it again while it is shown, giving up a
  fetch under way if there is data to keep. A first fetch is not given up (`swallowed`).
- `CanvasViews`: the URL, the store's active state and the saved ones, the definitions the
  browser has, and the canvas that is mounted. Dragged nodes and unfolded bundles are kept
  as the closed containers are, and are left to them; a selected component and a selected
  relationship are one value.
- `RunAgents`: the tree as `buildAgentTree` makes it of any reports. Walks up the parents
  that were reported (`Upward`), one after the other as the code starts them, find where a
  cycle is cut (`CutOf`), and what the reader folded, opened or filtered decides the rows.
  `list` says whether the list is rendered: a read that fails in the background shows its
  error in its place (`RefetchFails`, `AsyncState.tsx:68`), and so does another run until
  its agents are read (`ShowRun`); either forgets what was opened and the filter, which are
  state of the list, and keeps what was folded, which is state of the store.
- `CanvasKeyboard`: zoom is 1, the layout solver and automatic panning are external (any of
  the placements), dragged boxes and edges are left out.
- `ArchitectureGraph`, `UnifiedDiff`: operators without state, evaluated on the inputs
  `MCCockpit` enumerates and compared with definitions that do not follow the code's steps.
- `Inspector`: heights in rows. A scroll of the user and its event are one step, the event
  of a scroll the pane made comes later (`owed`). The two queries answer independently; the
  lists of the run are taken from one answer. A query that fails keeps what it read before,
  but shows its error in place of the lists (`FetchFails`, `Unlisted`). What the pane does to
  the scroll position it decides by the ids of what is listed (`ContentSignature`, `Pinned`);
  `ReaderKeepsPlace` does not use that signature: it speaks of every answer after which the
  entry the pane remembers is still listed.
  `events` is the log as the ingest accepts it: a correction names an event that was there
  (`IsLog`, `ingest/lifecycle.go:137`).
- `Scenario`, `ScenarioFull`, `ScenarioSelf`, `Simulator`: the four scenarios as sequences
  of steps, sent by the runner until an answer differs from what the step expects. A call
  may stay unanswered at the steps in `Fragile`. Ids are scenario, seed and number; texts,
  pauses and the clock are left out.

## 3. What is checked

Every property has a mutant: a plausible bug in the definition of a guard or an effect,
kept next to the original and listed under `mutants`, under which TLC finds it violated.

| Run | Bounds | Properties |
| --- | --- | --- |
| `event_stream` | 1 client, log of 3, up to 1 of them there at the start, buffer 2, pages of 2, 2 faults | `GaplessDelivery`: what was processed is everything between floor and cursor; `NothingLost`: what an open stream owes is buffered, about to be published or found by a fill; `ImplementsDelivery`; `CatchesUp` |
| `event_stream_live_tail`, `event_stream_reset` | the same without faults | section 5 |
| `event_log` | 2 writers, the commands of `MCEventLog` (a retry, a conflict, both versions, events before and after the end of the run), 1 fault | `LogInv`: positions, row lock, transactions and publications agree; `AcknowledgedIsStored`; `ImplementsAtomicAppend`; `ImplementsCommitFeed`; `Answered` |
| `event_log_duplicate` | the same | section 5 |
| `run_lifecycle` | 2 runs, 3 agents, 1 step, 6 events; with plans: 1 plan of 2 steps and 2 revisions | `AgentTree`; `StepsFinishedByOwner`; `IdentitiesStay`; `FinishedRunGrowsNoMore`; `PublishedPlansStay` |
| `run_lifecycle_current` | 2 runs, 1 agent, 4 events | section 5 |
| `architecture_model` | 3 components, 1 relationship, 2 agents, 3 revisions; views: 2 components, 1 agent, 1 view of 2 revisions; migration: 2 ids, 1 process, 4 events | `AcceptedModelIsSound`; `RetiredStaysRetired`; `NoLostUpdate`; `ViewsAreSighted`: nothing is saved, removed or captured but as read; `MigrationStartsTheModel`: whoever activates, the identities are those of the log |
| `render_service` | 3 calls, 2 slots, 2 closers; the process with 2 requests | `DoneClosedOnce`; `StoppedIsQuiet`; `EverythingDrains` |
| `change_ledger` | 2 targets, 1 change, 1 step, 3 events: every change event with the marks, or one of three themes of work; history of 2, 1 of them recent | `HistoryIsWhole`: the cap cuts between events; `DescriptorsAgree`: browser and server hold the same rows; `ClosedChangeStaysClosed`; `SettledPictureAgrees`; `ActiveMeansRunning` |
| `canvas_requests` | 4 nested components, 2 sizes | section 5 |
| `cockpit` | below | one or two properties for each part |

| Part of `cockpit` | Bounds | Properties |
| --- | --- | --- |
| panes | 3 splits, 1 focus target | `ArrangementSurvives` |
| canvas, surface | a container with a child under updates; one component under sizes too small, and large enough | `NewestLayoutIsDrawn`, `CameraIsTheUsers` |
| read cache | every read of one run and one component, 2 events of 5 kinds, 1 lost connection | `InvalidationsReachReads` |
| canvas views | an overview and a saved view, 1 camera, 1 selection, 2 canvases | `ViewsKeepTheirOwn` |
| agents | 3 agents under every assignment of parents, unknown and circular ones too, a repeated id, 2 later answers, failed reads, 1 filter | `AgentsAreAccountedFor`, `RowsFollowTheirReader` |
| keyboard | 4 boxes in 3 hierarchies and 2 placements, 2 changes | `KeyboardKeepsItsPlace` |
| graph, diff | 3 components under every assignment of parents, a repeated one, proposals, 2 views; two hunks of up to two lines of every kind | `InputIsShownWhole` |
| inspector | 4 events, pages of 2, either read may fail at any time | `EvidenceStaysLegible`, `ReaderKeepsPlace` |
| simulation | the four scenarios in full, 2 executions one after the other, 7 calls that may stay unanswered | `ScenariosRun`, `RunIsOneExecution` |

Why the bounds are enough. Streams of different clients share only the log and the
broker's mutex, and neither is held across a step, so one client meets every schedule of
the log and the broker. A log of three with pages and buffers of two has a full page
followed by a short one, an overflow, a gap, and events published in every order. Two
writers are every race for one row lock. Three agents are a root with a child and a
grandchild or two siblings; two runs share ids. Three components are the shortest cycle
that is neither a loop nor a pair, and three revisions let one agent write on top of what
another wrote behind its back; a save outdates its own reader, so one agent suffices for
views. Three calls for two slots include one that is refused and one that leaves last. Two
targets and three events have a change planned, applied and corrected or withdrawn, beside
another that is untouched, and a change withdrawn whose element an older one wrote too; a
history of two cuts an event that appends two entries. Changes that are announced add or
remove (`Announced`): one that modifies is written like one that adds. The
cockpit's parts are bounded by what makes a case of its own: a focus mode inside the other,
an update during a layout, an invalidation during a fetch, a camera that is reported after
its view was left. The theorems of section 4 hold without these bounds.

Counters are bounded in the guards of the actions that raise them: `MaxPosition` (commits),
`MaxFaults` (connection losses, failed reads, crashes), `MaxEvents` (accepted events),
`MaxRevision` (accepted writes), `MaxDrops` (connections lost), `MaxCanvases` (canvases with
a transition to finish), `MaxTouched` (rows opened by hand), `MaxChanges`, `MaxLog`,
`MaxExecutions`. Runs whose bounded system may stop say `CHECK_DEADLOCK FALSE`: the log is
full, every event is used up, every render has left.

### Fairness

- `EventStream`: a handler that can take its next step takes it (Go runs every runnable
  goroutine), the goroutine that committed publishes, the browser receives the frames of an
  open connection and reconnects, a stopped process is started again. Faults, commits and
  the shutdown are not fair; faults are bounded, as no client catches up over a network
  that fails for ever.
- `EventLog`: a writer's own steps are weakly fair; the row lock is strongly fair, because
  PostgreSQL queues the waiters of a row and does not let later ones overtake for ever.
- `RenderService`, `Process`: a render notices the end of its context, its deadline passes
  and its deferred section runs; the sweep runs and closes its sessions; calls and tools
  whose context has ended come to an end. Nothing obliges anybody to shut the process down.

The other modules promise nothing that has to happen, and state no fairness.

## 4. What is proved

TLAPS 1.4.5 checks every theorem from the named assumptions on the constants: numbers are
naturals (`Buffer`, `PageSize`, `Slots`, `HistoryLimit` where it must be positive), the sets
of calls and of components are finite, and the values that stand for nothing (`None`,
`Nobody`, `Top`, `Absent`, `NoWriter`) lie outside the sets they are told from. TLC
evaluates each assumption in the run of its module.

- **Event stream** (`EventStreamProofs`). `GaplessDelivery` is not inductive: that the next
  frame is the right one depends on the frames in flight being consecutive up to
  `lastSent` (`WireInv`), on both cursors of the browser lagging behind the client
  (`CursorInv`), and on where the handler stands (`HandlerInv`). `CoverInv` makes
  `NothingLost` inductive: at every point of the handover, what lies beyond the page being
  written or the gap being filled is still to be published, or buffered.
  `StreamImplementsDelivery` proves the refinement of `EventDelivery`: each step is a
  commit, a start, the processing of the next position, or a stutter.
- **Event log** (`EventLogProofs`). `LogInvariant` rests on what the holder of the row lock
  has read and decided being still true when it commits, since nobody else can commit
  between. From it follow `AcknowledgementsHold` and both refinements, `AppendsAtomically`
  (the commit is the atomic step, everything else stutters) and `FeedsTheStreams`.
- **Run lifecycle and plans** (`RunLifecycleProofs`). The tree (`OneTree`) needs an argument
  about every non-empty set of agents: a parent joins strictly before its child (`since`),
  so the member that joined first has its parent outside the set. `RootCloses`,
  `OwnersFinish`, `IdentitiesAreKept` and `FinishedRunsRest` follow from the invariant (a
  finished run gets no agent and no step and is not reopened; a step that was left open may
  still be completed by a correction, `work.go:132-134`), and
  `PlansKeepTheLifecycle` carries them over to the composition with `Plans`, of which
  `PublishedStays` is proved: a run shows a published revision with steps, and what is
  current in no run is not written.
- **Architecture model and views** (`ArchitectureModelProofs`). `ModelInvariant`: whatever
  is live or was ever used is reserved, nobody has read a revision to come, and who read
  another graph holds an older revision. From it `RevisionsIdentify`, `NoRevival` and
  `UpdatesAreNotLost`. `DiagnosticsAreExact` proves that the walk of the diagnostics finds
  every cycle and nothing else, in a finite graph of any size (a walk longer than the number
  of components repeats one), and with it `AcceptedModelsAreSound`. `ViewsInvariant` adds
  that what a view refers to was live when it was saved; `ViewsAreReadAndKept` follows,
  of which the run checks an instance as `ViewsAreSighted`.
  `MigrationHandsOver`: what the replay of a log has found after n events is told by the
  events alone (`FindsWhatIs`, by the least number for which it would not be), so that an
  activation reserves whatever was used, marks exactly what was used again, and changes
  nothing for `ArchitectureModel`, of which every later event is a step; a project may be
  tracked only once the earlier version no longer writes (`MigrationInv`).
- **Renderer and process** (`ProcessProofs`). `RenderInvariant`: tokens, registrations and
  running goroutines agree, and `done` is closed exactly when a closed service is empty.
  `ProcessImplementsRenderer`: the process drives the renderer only as `RenderService` says.
  `ProcessInvariant`: what each drain that ended without an error has left, stage by stage;
  a sweep that finds the calls gone leaves no session. `StopsQuietly` is its last stage.
- **Change ledger** (`ChangeLedgerProofs`). The server's side first: every log entry holds
  the projection of the one before it. `LedgerInvariant`: nothing was written to the rows
  between the position the descriptors speak of and the last frame, and a ledger that has
  observed the model holds its rows; so a cached read that lies between them may be folded
  in. From it `DescriptorsAgreeWithRows`; with an invariant of the steps,
  `ShownWorkIsRunning`; `ClosedChangesStayClosed` speaks of the server's rows alone.
- **Change history** (`ChangeLedgerProofs` too). `HistoryStaysWhole` needs an account of every
  event since the last snapshot: how many entries it has to have (`Expected`), that those of
  one event stand side by side, and that whatever is missing is older than what is there and
  did not fit (`KeptWhole`). Appending keeps it, for one entry and for the entries of one
  event in a row; the cap keeps it, because it cuts at the position the limit falls into
  (`CapKeepsTheRest`); marks change no position. `SettledPicturesAgree` adds that an entry
  tells what its event did (`EntriesAgree`), that an event is listed under everything it
  wrote (`WritesListed`), and that the last event to write an element decides whether it is
  there (`NewestDecides`). Then the newest statement about an element, if it was applied, is
  the last that was made: a later one would be listed, as the history loses the older ones
  first, would stand, and would be recent, as fewer are newer than it.
- **Cockpit** (`CockpitProofs`). *Panes*: stack, flags, notes and URL name the same modes,
  one of five stacks (`PanesInvariant`), so that `ArrangementIsKept`. *Canvas*: the memoised
  key, visible and closed containers follow from model and disclosure, and a run that has
  landed or is under way is for what is drawn (`PictureIsSound`), hence `PictureIsNewest`;
  a parked fit, focus or frame was asked for and not yet answered (`RequestsAreAsked`),
  hence `CameraStaysTheUsers`. *Read cache*: a read is fetched only while shown, the stream
  goes on where the cursor is (`StreamIsKnown`), an answer under way is as new as what was
  told unless it is a first one that swallowed an invalidation (`AnswerIsUpToDate`), hence
  `InvalidationsAreNotLost`. *Canvas views*: a canvas is mounted only for the view that is
  active, and transitions bear the numbers of canvases that were (`ViewsInv`), hence
  `ViewsAreKeptApart`. *Simulator*: whatever is launched sends everything to one run and
  opens it first (`StepsOfAnExecution`, of the
  scripts as they are); a log in which every run is opened once, and everything stored of an
  execution follows its opening (`Whole`), stays so, since a run that is opened is known to
  be (`OpenedIsKnown`) and the runner goes on only after the answer it expects. Hence
  `OneExecutionPerRun`, from `SimulatorAssumption`: null is no agent, and the executions are
  of the four scenarios.
- **Agents** (`PaneProofs`). The folds and walks of `RunAgents` are recursive functions; that
  each exists and is what its steps say is shown first, by the least step at which it would
  not be. A walk stays in what it has visited or meets a walk before it, so every cycle is
  cut at exactly one member whichever walk meets it first (`Resolves`, an invariant of the
  walks); what is left has a way up from everybody (`Hierarchy`) and is the tree of an answer
  (`WellBuilt`). Rows are built from the roots down: an agent is a row exactly when nothing
  above it is folded away, and a folded row counts all that is below it, by induction over
  how deep that goes. Hence `EveryAgentCounts`, of any answers in which no agent is null
  (`ReportsAssumption`); `EveryReportIsShown` says whose rows they are. What the reader
  opened or closed is one or the other, which with the rule of `DetailOpen` says when a row
  may change; without a filter the rows are the agents below nothing that is folded
  (`UnfilteredRows`), so one that is seen stays. Hence `RowsAreTheReaders`: no answer drops
  what the reader opened, whatever it brings. It speaks of steps after which the list is
  rendered; one that takes the list away is the exception section 5 names.
- **Inspector** (`PaneProofs`). Neither property is inductive. `InspectorInv` says what the
  pane holds of a log that has meanwhile grown: a row stands at a place where its item was
  reported (`KnownRows`); the pages of the history, whenever each of them was read, leave
  out no event of the component between the first that is listed and the last (`Unbroken`),
  which a page read further down keeps because it begins below the last, and a refetch
  restores as a whole; what is rendered are blocks of known extent (`IsLayout`). That every
  group is one agent's work on one change, and that a repeated diff counts once, then needs
  no more than rows whose places are in the log; that an entry is marked exactly when a
  correction of it is stored needs that the correction, which lies above it, is among the
  pages. Hence `EvidenceIsLegible`. `PlaceOfTheReader` has two halves. If the ids changed,
  the correction of the scroll position is exact or bounded by the ends of the list, for any
  heights. If they did not, nothing corrects it, and the content must be shown to be the
  same although rows may have been reported again at other positions: what is rendered is
  what was read (`ShowsWhatWasRead`), the listed diffs fall (`Falls`), and then the groups,
  their order and their numbers of files depend on the ids and on whose work each diff is,
  not on positions (`GroupsInOrder`, `FilesInOrder`, by the uniqueness of an ordered list,
  `OneOrder`; `SameGroups`). An answer that changes whose work a diff is and nothing else is
  excepted (`OnlyRegrouped`): there the code does move the reader.

Only model-checked, and why:

- `CatchesUp`, `Answered`, `EverythingDrains`: liveness, out of the prover's reach.
- `ScenariosRun`, `InputIsShownWhole`, `KeyboardKeepsItsPlace`: they say what long scripts
  and searches over hierarchies, names and placements compute, each by an induction over
  its data; those of the panes were carried out by hand, these were not.

## 5. Where the code and its documentation disagree

Each of these is a run that TLC finds violated, listed under `findings`.

- A client that waits for the opening comment of a stream without a cursor can still miss
  an event committed later (`event_stream_live_tail`, `sse/stream.go:160` and `:243`).
- Clamping a cursor beyond the log does not end the silence it is meant to end: the browser
  keeps its own cursor and filters the frames (`event_stream_reset`, `liveStream.ts:139`).
- The event a duplicate repeats need not have been published (`event_log_duplicate`,
  `ingest/publisher.go:30`).
- The current run need not be the run opened last (`run_lifecycle_current`,
  `store/projector.go:184`).
- Going back to the overview compares all closed containers with the visible ones and parks
  a camera movement no layout answers (`canvas_requests`, `ArchitectureCanvas.tsx:1359`).

Met while modelling, and left out of the properties or represented as they are:

- Plans: that a plan id belongs to one run (`readapi/runs.go:150-152`), that revisions
  increase (`openapi.yaml:1576`) and that a step's plan was published (`projector.go:323`)
  is checked nowhere. Republishing a revision can add steps to it, and an older one becomes
  current again; correcting `plan.published` rewrites no existing step.
- Corrections: one that names other components is missing from its target's history, and
  retractions never appear there (`store/components.go:29-125`). The corrected start of a
  completed step opens it again in the browser only (`changeLedger.ts:219`): the exception
  of `ActiveMeansRunning`. Withdrawing or correcting what wrote
  an element last takes it out of the overlays while its effect stays in the model: the
  exception of `SettledPictureAgrees`.
- Read cache: `agent.started` invalidates the agents only although a root's changes the list
  of runs, `plan.published` the plans only, and `work.step_started` not the run whose steps
  `readapi/runs.go:70-98` counts (`liveStream.ts:253-332` against `queryClient.ts:11-13`).
- Diffs: a removed line that begins with `-- `, or an added one with `++ `, is read as a
  header (`unifiedDiff.ts:86-95`); such lines are left out of `ShowsTheEdit`.
- Keyboard: six boxes with centres (1,2), (2,1), (0,0), (0,3), (3,0), (3,3) leave no box
  from which the arrows reach all others, against ADR 0027. The focus is lost when its box
  vanishes and returns before the layout has settled (`ArchitectureCanvas.tsx:873`), and
  when a layout fails; both are left out of `KeyboardKeepsItsPlace`.
- Canvas: a parked fit is consumed when the surface is too small to be fitted (`:834-839`),
  and architecture focus entered with both panes folded waits for the next resize. A
  relationship of a component with itself is drawn only while nothing is closed
  (`collapse.ts:252`), the exception of `GraphIsWhole`.
- Inspector: the signature that is to change "exactly when something was inserted, removed
  or reordered" (`InspectorPane.tsx:144-145`) is made of ids alone. Diffs 1 of agent a and 2
  of agent b on one change are two groups; a correction that gives 2 to agent a merges them,
  the ids stay, and what lies below moves up under the reader. A violation of
  `ReaderKeepsPlace` without its exception `OnlyRegrouped`. Contributions are not part of
  the signature either; they are no answer of a read, so `ReadAnew` leaves them out.
- Failed reads: a background read that fails replaces the lists by its error
  (`AsyncState.tsx:68`, around `RunAgentPane.tsx:175-193` and `InspectorPane.tsx:275-282`).
  The rows the reader opened and the filter of the agents are lost with the list, against
  `AgentTree.tsx:47-50`; in the inspector the reader stays where the shorter content put
  them when
  the next answer brings back the same ids, since a signature that did not change corrects
  nothing. Overrides and
  the filter are carried over to another run whose agents are cached.
- Simulator: the `self` scenario proposes a component and a relationship under one change
  id, and the second proposal overwrites the first.

## 6. Not modelled

Contents of events beyond what decides acceptance, order or what is drawn; timestamps,
names, formatting. In `RunLifecycle` the component references of a step and the reported
scope; in `EventStream` the delays of the back-off, keep-alives and the connection badge;
in `EventLog` the projections that commit with the event, which the other modules describe.
On the canvas dragging, revealing a relationship, announcements and the focus of edges. The
read API keeps no state: what it lists is in `Inspector` and `Plans`, its page cursors are
left out. MCP tools, contract validation, the browser driver of the renderer, the geometry
of layout and edges, translations, `migrateWorkStepRuns`, configuration and logging have no
behaviour over time of their own, or are external.

## 7. Plan

Done: the modules of section 2 with their runs, and the theorems of section 4. What is left
to prove is the projection of the graph for hierarchies of any size, and with it the
keyboard on top of it.
