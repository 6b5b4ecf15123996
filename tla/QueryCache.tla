------------------------------ MODULE QueryCache ------------------------------
(* One cached read of a project page (api/queryKeys.ts, queries.ts, currentRun.ts) *)
(* beside the log it is read from and the live stream that invalidates it          *)
(* (api/liveStream.ts, useLiveStream.ts).  The cache itself is TanStack Query,     *)
(* modelled by what the code relies on: an invalidation marks the entry and, while *)
(* it is shown, fetches it again, giving up a fetch that is under way if there is  *)
(* data to keep; a first fetch is not given up for one.                            *)
(*                                                                                 *)
(* Keys leave out the root and the project, so the key of the project is <<>>.     *)
EXTENDS Missing, Integers, SequencesExt

CONSTANTS Runs,
          Inspected,   \* the components whose pane is opened
          LiveEvents,  \* the events that are explored
          MaxEvents,   \* bound on the log
          MaxDrops,    \* bound on lost connections
          Awaited      \* a fetch the server has not answered yet

ASSUME CacheAssumption == None \notin Nat /\ Awaited \notin Nat \cup {None}

VARIABLES read,        \* the key of the read that is followed
          log,
          shown,       \* a mounted component observes the read
          page,        \* "closed", or the state of the open page's live connection
          next,        \* the position behind which the open stream sends
          cursor,      \* lastEventPosition of the project, kept when the page is left
          data,        \* the position the cached data was read at, None without data
          fetch,       \* None, Awaited, or the position the answer under way was read at
          invalid,     \* isInvalidated
          swallowed,   \* an invalidation came while the first fetch was under way
          drops

cacheVars == <<read, log, shown, page, next, cursor, data, fetch, invalid, swallowed, drops>>

-----------------------------------------------------------------------------
(* queryKeys: the key of a scope is a prefix of every key below it.             *)

Project == <<>>
ProjectDetail == <<"detail">>
Architecture == <<"architecture">>
ViewList == <<"views">>
ViewDefinition(v) == ViewList \o <<"definition", v>>
RunList == <<"runs">>
CurrentRun == RunList \o <<"current">>
RunScope == <<"run">>
RunKey(r) == RunScope \o <<r>>
RunDetail(r) == RunKey(r) \o <<"detail">>
AgentsOf(r) == RunKey(r) \o <<"agents">>
PlansOf(r) == RunKey(r) \o <<"plans">>
ComponentScope == <<"component">>
ComponentKey(c) == ComponentScope \o <<c>>
Inspector(c, r) == ComponentKey(c) \o <<"inspector", r>>
HistoryOf(c) == ComponentKey(c) \o <<"history">>

Reads ==
    {ProjectDetail, Architecture, ViewList, ViewDefinition("saved"), RunList, CurrentRun}
        \union UNION {{RunDetail(r), AgentsOf(r), PlansOf(r)} : r \in Runs}
        \union {Inspector(c, r) : c \in Inspected, r \in Runs}
        \union {HistoryOf(c) : c \in Inspected}

\* affectedQueryKeys of an event that is no correction.
KeysOf(e) ==
    CASE e.type \in {"view.saved", "view.removed"} -> {ViewList}
      [] e.type = "context.opened" -> {AgentsOf(e.run), RunList, ProjectDetail}
      [] e.type = "work.scope_reported" -> {AgentsOf(e.run), ComponentScope}
      [] e.type = "work.reported" ->
            {AgentsOf(e.run), ComponentScope, RunDetail(e.run), RunList, ProjectDetail}
      [] e.type \in {"agent.started", "agent.status_reported", "agent.progress_reported",
                     "agent.finished"} -> {AgentsOf(e.run)}
      [] e.type \in {"plan.published", "plan.step_updated"} -> {PlansOf(e.run)}
      [] e.type = "work.step_started" -> {AgentsOf(e.run)} \union {ComponentKey(c) : c \in e.names}
      [] e.type = "work.step_completed" -> {AgentsOf(e.run), ComponentScope}
      [] e.type \in {"feedback.published", "diff.reported", "risk.reported", "problem.reported"} ->
            {ComponentKey(c) : c \in e.names}
      [] e.type \in {"model.mutation_applied", "architecture.snapshot_published"} ->
            {Architecture, ComponentScope, RunScope, ViewList}
      [] e.type \in {"component.change_applied", "relationship.change_applied"} ->
            {Architecture, ViewList} \union {ComponentKey(c) : c \in e.names}
      [] e.type \in {"component.change_planned", "relationship.change_planned"} ->
            {Architecture} \union {ComponentKey(c) : c \in e.names}
      [] e.type = "retraction.issued" -> {Project}
      [] e.type = "run.finished" -> {RunDetail(e.run), RunList, ProjectDetail}

\* A correction affects what the content it brings would affect.
Content(e) == IF e.type = "correction.issued" THEN e.corrected ELSE e
Affected(e) == KeysOf(Content(e))

Covers(key, one) == IsPrefix(key, one)

-----------------------------------------------------------------------------
(* The cached entry: <<data, fetch, invalid, swallowed>>.                       *)

Entry == <<data, fetch, invalid, swallowed>>

\* The fetch a mounted component, or an invalidation, starts.
Ask == fetch' = Awaited /\ UNCHANGED <<data, invalid, swallowed>>

\* Mutant: the fetch that is under way is not given up.
KeepFetch ==
    /\ invalid' = (invalid \/ data # None)
    /\ swallowed' = (swallowed \/ (data = None /\ fetch # None))
    /\ fetch' = IF shown /\ fetch = None THEN Awaited ELSE fetch
    /\ UNCHANGED data

\* invalidateQueries with a key that covers the read.
Invalidate ==
    /\ invalid' = (invalid \/ data # None)
    /\ swallowed' = (swallowed \/ (data = None /\ fetch # None))
    /\ fetch' = IF shown /\ ~(data = None /\ fetch # None) THEN Awaited ELSE fetch
    /\ UNCHANGED data

-----------------------------------------------------------------------------
(* The server and the network.                                                  *)

Commit(e) ==
    /\ Len(log) < MaxEvents
    /\ log' = Append(log, e)
    /\ UNCHANGED <<read, shown, page, next, cursor, drops>> /\ UNCHANGED Entry

\* The server answers the fetch from the log as it is.
Answer ==
    /\ fetch = Awaited
    /\ fetch' = Len(log)
    /\ UNCHANGED <<read, log, shown, page, next, cursor, data, invalid, swallowed, drops>>

Arrive ==
    /\ fetch \notin {None, Awaited}
    /\ data' = fetch
    /\ fetch' = None
    /\ invalid' = FALSE
    /\ swallowed' = (swallowed /\ data = None)
    /\ UNCHANGED <<read, log, shown, page, next, cursor, drops>>

\* The fetch fails after its retries; what is on screen stays.
GiveUp ==
    /\ fetch # None
    /\ fetch' = None
    /\ swallowed' = (swallowed /\ data # None)
    /\ UNCHANGED <<read, log, shown, page, next, cursor, data, invalid, drops>>

-----------------------------------------------------------------------------
(* The page.                                                                    *)

\* A component that shows the read is mounted: the read is fetched when there is
\* no data, when it is marked, or when it is older than staleTime.
Show ==
    /\ page # "closed" /\ ~shown
    /\ shown' = TRUE
    /\ \/ Ask
       \/ data # None /\ ~invalid /\ UNCHANGED Entry
    /\ UNCHANGED <<read, log, page, next, cursor, drops>>

\* Unmounted: a fetch under way is aborted, and what it was to replace stays.
Unshown ==
    /\ shown' = FALSE
    /\ fetch' = None
    /\ swallowed' = (swallowed /\ data # None)
    /\ UNCHANGED <<data, invalid>>

Hide ==
    /\ shown
    /\ Unshown
    /\ UNCHANGED <<read, log, page, next, cursor, drops>>

\* gcTime after the last component was unmounted.
Collect ==
    /\ ~shown /\ data # None
    /\ data' = None
    /\ invalid' = FALSE
    /\ swallowed' = FALSE
    /\ UNCHANGED <<read, log, shown, page, next, cursor, fetch, drops>>

\* useLiveStream mounts and connects; the project's cursor is still known.
Visit ==
    /\ page = "closed"
    /\ page' = "connecting"
    /\ UNCHANGED <<read, log, shown, next, cursor, drops>> /\ UNCHANGED Entry

Leave ==
    /\ page # "closed"
    /\ page' = "closed"
    /\ next' = None
    /\ Unshown
    /\ UNCHANGED <<read, log, cursor, drops>>

\* The server subscribes the stream: behind the cursor, or at the live tail.
Subscribe ==
    /\ page = "connecting" /\ next = None
    /\ next' = IF cursor = None THEN Len(log) ELSE cursor
    /\ UNCHANGED <<read, log, shown, page, cursor, drops>> /\ UNCHANGED Entry

\* The source opens: without a cursor the reads of the project are reconciled.
Live ==
    /\ page = "connecting" /\ next # None
    /\ page' = "live"
    /\ IF cursor = None THEN Invalidate ELSE UNCHANGED Entry
    /\ UNCHANGED <<read, log, shown, next, cursor, drops>>

Drop ==
    /\ page \in {"connecting", "live"} /\ drops < MaxDrops
    /\ page' = "connecting"
    /\ next' = None
    /\ drops' = drops + 1
    /\ UNCHANGED <<read, log, shown, cursor>> /\ UNCHANGED Entry

\* applyLiveEvent, then recordEvent.
Frame ==
    /\ page = "live" /\ next < Len(log)
    /\ IF \E key \in Affected(log[next + 1]) : Covers(key, read)
       THEN Invalidate ELSE UNCHANGED Entry
    /\ next' = next + 1
    /\ cursor' = next + 1
    /\ UNCHANGED <<read, log, shown, page, drops>>

-----------------------------------------------------------------------------

CacheInit ==
    /\ read \in Reads
    /\ log = <<>>
    /\ shown = FALSE
    /\ page = "closed"
    /\ next = None
    /\ cursor = None
    /\ data = None
    /\ fetch = None
    /\ invalid = FALSE
    /\ swallowed = FALSE
    /\ drops = 0

CacheNext ==
    \/ \E e \in LiveEvents : Commit(e)
    \/ Answer \/ Arrive \/ GiveUp
    \/ Show \/ Hide \/ Collect
    \/ Visit \/ Leave \/ Subscribe \/ Live \/ Drop \/ Frame

CacheSpec == CacheInit /\ [][CacheNext]_cacheVars

-----------------------------------------------------------------------------
(* Properties.                                                                  *)

\* How far the page has been told of the log: what the stream has sent, or what
\* the reconciliation of a stream without a cursor stands for.
Told == IF page = "live" THEN next ELSE IF cursor = None THEN 0 ELSE cursor

\* Data that is not marked is not older than an event whose keys cover it and that
\* the page was told of, over reconnects, visits to other projects, reads that are
\* collected and answers that were read before the event and arrive after it
\* (useLiveStream.ts:78-88).  The first fetch of a read is the exception: an
\* invalidation that finds it under way is lost.
InvalidationsReachReads ==
    data # None /\ ~invalid /\ ~swallowed =>
        \A p \in (data + 1)..Told : \A key \in Affected(log[p]) : ~Covers(key, read)

=============================================================================
