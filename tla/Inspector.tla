------------------------------ MODULE Inspector ------------------------------
(* The right pane on one component (components/workspace/InspectorPane.tsx): the    *)
(* feedback and the diffs of the current run or the history of all runs, read page   *)
(* by page while agents report, correct and withdraw; the grouping of the diffs      *)
(* (inspector/diffGroups.ts), the links of the history (inspector/historyEntries.ts) *)
(* and the reader's place in a list that grows above it (inspector/scrollStability.ts).*)
(*                                                                                  *)
(* An event is [kind, id, agent, change, target, names]: a correction restates the   *)
(* item id that the event at position target reported; names says that its content   *)
(* names this component.  Heights are rows: one for an entry or a heading, one for a  *)
(* file; the texts, risks, problems and changes below the lists are one row.          *)
(* Correcting a correction is left out: the projector does not apply it.              *)
EXTENDS Missing, Listing

CONSTANTS Reported,   \* logs the pane may open on
          MaxLog,     \* bound: events
          NewItems,   \* ids of the items reported later
          Authors, Changes,
          PageSize,   \* diffs of one page, and entries of one page of the history
          Window      \* rows that are visible

\* A log as the server stores it: a correction is of an event that was there before.
IsLog(log) ==
    /\ log \in Seq(ToSet(log))
    /\ \A p \in DOMAIN log : log[p].kind = "correction" => log[p].target \in 1..(p - 1)

ASSUME InspectorAssumption ==
    /\ \A log \in Reported : IsLog(log)
    /\ PageSize \in Nat \ {0} /\ Window \in Nat

VARIABLES events,     \* the events of the component's run, in order
          run,        \* useComponentInspector: feedback, diffs, pages, more
          history,    \* useComponentHistory: entries, pages, more
          evidence,   \* what the live stream itself contributed (ElementContributions)
          mode, focus,
          failed,     \* the reads whose last try failed: "run", "history"
          rendered,   \* the rendered blocks
          top,        \* scrollTop
          anchor,     \* anchorRef: the entry the reader looks at and how far it is down
          owed        \* the browser still owes the scroll event of a scroll it made

inspectorVars == <<events, run, history, evidence, mode, focus, failed, rendered, top, anchor, owed>>

-----------------------------------------------------------------------------
(* The reads of the server (readapi/components.go).                               *)

Event(kind, id, agent, change, target, names) ==
    [kind |-> kind, id |-> id, agent |-> agent, change |-> change, target |-> target, names |-> names]

\* A correction writes the row of its item anew, with its own position and author.
Restates(event, kind) ==
    event.kind = kind \/ (event.kind = "correction" /\ events[event.target].kind = kind)
PositionsOf(kind, id) == {p \in DOMAIN events : Restates(events[p], kind) /\ events[p].id = id}
ReportedRow(kind, id) ==
    LET p == Max(PositionsOf(kind, id))
    IN  [id |-> id, agent |-> events[p].agent, change |-> events[p].change, position |-> p]

Backwards(n) == [i \in 1..n |-> n + 1 - i]
NewestFirst(rows) ==
    LET positions == {r.position : r \in rows}
        at == Picked(Backwards(Max({0} \cup positions)), positions)
    IN  [i \in DOMAIN at |-> CHOOSE r \in rows : r.position = at[i]]
FirstOf(seq, n) == SubSeq(seq, 1, Min({n, Len(seq)}))

\* Only what some report of it linked to the component is listed.
RowsOf(kind) ==
    NewestFirst({ReportedRow(kind, id) :
        id \in {events[p].id : p \in {q \in DOMAIN events : Restates(events[q], kind) /\ events[q].names}}})

\* eventComponentIDs knows no component of a retraction.
ComponentHistory ==
    Picked(Backwards(Len(events)), {p \in DOMAIN events : events[p].kind # "retraction" /\ events[p].names})

\* As many rows as the pages that are loaded hold.
RunOf(feedback, diffs, pages) ==
    [feedback |-> feedback, diffs |-> FirstOf(diffs, pages * PageSize), pages |-> pages,
     more |-> Len(diffs) > pages * PageSize]
HistoryPages(entries, pages) ==
    [entries |-> FirstOf(entries, pages * PageSize), pages |-> pages,
     more |-> Len(entries) > pages * PageSize]
FetchedRun(pages) == RunOf(RowsOf("feedback"), RowsOf("diff"), pages)
FetchedHistory(pages) == HistoryPages(ComponentHistory, pages)

-----------------------------------------------------------------------------
(* groupDiffs and buildHistoryItems.                                              *)

\* Mutant: the change alone makes the group.
KeyWithoutAgent(diff) == IF diff.change = None THEN <<"diff", diff.id>> ELSE <<"change", diff.change>>

KeyOf(diff) ==
    IF diff.change = None THEN <<"diff", diff.id>> ELSE <<"change", diff.agent, diff.change>>

\* A repeated diff is dropped.
SeenOnce(diffs) ==
    {diffs[i] : i \in {n \in DOMAIN diffs : \A j \in 1..(n - 1) : diffs[j].id # diffs[n].id}}

\* Groups newest first, their files as they were reported.
DiffGroup(rows, key) ==
    LET files == {r \in rows : KeyOf(r) = key}
    IN  [key |-> key, position |-> Max({r.position : r \in files}), files |-> Reverse(NewestFirst(files))]
DiffGroups(diffs) ==
    LET rows == SeenOnce(diffs)
    IN  NewestFirst({DiffGroup(rows, KeyOf(r)) : r \in rows})

HistoryItems(entries) ==
    LET corrected == {events[p].target : p \in {q \in ToSet(entries) : events[q].kind = "correction"}}
        item(p) == [position |-> p, isCorrected |-> p \in corrected,
                    references |-> IF events[p].kind = "correction" THEN events[p].target ELSE None]
    IN  [i \in DOMAIN entries |-> item(entries[i])]

-----------------------------------------------------------------------------
(* What is rendered, top to bottom.                                                *)

Block(id, height) == [id |-> id, height |-> height]
Contributions(count) == IF count = 0 THEN <<>> ELSE <<Block(None, count)>>
FeedbackList(rows) == [i \in DOMAIN rows |-> Block(<<"feedback", rows[i].id>>, 1)]
DiffGroupList(diffs) ==
    LET groups == DiffGroups(diffs)
    IN  [i \in DOMAIN groups |-> Block(<<"diff-group", groups[i].key>>, 1 + Len(groups[i].files))]
ComponentHistoryList(entries) == [i \in DOMAIN entries |-> Block(<<"history", entries[i]>>, 1)]

\* The rendered blocks, each with the rows it takes.
Layout(blocks) ==
    LET end[k \in 0..Len(blocks)] == IF k = 0 THEN 0 ELSE end[k - 1] + blocks[k].height
    IN  [i \in 1..Len(blocks) |-> [id |-> blocks[i].id, from |-> end[i - 1], to |-> end[i]]]
\* AsyncState shows the error of a read in place of what was read: that of the run in
\* place of the component's card and the lists, that of the history in place of its list.
Unlisted(shownMode, broken) == "run" \in broken \/ (shownMode = "history" /\ "history" \in broken)

PaneContent(shownRun, shownHistory, contributions, shownMode, section, broken) ==
    Layout(Contributions(contributions) \o <<Block(None, 1)>>
           \o (IF Unlisted(shownMode, broken) THEN <<>>
               ELSE IF shownMode = "history" THEN ComponentHistoryList(shownHistory.entries)
               ELSE (IF section = "diffs" THEN <<>> ELSE FeedbackList(shownRun.feedback))
                    \o (IF section = "feedback" THEN <<>> ELSE DiffGroupList(shownRun.diffs))
                    \o (IF section = None THEN <<Block(None, 1)>> ELSE <<>>)))

EntryIn(content, id) == CHOOSE block \in ToSet(content) : block.id = id
Anchored(content) == {block.id : block \in ToSet(content)} \ {None}
MaxTop(content) == Max({0, Last(content).to - Window})

Ids(rows) == [i \in DOMAIN rows |-> rows[i].id]

\* Mutant: feedback that comes in is no reason to look where the reader is.
SignatureOfDiffs == <<mode, Ids(run.diffs), history.entries>>

ContentSignature == <<mode, Ids(run.diffs), Ids(run.feedback), history.entries>>

\* findScrollAnchor: the first entry whose end has not left the window.
FindAnchor(content, at) ==
    LET visible == {i \in DOMAIN content : content[i].id # None /\ content[i].to > at}
    IN  IF visible = {} THEN None
        ELSE [id |-> content[Min(visible)].id, offset |-> content[Min(visible)].from - at]

\* captureAnchor.
Captured(content, at) == IF at <= 0 THEN None ELSE FindAnchor(content, at)

\* nextScrollTop.
NextScrollTop(at, shift, max) == Max({0, Min({max, at + shift})})

\* The layout effect of useStableScroll, after the browser has kept the offset within
\* the content it now has.
Pinned(content, changed) ==
    LET at == Min({top, MaxTop(content)})
        found == changed /\ anchor # None /\ anchor.id \in Anchored(content)
        shift == EntryIn(content, anchor.id).from - at - anchor.offset
    IN  IF found THEN NextScrollTop(at, shift, MaxTop(content)) ELSE at

RenderPane ==
    /\ rendered' = PaneContent(run', history', evidence', mode', focus', failed')
    /\ top' = Pinned(rendered', ContentSignature' # ContentSignature)
    /\ owed' = (owed \/ top' # top)
    /\ UNCHANGED anchor

-----------------------------------------------------------------------------
(* The agents.                                                                    *)

Publish(event) ==
    /\ Len(events) < MaxLog
    /\ events' = Append(events, event)
    /\ UNCHANGED <<run, history, evidence, mode, focus, failed, rendered, top, anchor, owed>>

\* feedback.published, diff.reported: also of an item that was reported before.
Report(kind, id, agent, change) ==
    /\ kind = "feedback" => change = None
    /\ \A p \in DOMAIN events : events[p].id = id => Restates(events[p], kind)
    /\ Publish(Event(kind, id, agent, change, None, TRUE))

Correct(target, agent, change, names) ==
    /\ events[target].kind \in {"feedback", "diff"}
    /\ events[target].kind = "feedback" => change = None
    /\ Publish(Event("correction", events[target].id, agent, change, target, names))

\* It only marks a planned change; diffs and feedback stay.
Retract(target) ==
    /\ events[target].kind \in {"feedback", "diff"}
    /\ Publish(Event("retraction", events[target].id, events[target].agent, None, target, FALSE))

-----------------------------------------------------------------------------
(* The pane.                                                                      *)

\* A live event refetches every page that is loaded.
FetchRun ==
    /\ run' = FetchedRun(run.pages) /\ failed' = failed \ {"run"}
    /\ UNCHANGED <<events, history, evidence, mode, focus>>
    /\ RenderPane

\* The history is only read while it is shown.
FetchHistory ==
    /\ mode = "history"
    /\ history' = FetchedHistory(history.pages) /\ failed' = failed \ {"history"}
    /\ UNCHANGED <<events, run, evidence, mode, focus>>
    /\ RenderPane

\* A read fails: what it read before is kept, but no longer shown.
FetchFails(read) ==
    /\ read \notin failed /\ (read = "history" => mode = "history")
    /\ failed' = failed \cup {read}
    /\ UNCHANGED <<events, run, history, evidence, mode, focus>>
    /\ RenderPane

\* fetchNextPage: what lies below the last diff that is loaded.
LoadMoreDiffs ==
    LET last == run.diffs[Len(run.diffs)].position
        listed == RowsOf("diff")
        rest == NewestFirst({r \in ToSet(listed) : r.position < last})
    IN  /\ mode = "run" /\ focus # "feedback" /\ run.more /\ ~Unlisted(mode, failed)
        /\ run' = [run EXCEPT !.diffs = @ \o FirstOf(rest, PageSize), !.pages = @ + 1,
                              !.more = Len(rest) > PageSize]
        /\ UNCHANGED <<events, history, evidence, mode, focus, failed>>
        /\ RenderPane

LoadMoreHistory ==
    LET last == history.entries[Len(history.entries)]
        rest == Picked(ComponentHistory, 1..(last - 1))
    IN  /\ mode = "history" /\ history.more /\ ~Unlisted(mode, failed)
        /\ history' = [history EXCEPT !.entries = @ \o FirstOf(rest, PageSize), !.pages = @ + 1,
                                      !.more = Len(rest) > PageSize]
        /\ UNCHANGED <<events, run, evidence, mode, focus, failed>>
        /\ RenderPane

\* The ledger of the live stream attributes one more contribution to the component.
Contribute ==
    /\ evidence = 0
    /\ evidence' = 1
    /\ UNCHANGED <<events, run, history, mode, focus, failed>>
    /\ RenderPane

SetHistoryMode(next) ==
    /\ next # mode
    /\ mode' = next
    /\ UNCHANGED <<events, run, history, evidence, focus, failed>>
    /\ RenderPane

SetFocus(section) ==
    /\ section # focus /\ mode = "run" /\ (section # None => ~Unlisted(mode, failed))
    /\ focus' = section
    /\ UNCHANGED <<events, run, history, evidence, mode, failed>>
    /\ RenderPane

\* The reader scrolls; the browser tells the pane in the same frame.
Scroll(at) ==
    /\ at # top
    /\ top' = at
    /\ anchor' = Captured(rendered, at)
    /\ owed' = FALSE
    /\ UNCHANGED <<events, run, history, evidence, mode, focus, failed, rendered>>

\* It tells it of the pane's own scrolls a frame later.
OnScroll ==
    /\ owed
    /\ anchor' = Captured(rendered, top)
    /\ owed' = FALSE
    /\ UNCHANGED <<events, run, history, evidence, mode, focus, failed, rendered, top>>

\* The pane opens on the feedback and the newest diffs of the run.
Opened(log) ==
    /\ events = log
    /\ run = FetchedRun(1)
    /\ history = [entries |-> <<>>, pages |-> 1, more |-> FALSE]
    /\ evidence = 0 /\ mode = "run" /\ focus = None /\ failed = {}
    /\ rendered = PaneContent(run, history, evidence, mode, focus, failed)
    /\ top = 0 /\ anchor = None /\ owed = FALSE

InspectorInit == \E log \in Reported : Opened(log)

InspectorNext ==
    \/ \E agent \in Authors, change \in Changes \cup {None} :
           \/ \E id \in NewItems, kind \in {"feedback", "diff"} : Report(kind, id, agent, change)
           \/ \E target \in DOMAIN events, names \in BOOLEAN : Correct(target, agent, change, names)
    \/ \E target \in DOMAIN events : Retract(target)
    \/ \E read \in {"run", "history"} : FetchFails(read)
    \/ FetchRun \/ FetchHistory \/ LoadMoreDiffs \/ LoadMoreHistory \/ Contribute
    \/ \E next \in {"run", "history"} : SetHistoryMode(next)
    \/ \E section \in {None, "feedback", "diffs"} : SetFocus(section)
    \/ \E at \in 0..MaxTop(rendered) : Scroll(at)
    \/ OnScroll

InspectorSpec == InspectorInit /\ [][InspectorNext]_inspectorVars

-----------------------------------------------------------------------------
(* Properties.                                                                    *)

\* Every diff is one file of one group, a group is the work of one agent on one change
\* or an unattributed diff, two groups are not of the same work.
GroupsAreWhole(groups, diffs) ==
    LET files(i) == ToSet(groups[i].files)
    IN  /\ \A d \in ToSet(diffs) :
               Cardinality({i \in DOMAIN groups : \E f \in files(i) : f.id = d.id}) = 1
        /\ \A i \in DOMAIN groups : \A f, g \in files(i) :
               f # g => f.change # None /\ f.change = g.change /\ f.agent = g.agent
        /\ \A i, j \in DOMAIN groups : i < j =>
               /\ groups[i].position > groups[j].position
               /\ \A f \in files(i), g \in files(j) :
                      f.change = None \/ f.change # g.change \/ f.agent # g.agent

\* An entry is marked exactly when a correction of it was stored before the list was read.
CorrectionsAreMarked(items) ==
    LET newest == IF items = <<>> THEN 0 ELSE items[1].position
    IN  \A item \in ToSet(items) :
            item.isCorrected <=>
                \E p \in DOMAIN events : /\ p <= newest /\ events[p].kind = "correction"
                                         /\ events[p].names /\ events[p].target = item.position

\* Whatever was corrected, however the pages were read: a diff that is shown is one
\* file of exactly one group, a group is the work of one agent on one change, the work
\* of two agents is never one group, and the newest group comes first.  In the history
\* an entry is marked as corrected whenever a correction of it that names the component
\* was stored before the list was read, since a page never reaches past an entry without
\* its corrections (diffGroups.ts:18-31, historyEntries.ts:14-29).
EvidenceStaysLegible ==
    /\ GroupsAreWhole(DiffGroups(run.diffs), run.diffs)
    /\ CorrectionsAreMarked(HistoryItems(history.entries))

\* No entry came, went or moved, but a correction gave a diff to other work.
OnlyRegrouped ==
    /\ <<Ids(run.diffs), Ids(run.feedback), history.entries>>
           = <<Ids(run.diffs), Ids(run.feedback), history.entries>>'
    /\ \E i \in DOMAIN run.diffs : KeyOf(run.diffs[i]) # KeyOf(run.diffs[i])'

\* How far down the window an entry is.
OffsetOf(id) == EntryIn(rendered, id).from - top

\* The lists were read anew, in the view the reader has of them, and the entry the pane
\* remembers, which is where it was remembered, is still listed.
ReadAnew ==
    /\ <<run, history>> # <<run, history>>' /\ <<mode, focus>> = <<mode, focus>>' /\ ~OnlyRegrouped
    /\ anchor # None /\ anchor.id \in Anchored(rendered) \cap Anchored(rendered')
    /\ anchor.offset = OffsetOf(anchor.id)

\* The entry is where it was in the window, or the list ends before it could be.
PlaceIsKept ==
    ReadAnew =>
        \/ OffsetOf(anchor.id)' = anchor.offset
        \/ OffsetOf(anchor.id)' > anchor.offset /\ top' = MaxTop(rendered')
        \/ OffsetOf(anchor.id)' < anchor.offset /\ top' = 0

\* Whatever a read brings, entries that come in, leave, move or are corrected above the
\* reader do not move what they read: the entry the pane remembers stays at its place in
\* the window, as far as the list reaches (scrollStability.ts:1-29).  Except that a
\* correction which gives a listed diff to another agent or change, and moves no entry,
\* does: the groups merge or part while the ids, of which the signature is made, stay
\* (InspectorPane.tsx:146-152), although its comment says it changes whenever something
\* is inserted or removed (144-145).
ReaderKeepsPlace == [][PlaceIsKept]_inspectorVars
=============================================================================
