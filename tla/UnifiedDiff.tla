----------------------------- MODULE UnifiedDiff -----------------------------
(* The lines of a reported diff as the inspector classifies and numbers them           *)
(* (components/workspace/inspector/unifiedDiff.ts), against the edit that the diff       *)
(* describes.  A raw line is what it begins with: "@@" with the two numbers of its         *)
(* header, "--- ", "+++ ", one of META_PREFIXES, "+", "-", or anything else.               *)
EXTENDS Integers, SequencesExt

CONSTANT None     \* no number, and no path

\* One line of an edit: what happens to it, and whether its text begins like the rest
\* of a file header ("-- " or "++ ").
EditLines == [change : {"addition", "removal", "context"}, marked : BOOLEAN]

\* A file of a diff: a header with its paths, and hunks of lines at a place of the file.
Hunk(old, new, lines) == [old |-> old, new |-> new, lines |-> lines]
Path(side, name) == [begins |-> side, path |-> name]
Header(old, new) == [begins |-> "@@", old |-> old, new |-> new]
Text(begins) == [begins |-> begins]

\* The lines of the diff, as diff -u writes them.
RawLine(line) ==
    IF line.change = "context" THEN Text(" ")
    ELSE IF line.change = "removal" THEN IF line.marked THEN Path("--- ", "text") ELSE Text("-")
    ELSE IF line.marked THEN Path("+++ ", "text") ELSE Text("+")
Each(Op(_), seq) == FoldLeft(LAMBDA done, x : Append(done, Op(x)), <<>>, seq)
RawDiff(old, new, hunks, trailer) ==
    <<Text("diff --git "), Path("--- ", old), Path("+++ ", new)>>
        \o FlattenSeq(Each(LAMBDA h : <<Header(h.old, h.new)>> \o Each(RawLine, h.lines), hunks))
        \o trailer

-----------------------------------------------------------------------------
(* parseUnifiedDiff.                                                              *)

DiffLine(kind, old, new) == [kind |-> kind, oldNumber |-> old, newNumber |-> new]
Meta(kind) == DiffLine(kind, None, None)

MetaPrefixes == {"diff --git ", "index ", "\\ No newline at end of file"}

Unread == [lines |-> <<>>, additions |-> 0, removals |-> 0, oldPath |-> None, newPath |-> None,
           oldNumber |-> None, newNumber |-> None]

Context(read) ==
    [read EXCEPT !.lines = Append(@, DiffLine("context", read.oldNumber, read.newNumber)),
                 !.oldNumber = @ + 1, !.newNumber = @ + 1]
Addition(read) ==
    [read EXCEPT !.lines = Append(@, DiffLine("addition", None, read.newNumber)),
                 !.additions = @ + 1, !.newNumber = @ + 1]
Removal(read) ==
    [read EXCEPT !.lines = Append(@, DiffLine("removal", read.oldNumber, None)),
                 !.removals = @ + 1, !.oldNumber = @ + 1]
Passed(read, kind) == [read EXCEPT !.lines = Append(@, Meta(kind))]

\* The first that fits: a file header, also inside of a hunk; a hunk header; metadata,
\* which is everything before the first hunk; a changed line; or one that stays.
ReadLine(read, raw) ==
    IF raw.begins = "--- " THEN [Passed(read, "meta") EXCEPT !.oldPath = raw.path]
    ELSE IF raw.begins = "+++ " THEN [Passed(read, "meta") EXCEPT !.newPath = raw.path]
    ELSE IF raw.begins = "@@"
         THEN [Passed(read, "hunk") EXCEPT !.oldNumber = raw.old, !.newNumber = raw.new]
    ELSE IF raw.begins \in MetaPrefixes \/ read.oldNumber = None THEN Passed(read, "meta")
    ELSE IF raw.begins = "+" THEN Addition(read)
    ELSE IF raw.begins = "-" THEN Removal(read)
    ELSE Context(read)

ParseUnifiedDiff(rawLines) == FoldLeft(ReadLine, Unread, rawLines)

IsCreation(read) == read.oldPath = "/dev/null" /\ read.newPath # "/dev/null"
IsDeletion(read) == read.newPath = "/dev/null" /\ read.oldPath # "/dev/null"

-----------------------------------------------------------------------------

\* What is shown of a well-formed diff is the edit: every line of a hunk once, as what it
\* is, with its numbers in the two files; and what counts are those lines.  It is so as
\* long as no changed line begins like a file header (unifiedDiff.ts:2-10, 85-95).
ShowsTheEdit(old, new, hunks, trailer) ==
    LET read == ParseUnifiedDiff(RawDiff(old, new, hunks, trailer))
        isMarked(h) == \E i \in DOMAIN h.lines : h.lines[i].marked /\ h.lines[i].change # "context"
        before(h, i, gone) == Cardinality({j \in 1..(i - 1) : h.lines[j].change # gone})
        edit(h) ==
            [i \in DOMAIN h.lines |->
                LET change == h.lines[i].change
                IN  DiffLine(change,
                             IF change = "addition" THEN None ELSE h.old + before(h, i, "addition"),
                             IF change = "removal" THEN None ELSE h.new + before(h, i, "removal"))]
        edits == FlattenSeq(Each(edit, hunks))
        counted(kind) == Cardinality({i \in DOMAIN edits : edits[i].kind = kind})
    IN  /\ Len(read.lines) = Len(RawDiff(old, new, hunks, trailer))
        /\ (\A i \in DOMAIN hunks : ~isMarked(hunks[i])) =>
               /\ SelectSeq(read.lines, LAMBDA l : l.kind \notin {"meta", "hunk"}) = edits
               /\ read.additions = counted("addition") /\ read.removals = counted("removal")
               /\ IsCreation(read) <=> old = "/dev/null" /\ new # "/dev/null"
               /\ IsDeletion(read) <=> new = "/dev/null" /\ old # "/dev/null"
=============================================================================
