---------------------------- MODULE CockpitProofs ----------------------------
(* The parts of the cockpit of which theorems are proved, for any values of their *)
(* constants: the panes, the canvas, the read cache, the canvas views and the      *)
(* simulator.  They share no state; each has its own invariant.                    *)
EXTENDS Panes, Canvas, QueryCache, CanvasViews, Simulator, SequenceTheorems,
        FiniteSetTheorems, TLAPS

-----------------------------------------------------------------------------
(* Panes: the arrangement survives both focus modes.                              *)

\* The stack of modes is one of five; on them the operators of the model are
\* these.
Stacks == {<<>>, <<"deep">>, <<"architecture">>, <<"deep", "architecture">>,
           <<"architecture", "deep">>}

LEMMA StackFacts ==
    ASSUME stack \in Stacks
    PROVE  /\ Entered("deep") <=> stack \in Stacks \ {<<>>, <<"architecture">>}
           /\ Entered("architecture") <=> stack \in Stacks \ {<<>>, <<"deep">>}
<1>1. CASE stack = <<>>
    BY <1>1 DEF Stacks, Entered
<1>2. CASE stack = <<"deep">>
    <2>1. Len(stack) = 1 /\ stack[1] = "deep"
        BY <1>2
    <2> QED
        BY <1>2, <2>1 DEF Stacks, Entered
<1>3. CASE stack = <<"architecture">>
    <2>1. Len(stack) = 1 /\ stack[1] = "architecture"
        BY <1>3
    <2> QED
        BY <1>3, <2>1 DEF Stacks, Entered
<1>4. CASE stack = <<"deep", "architecture">>
    <2>1. Len(stack) = 2 /\ stack[1] = "deep" /\ stack[2] = "architecture"
        BY <1>4
    <2> QED
        BY <1>4, <2>1 DEF Stacks, Entered
<1>5. CASE stack = <<"architecture", "deep">>
    <2>1. Len(stack) = 2 /\ stack[1] = "architecture" /\ stack[2] = "deep"
        BY <1>5
    <2> QED
        BY <1>5, <2>1 DEF Stacks, Entered
<1> QED
    BY <1>1, <1>2, <1>3, <1>4, <1>5 DEF Stacks

LEMMA AppendToOne ==
    ASSUME NEW x, NEW y
    PROVE  Append(<<x>>, y) = <<x, y>>
<1> DEFINE a == Append(<<x>>, y)
           b == <<x, y>>
<1>1. a \in Seq({x, y}) /\ Len(a) = 2 /\ a[1] = x /\ a[2] = y
    OBVIOUS
<1>2. b \in Seq({x, y}) /\ Len(b) = 2 /\ b[1] = x /\ b[2] = y
    OBVIOUS
<1> HIDE DEF a, b
<1>3. a = b
    BY <1>1, <1>2, SeqEqual
<1> QED
    BY <1>3 DEF a, b

LEMMA PushFacts ==
    ASSUME stack \in Stacks, NEW mode \in {"deep", "architecture"}, stack' = Push(mode)
    PROVE  /\ stack' \in Stacks /\ stack' # <<>>
           /\ Entered(mode)'
           /\ \A other \in {"deep", "architecture"} : other # mode => (Entered(other)' <=> Entered(other))
<1>1. CASE Entered(mode)
    <2>1. stack' = stack
        BY <1>1 DEF Push
    <2>2. stack # <<>>
        BY <1>1, StackFacts
    <2> QED
        BY <1>1, <2>1, <2>2 DEF Entered
<1>2. CASE ~Entered(mode)
    <2>1. stack' = Append(stack, mode)
        BY <1>2 DEF Push
    <2>2. stack = <<>> \/ \E other \in {"deep", "architecture"} : other # mode /\ stack = <<other>>
        BY <1>2, StackFacts DEF Stacks
    <2>3. CASE stack = <<>>
        <3>1. stack' = <<mode>> /\ Len(stack') = 1 /\ stack'[1] = mode
            BY <2>1, <2>3
        <3> QED
            BY <2>3, <3>1 DEF Stacks, Entered
    <2>4. CASE \E other \in {"deep", "architecture"} : other # mode /\ stack = <<other>>
        <3>1. PICK other \in {"deep", "architecture"} : other # mode /\ stack = <<other>>
            BY <2>4
        <3>2. Append(<<other>>, mode) = <<other, mode>>
            BY AppendToOne
        <3>3. stack' = <<other, mode>>
            BY <2>1, <3>1, <3>2
        <3>4. stack' \in Stacks /\ stack' # <<>>
            BY <3>1, <3>3 DEF Stacks
        <3>5. Len(stack') = 2 /\ stack'[1] = other /\ stack'[2] = mode
            BY <3>3
        <3>6. Len(stack) = 1 /\ stack[1] = other
            BY <3>1
        <3> QED
            BY <3>1, <3>4, <3>5, <3>6 DEF Entered
    <2> QED
        BY <2>2, <2>3, <2>4
<1> QED
    BY <1>1, <1>2

LEMMA RemainingFacts ==
    ASSUME stack \in Stacks, NEW mode \in {"deep", "architecture"}, stack' = Remaining(mode)
    PROVE  /\ stack' \in Stacks
           /\ ~Entered(mode)'
           /\ \A other \in {"deep", "architecture"} : other # mode => (Entered(other)' <=> Entered(other))
BY DEF Stacks, Entered, Remaining

LEMMA InitInv == PanesInit => PanesInv
<1> SUFFICES ASSUME PanesInit PROVE PanesInv
    OBVIOUS
<1>1. PanesTypeOK
    BY PanesAssumption DEF PanesInit, PanesTypeOK, Arrangements, Noted
<1>2. ~Entered("deep") /\ ~Entered("architecture")
    BY DEF PanesInit, Entered
<1> QED
    BY <1>1, <1>2 DEF PanesInit, PanesInv

LEMMA NoneIsNoArrangement == None \notin Arrangements
BY PanesAssumption DEF Arrangements

\* What the invariant says of the notes.
LEMMA NotesFacts ==
    ASSUME PanesInv
    PROVE  /\ stack \in Stacks /\ panes \in Arrangements /\ own \in Arrangements
           /\ Entered("deep") \/ Entered("architecture") <=> stack # <<>>
           /\ stack # <<>> => beforeModes = own
           /\ stack = <<>> => beforeModes = None /\ beforeDeep = None /\ beforeArch = None /\ panes = own
           /\ beforeDeep # None => beforeDeep \in Arrangements
           /\ beforeArch # None => beforeArch \in Arrangements
           /\ Kept(beforeModes) = own
           /\ Kept(beforeDeep) \in Arrangements /\ Kept(beforeArch) \in Arrangements
<1>1. stack \in Stacks
    BY DEF PanesInv, PanesTypeOK, Stacks
<1>2. Entered("deep") \/ Entered("architecture") <=> stack # <<>>
    BY <1>1, StackFacts DEF Stacks
<1> QED
    BY <1>1, <1>2, NoneIsNoArrangement DEF PanesInv, PanesTypeOK, Noted, Kept

LEMMA DeepEntered ==
    ASSUME PanesInv, NEW target \in FocusTargets, EnterDeepFocus(target),
           url = target, UNCHANGED <<mounted, url, own>>, due' = FALSE
    PROVE  PanesInv'
<1> USE NotesFacts
<1>1. /\ stack' \in Stacks /\ stack' # <<>> /\ Entered("deep")'
      /\ Entered("architecture")' <=> Entered("architecture")
    BY PushFacts DEF EnterDeepFocus
<1>2. panes' \in Arrangements
    BY PanesAssumption DEF EnterDeepFocus, Arrangements
<1>3. beforeDeep' \in Arrangements /\ beforeModes' = own
    BY DEF EnterDeepFocus
<1>4. PanesTypeOK'
    BY <1>1, <1>2, <1>3 DEF PanesInv, PanesTypeOK, EnterDeepFocus, Noted, Stacks
<1>5. target # None /\ None \notin Arrangements
    BY PanesAssumption, NoneIsNoArrangement
<1> QED
    BY <1>1, <1>3, <1>4, <1>5 DEF PanesInv, EnterDeepFocus

LEMMA ArchitectureEntered ==
    ASSUME PanesInv, EnterArchitectureFocus, UNCHANGED <<mounted, url, due, own>>
    PROVE  PanesInv'
<1> USE NotesFacts
<1>1. /\ stack' \in Stacks /\ stack' # <<>> /\ Entered("architecture")'
      /\ Entered("deep")' <=> Entered("deep")
    BY PushFacts DEF EnterArchitectureFocus
<1>2. panes' \in Arrangements
    BY DEF EnterArchitectureFocus, Arrangements
<1>3. beforeArch' \in Arrangements /\ beforeModes' = own
    BY DEF EnterArchitectureFocus
<1>4. PanesTypeOK'
    BY <1>1, <1>2, <1>3 DEF PanesInv, PanesTypeOK, EnterArchitectureFocus, Noted, Stacks
<1> QED
    BY <1>1, <1>3, <1>4, NoneIsNoArrangement DEF PanesInv, EnterArchitectureFocus

\* The last mode that is left gives back the user's own arrangement.
LEMMA PreviousFacts ==
    ASSUME PanesInv, NEW rest, NEW mine \in Noted, NEW other \in Noted, NEW mode, stack # <<>>
    PROVE  /\ Previous(rest, mine, other, mode) \in Noted
           /\ rest = <<>> => Previous(rest, mine, other, mode) = own
BY NotesFacts, NoneIsNoArrangement DEF Previous, Noted

LEMMA DeepLeft ==
    ASSUME PanesInv, ExitDeepFocus, url = None, UNCHANGED <<mounted, url, own>>, due' = FALSE
    PROVE  PanesInv'
<1> USE NotesFacts
<1>1. CASE deepFocus = None /\ beforeDeep = None
    <2>1. UNCHANGED store
        BY <1>1 DEF ExitDeepFocus
    <2>2. (Entered("deep")' <=> Entered("deep")) /\ (Entered("architecture")' <=> Entered("architecture"))
        BY <2>1 DEF store, Entered
    <2> QED
        BY <1>1, <2>1, <2>2 DEF store, PanesInv, PanesTypeOK
<1>2. CASE ~(deepFocus = None /\ beforeDeep = None)
    <2> DEFINE rest == Remaining("deep")
               previous == Previous(rest, beforeDeep, beforeArch, "deep")
    <2>1. /\ deepFocus' = None /\ beforeDeep' = None
          /\ beforeModes' = IF rest = <<>> THEN None ELSE beforeModes
          /\ stack' = rest
          /\ panes' = [layout |-> IF previous = None THEN DefaultLayout ELSE previous.layout,
                       left |-> rest # <<>> \/ (previous # None /\ previous.left),
                       right |-> rest # <<>> \/ (previous # None /\ previous.right)]
          /\ UNCHANGED <<architectureFocus, beforeArch>>
        BY <1>2 DEF ExitDeepFocus
    <2>2. /\ stack' \in Stacks /\ ~Entered("deep")'
          /\ Entered("architecture")' <=> Entered("architecture")
        BY <2>1, RemainingFacts
    <2>3. rest = <<>> <=> ~Entered("architecture")
        BY DEF Remaining
    <2>4. stack # <<>>
        BY <1>2 DEF PanesInv
    <2>5. previous \in Noted /\ (rest = <<>> => previous = own)
        <3>1. beforeDeep \in Noted /\ beforeArch \in Noted
            BY DEF PanesInv, PanesTypeOK
        <3> QED
            BY <2>4, <3>1, PreviousFacts
    <2> HIDE DEF rest, previous
    <2>6. panes' \in Arrangements
        BY <2>1, <2>5, PanesAssumption DEF Arrangements, Noted
    <2>7. rest = <<>> => panes' = own
        BY <2>1, <2>5, NoneIsNoArrangement DEF Arrangements
    <2>8. PanesTypeOK'
        BY <2>1, <2>2, <2>6 DEF PanesInv, PanesTypeOK, Noted, Stacks
    <2> QED
        BY <2>1, <2>2, <2>3, <2>4, <2>7, <2>8 DEF PanesInv
<1> QED
    BY <1>1, <1>2

LEMMA ArchitectureLeft ==
    ASSUME PanesInv, architectureFocus, ExitArchitectureFocus, UNCHANGED <<mounted, url, due, own>>
    PROVE  PanesInv'
<1> USE NotesFacts
<1> DEFINE rest == Remaining("architecture")
           previous == Previous(rest, beforeArch, beforeDeep, "architecture")
<1>1. /\ architectureFocus' = FALSE /\ beforeArch' = None
      /\ beforeModes' = IF rest = <<>> THEN None ELSE beforeModes
      /\ stack' = rest
      /\ panes' = [layout |-> IF rest # <<>> \/ previous = None THEN panes.layout ELSE previous.layout,
                   left |-> rest # <<>> \/ (previous # None /\ previous.left),
                   right |-> rest = <<>> /\ previous # None /\ previous.right]
      /\ UNCHANGED <<deepFocus, beforeDeep>>
    BY DEF ExitArchitectureFocus
<1>2. /\ stack' \in Stacks /\ ~Entered("architecture")'
      /\ Entered("deep")' <=> Entered("deep")
    BY <1>1, RemainingFacts
<1>3. rest = <<>> <=> ~Entered("deep")
    BY DEF Remaining
<1>4. stack # <<>>
    BY DEF PanesInv
<1>5. previous \in Noted /\ (rest = <<>> => previous = own)
    <2>1. beforeDeep \in Noted /\ beforeArch \in Noted
        BY DEF PanesInv, PanesTypeOK
    <2> QED
        BY <1>4, <2>1, PreviousFacts
<1> HIDE DEF rest, previous
<1>6. panes' \in Arrangements
    BY <1>1, <1>5 DEF Arrangements, Noted
<1>7. rest = <<>> => panes' = own
    BY <1>1, <1>5, NoneIsNoArrangement DEF Arrangements
<1>8. PanesTypeOK'
    BY <1>1, <1>2, <1>6 DEF PanesInv, PanesTypeOK, Noted, Stacks
<1> QED
    BY <1>1, <1>2, <1>3, <1>4, <1>7, <1>8 DEF PanesInv

\* The user's own steps, the page's and the browser's.
LEMMA Arranged ==
    ASSUME PanesInv, NEW arranged \in Arrangements, Arrange(arranged)
    PROVE  PanesInv'
<1>1. (Entered("deep")' <=> Entered("deep")) /\ (Entered("architecture")' <=> Entered("architecture"))
    BY DEF Arrange, Entered
<1> QED
    BY <1>1 DEF Arrange, PanesInv, PanesTypeOK

LEMMA PersistedIsOwn ==
    ASSUME PanesInv
    PROVE  Persisted = own
<1>1. CASE stack = <<>>
    BY <1>1, NotesFacts DEF Persisted
<1>2. CASE stack # <<>>
    <2>1. beforeModes = own /\ beforeModes # None
        BY <1>2, NotesFacts, NoneIsNoArrangement
    <2> QED
        BY <2>1 DEF Persisted
<1> QED
    BY <1>1, <1>2

LEMMA Reloaded ==
    ASSUME PanesInv, Reload
    PROVE  PanesInv'
<1>1. panes' = own
    BY PersistedIsOwn DEF Reload
<1>2. ~Entered("deep")' /\ ~Entered("architecture")'
    BY DEF Reload, Entered
<1>3. PanesTypeOK'
    BY <1>1 DEF Reload, PanesInv, PanesTypeOK, Noted
<1> QED
    BY <1>1, <1>2, <1>3 DEF Reload, PanesInv

LEMMA NextInv ==
    ASSUME PanesInv, [PanesNext]_paneVars
    PROVE  PanesInv'
<1>1. ASSUME NEW layout \in Layouts, SetLayout(layout) PROVE PanesInv'
    <2>1. [panes EXCEPT !.layout = layout] \in Arrangements
        BY NotesFacts DEF Arrangements
    <2> QED
        BY <1>1, <2>1, Arranged DEF SetLayout
<1>2. ASSUME NEW closed \in BOOLEAN, SetLeftCollapsed(closed) \/ SetRightCollapsed(closed) PROVE PanesInv'
    <2>1. /\ [panes EXCEPT !.left = closed] \in Arrangements
          /\ [panes EXCEPT !.right = closed] \in Arrangements
        BY NotesFacts DEF Arrangements
    <2> QED
        BY <1>2, <2>1, Arranged DEF SetLeftCollapsed, SetRightCollapsed
<1>3. ASSUME NEW target \in FocusTargets \cup {None}, Navigate(target) \/ VisitPage(target) PROVE PanesInv'
    <2>1. (Entered("deep")' <=> Entered("deep")) /\ (Entered("architecture")' <=> Entered("architecture"))
        BY <1>3 DEF Navigate, VisitPage, store, Entered
    <2>2. PanesTypeOK'
        BY <1>3 DEF Navigate, VisitPage, store, PanesInv, PanesTypeOK
    <2> QED
        BY <1>3, <2>1, <2>2 DEF Navigate, VisitPage, store, PanesInv, PanesTypeOK
<1>4. CASE MirrorFocus
    <2>1. CASE url # None
        <3>1. url \in FocusTargets
            BY <2>1 DEF PanesInv, PanesTypeOK
        <3> QED
            BY <1>4, <2>1, <3>1, DeepEntered DEF MirrorFocus
    <2>2. CASE url = None
        BY <1>4, <2>2, DeepLeft DEF MirrorFocus
    <2> QED
        BY <2>1, <2>2
<1>5. CASE ToggleArchitectureFocus
    BY <1>5, ArchitectureEntered, ArchitectureLeft DEF ToggleArchitectureFocus
<1>6. CASE LeavePage
    <2>1. (Entered("deep")' <=> Entered("deep")) /\ (Entered("architecture")' <=> Entered("architecture"))
        BY <1>6 DEF LeavePage, store, Entered
    <2> QED
        BY <1>6, <2>1 DEF LeavePage, store, PanesInv, PanesTypeOK
<1>7. CASE Reload
    BY <1>7, Reloaded
<1>8. CASE UNCHANGED paneVars
    <2>1. (Entered("deep")' <=> Entered("deep")) /\ (Entered("architecture")' <=> Entered("architecture"))
        BY <1>8 DEF paneVars, store, Entered
    <2> QED
        BY <1>8, <2>1 DEF paneVars, store, PanesInv, PanesTypeOK
<1> QED
    BY <1>1, <1>2, <1>3, <1>4, <1>5, <1>6, <1>7, <1>8 DEF PanesNext

\* The stack of modes, the flags, the notes and the URL name the same modes
\* (uiStore.ts:352-453), for any number of splits and targets.
THEOREM PanesInvariant == PanesSpec => []PanesInv
<1>1. PanesInit => PanesInv
    BY InitInv
<1>2. PanesInv /\ [PanesNext]_paneVars => PanesInv'
    BY NextInv
<1> QED
    BY <1>1, <1>2, PTL DEF PanesSpec

\* Outside of the modes the panes are as the user arranged them, and inside of
\* them that is what a reload comes back with (uiStore.ts:467-485).
THEOREM ArrangementIsKept == PanesSpec => []ArrangementSurvives
<1>1. PanesInv => ArrangementSurvives
    <2> SUFFICES ASSUME PanesInv PROVE ArrangementSurvives
        OBVIOUS
    <2>1. deepFocus = None /\ ~architectureFocus => stack = <<>>
        BY NotesFacts DEF PanesInv
    <2> QED
        BY <2>1, NotesFacts, PersistedIsOwn DEF ArrangementSurvives
<1> QED
    BY <1>1, PanesInvariant, PTL

-----------------------------------------------------------------------------
(* Canvas: what is drawn is solved for, and the camera is its user's.             *)

Fields ==
    {"model", "collapsed", "key", "visible", "closed", "selected", "turned", "oriented", "laidOut",
     "run", "surface", "architectureFocus", "fitted", "size", "userMoved", "pendingFit",
     "pendingFocus", "pendingFrame", "asked", "unasked"}

\* What is drawn and solved of d is what is drawn and solved of c.
SamePicture(c, d) ==
    /\ DOMAIN d = Fields
    /\ d.model = c.model /\ d.key = c.key /\ d.visible = c.visible /\ d.closed = c.closed
    /\ d.turned = c.turned /\ d.laidOut = c.laidOut /\ d.run = c.run

\* A parked request is one the user has made and not taken back, and the camera of a
\* picture was moved by nothing else.
RequestsAreAsked(c) ==
    /\ c.pendingFit => "fit" \in c.asked
    /\ c.pendingFocus # None => "reveal" \in c.asked
    /\ c.pendingFrame # None => "frame" \in c.asked
    /\ c.unasked = FALSE

LEMMA AskedPicture ==
    ASSUME NEW c, DOMAIN c = Fields, NEW request
    PROVE  SamePicture(c, Asked(c, request))
BY DEF SamePicture, Asked, Fields

LEMMA MovedPicture ==
    ASSUME NEW c, DOMAIN c = Fields, NEW request
    PROVE  SamePicture(c, Moved(c, request))
BY DEF SamePicture, Moved, Fields

LEMMA FitPicture ==
    ASSUME NEW c, DOMAIN c = Fields, NEW request
    PROVE  SamePicture(c, FitView(c, request))
<1>1. SamePicture(c, [c EXCEPT !.asked = @ \ {request}])
    BY DEF SamePicture, Fields
<1> QED
    BY <1>1, MovedPicture DEF FitView

LEMMA FocusPicture ==
    ASSUME NEW c, DOMAIN c = Fields, NEW id
    PROVE  SamePicture(c, FocusInView(c, id))
<1> DEFINE now == [c EXCEPT !.pendingFocus = None]
<1>1. SamePicture(c, now)
    BY DEF SamePicture, Fields
<1>2. SamePicture(c, [Moved(now, "reveal") EXCEPT !.userMoved = TRUE])
    <2>1. SamePicture(now, Moved(now, "reveal"))
        BY <1>1, MovedPicture DEF SamePicture
    <2> HIDE DEF now
    <2> QED
        BY <1>1, <2>1 DEF SamePicture, Fields
<1>3. SamePicture(c, [now EXCEPT !.asked = @ \ {"reveal"}])
    BY <1>1 DEF SamePicture, Fields
<1> QED
    BY <1>2, <1>3 DEF FocusInView

LEMMA RequestFitPicture ==
    ASSUME NEW c, DOMAIN c = Fields, NEW afterRelayout
    PROVE  SamePicture(c, RequestFit(c, afterRelayout))
<1> DEFINE now == [c EXCEPT !.pendingFocus = None]
<1>1. SamePicture(c, now)
    BY DEF SamePicture, Fields
<1> HIDE DEF now
<1>2. SamePicture(now, Asked(now, "fit")) /\ SamePicture(now, Asked(now, "now"))
    BY <1>1, AskedPicture DEF SamePicture
<1>3. SamePicture(c, [Asked(now, "fit") EXCEPT !.pendingFit = TRUE])
    BY <1>1, <1>2 DEF SamePicture, Fields
<1>4. SamePicture(c, FitView(Asked(now, "now"), "now"))
    <2>1. SamePicture(Asked(now, "now"), FitView(Asked(now, "now"), "now"))
        BY <1>2, FitPicture DEF SamePicture
    <2> QED
        BY <1>1, <1>2, <2>1 DEF SamePicture
<1> QED
    BY <1>3, <1>4 DEF RequestFit, now

\* A movement that the user has asked for, or that no user stands in the way of.
Unhindered(c, request) == c.userMoved => ~c.fitted \/ request \in c.asked

LEMMA FitRequests ==
    ASSUME NEW c, DOMAIN c = Fields, NEW request, c.unasked = FALSE, Unhindered(c, request)
    PROVE  /\ FitView(c, request).unasked = FALSE
           /\ FitView(c, request).asked = c.asked \ {request}
           /\ FitView(c, request).pendingFit = c.pendingFit
           /\ FitView(c, request).pendingFocus = c.pendingFocus
           /\ FitView(c, request).pendingFrame = c.pendingFrame
BY DEF FitView, Moved, Fields, Unhindered

LEMMA FitKeepsRequests ==
    ASSUME NEW c, DOMAIN c = Fields, NEW request, RequestsAreAsked(c), Unhindered(c, request),
           request \in {"fit", "now", "auto"}, request = "fit" => ~c.pendingFit
    PROVE  RequestsAreAsked(FitView(c, request))
<1> DEFINE d == FitView(c, request)
<1>1. c.unasked = FALSE
    BY DEF RequestsAreAsked
<1>2. /\ d.unasked = FALSE /\ d.asked = c.asked \ {request}
      /\ d.pendingFit = c.pendingFit /\ d.pendingFocus = c.pendingFocus
      /\ d.pendingFrame = c.pendingFrame
    BY <1>1, FitRequests
<1> HIDE DEF d
<1>3. c.pendingFit => "fit" \in c.asked \ {request}
    BY DEF RequestsAreAsked
<1>4. /\ c.pendingFocus # None => "reveal" \in c.asked \ {request}
      /\ c.pendingFrame # None => "frame" \in c.asked \ {request}
    BY DEF RequestsAreAsked
<1>5. RequestsAreAsked(d)
    BY <1>2, <1>3, <1>4 DEF RequestsAreAsked
<1> QED
    BY <1>5 DEF d

LEMMA FocusRequests ==
    ASSUME NEW c, DOMAIN c = Fields, NEW id, RequestsAreAsked(c), "reveal" \in c.asked
    PROVE  RequestsAreAsked(FocusInView(c, id))
<1> DEFINE now == [c EXCEPT !.pendingFocus = None]
           there == Moved(now, "reveal")
<1>1. RequestsAreAsked(now) /\ DOMAIN now = Fields /\ now.pendingFocus = None
      /\ "reveal" \in now.asked
    BY DEF RequestsAreAsked, Fields
<1>2. RequestsAreAsked([now EXCEPT !.asked = @ \ {"reveal"}])
    BY <1>1 DEF RequestsAreAsked, Fields
<1>3. RequestsAreAsked([there EXCEPT !.userMoved = TRUE])
    <2> HIDE DEF now
    <2>1. RequestsAreAsked(there) /\ DOMAIN there = Fields
        BY <1>1 DEF RequestsAreAsked, Moved, Fields
    <2> HIDE DEF there
    <2> QED
        BY <2>1 DEF RequestsAreAsked, Fields
<1> QED
    BY <1>2, <1>3 DEF FocusInView

LEMMA RequestFitRequests ==
    ASSUME NEW c, DOMAIN c = Fields, NEW afterRelayout, RequestsAreAsked(c)
    PROVE  RequestsAreAsked(RequestFit(c, afterRelayout))
<1> DEFINE now == [c EXCEPT !.pendingFocus = None]
           fit == Asked(now, "fit")
           once == Asked(now, "now")
<1>1. RequestsAreAsked(now) /\ DOMAIN now = Fields /\ now.pendingFocus = None
    BY DEF RequestsAreAsked, Fields
<1> HIDE DEF now
<1>2. RequestsAreAsked(fit) /\ DOMAIN fit = Fields /\ "fit" \in fit.asked
    BY <1>1 DEF RequestsAreAsked, Asked, Fields
<1>3. RequestsAreAsked(once) /\ DOMAIN once = Fields /\ "now" \in once.asked
    BY <1>1 DEF RequestsAreAsked, Asked, Fields
<1> HIDE DEF fit, once
<1>4. RequestsAreAsked([fit EXCEPT !.pendingFit = TRUE])
    BY <1>2 DEF RequestsAreAsked, Fields
<1>5. RequestsAreAsked(FitView(once, "now"))
    BY <1>3, FitKeepsRequests DEF Unhindered
<1> QED
    BY <1>4, <1>5 DEF RequestFit, now, fit, once

-----------------------------------------------------------------------------
(* The effects.                                                                   *)

LEMMA FrameEffect ==
    ASSUME NEW old, NEW c, DOMAIN c = Fields
    PROVE  /\ SamePicture(c, FrameOnFocus(old, c))
           /\ RequestsAreAsked(c) => RequestsAreAsked(FrameOnFocus(old, c))
<1> DEFINE asked == Asked(c, "frame")
           d == [asked EXCEPT !.pendingFrame = c.surface, !.userMoved = TRUE]
<1>1. SamePicture(c, asked) /\ DOMAIN asked = Fields
    BY AskedPicture DEF SamePicture
<1>2. RequestsAreAsked(c) => RequestsAreAsked(asked) /\ "frame" \in asked.asked
    BY DEF RequestsAreAsked, Asked, Fields
<1> HIDE DEF asked
<1>3. SamePicture(c, d) /\ (RequestsAreAsked(c) => RequestsAreAsked(d))
    BY <1>1, <1>2 DEF SamePicture, RequestsAreAsked, Fields
<1>4. SamePicture(c, c)
    BY DEF SamePicture
<1> QED
    BY <1>3, <1>4 DEF FrameOnFocus, asked

LEMMA TurnEffect ==
    ASSUME NEW old, NEW c, DOMAIN c = Fields
    PROVE  /\ SamePicture(c, FitOnTurn(old, c))
           /\ RequestsAreAsked(c) => RequestsAreAsked(FitOnTurn(old, c))
<1> DEFINE asked == Asked(c, "fit")
           d == [asked EXCEPT !.pendingFocus = None, !.pendingFit = TRUE]
<1>1. SamePicture(c, asked) /\ DOMAIN asked = Fields
    BY AskedPicture DEF SamePicture
<1>2. RequestsAreAsked(c) => /\ "fit" \in asked.asked /\ asked.unasked = FALSE
                             /\ asked.pendingFrame # None => "frame" \in asked.asked
    BY DEF RequestsAreAsked, Asked, Fields
<1> HIDE DEF asked
<1>3. SamePicture(c, d) /\ (RequestsAreAsked(c) => RequestsAreAsked(d))
    BY <1>1, <1>2 DEF SamePicture, RequestsAreAsked, Fields
<1>4. SamePicture(c, c)
    BY DEF SamePicture
<1> QED
    BY <1>3, <1>4 DEF FitOnTurn, asked

LEMMA SettleEffect ==
    ASSUME NEW old, NEW c, DOMAIN c = Fields
    PROVE  /\ SamePicture(c, Settle(old, c))
           /\ RequestsAreAsked(c) => RequestsAreAsked(Settle(old, c))
<1> DEFINE sized == [c EXCEPT !.size = c.surface]
           fit == FitView(c, "auto")
<1>1. SamePicture(c, c)
    BY DEF SamePicture
<1>2. ASSUME ~c.fitted
      PROVE  LET d == [fit EXCEPT !.fitted = TRUE, !.size = c.surface]
             IN  SamePicture(c, d) /\ (RequestsAreAsked(c) => RequestsAreAsked(d))
    <2>1. SamePicture(c, fit)
        BY FitPicture
    <2>2. RequestsAreAsked(c) => RequestsAreAsked(fit)
        BY <1>2, FitKeepsRequests DEF Unhindered
    <2> HIDE DEF fit
    <2> QED
        BY <2>1, <2>2 DEF SamePicture, RequestsAreAsked, Fields
<1>3. ASSUME ~c.userMoved
      PROVE  LET d == FitView(sized, "auto")
             IN  SamePicture(c, d) /\ (RequestsAreAsked(c) => RequestsAreAsked(d))
    <2>1. SamePicture(c, sized) /\ ~sized.userMoved
        BY <1>3 DEF SamePicture, Fields
    <2>2. RequestsAreAsked(c) => RequestsAreAsked(sized)
        BY DEF RequestsAreAsked, Fields
    <2> HIDE DEF sized
    <2>3. SamePicture(sized, FitView(sized, "auto"))
        BY <2>1, FitPicture DEF SamePicture
    <2>4. RequestsAreAsked(sized) => RequestsAreAsked(FitView(sized, "auto"))
        BY <2>1, FitKeepsRequests DEF Unhindered, SamePicture
    <2> QED
        BY <2>1, <2>2, <2>3, <2>4 DEF SamePicture
<1> QED
    BY <1>1, <1>2, <1>3 DEF Settle

LEMMA MaterialiseEffect ==
    ASSUME NEW c, DOMAIN c = Fields
    PROVE  /\ SamePicture(c, Materialise(c))
           /\ RequestsAreAsked(c) => RequestsAreAsked(Materialise(c))
BY DEF SamePicture, RequestsAreAsked, Materialise, Fields

LEMMA RedeemFitEffect ==
    ASSUME NEW old, NEW c, DOMAIN c = Fields
    PROVE  /\ SamePicture(c, RedeemFit(old, c))
           /\ RequestsAreAsked(c) => RequestsAreAsked(RedeemFit(old, c))
<1> DEFINE now == [c EXCEPT !.pendingFit = FALSE]
<1>1. SamePicture(c, c) /\ SamePicture(c, now) /\ now.pendingFit = FALSE
    BY DEF SamePicture, Fields
<1>2. RequestsAreAsked(c) => RequestsAreAsked(now) /\ (c.pendingFit => "fit" \in now.asked)
    BY DEF RequestsAreAsked, Fields
<1> HIDE DEF now
<1>3. SamePicture(now, FitView(now, "fit"))
    BY <1>1, FitPicture DEF SamePicture
<1>4. RequestsAreAsked(now) /\ "fit" \in now.asked => RequestsAreAsked(FitView(now, "fit"))
    BY <1>1, FitKeepsRequests DEF Unhindered, SamePicture
<1>5. SamePicture(c, FitView(now, "fit"))
    BY <1>1, <1>3 DEF SamePicture
<1> QED
    BY <1>1, <1>2, <1>4, <1>5 DEF RedeemFit, now

LEMMA RedeemFocusEffect ==
    ASSUME NEW old, NEW c, DOMAIN c = Fields
    PROVE  /\ SamePicture(c, RedeemFocus(old, c))
           /\ RequestsAreAsked(c) => RequestsAreAsked(RedeemFocus(old, c))
<1>1. SamePicture(c, c)
    BY DEF SamePicture
<1>2. SamePicture(c, FocusInView(c, c.pendingFocus))
    BY FocusPicture
<1>3. c.pendingFocus # None /\ RequestsAreAsked(c)
      => RequestsAreAsked(FocusInView(c, c.pendingFocus))
    BY FocusRequests DEF RequestsAreAsked
<1> QED
    BY <1>1, <1>2, <1>3 DEF RedeemFocus

\* A run starts for a graph that was computed anew; otherwise what is solved and being
\* solved stays.
Anew(old, c, replaced) == replaced \/ c.key # old.key \/ c.turned # old.turned

LEMMA StartEffect ==
    ASSUME NEW old, NEW c, DOMAIN c = Fields, NEW replaced \in BOOLEAN
    PROVE  LET d == StartLayout(old, c, replaced)
           IN  /\ DOMAIN d = Fields
               /\ d.model = c.model /\ d.key = c.key /\ d.visible = c.visible
               /\ d.closed = c.closed /\ d.turned = c.turned /\ d.laidOut = c.laidOut
               /\ RequestsAreAsked(c) => RequestsAreAsked(d)
               /\ Anew(old, c, replaced) => d.run = RunFor(c)
               /\ ~Anew(old, c, replaced) => d.run = c.run
BY DEF StartLayout, RequestsAreAsked, Fields, Anew

LEMMA EffectsFacts ==
    ASSUME NEW old, NEW c, DOMAIN c = Fields, NEW replaced \in BOOLEAN
    PROVE  /\ SamePicture(StartLayout(old, c, replaced), Effects(old, c, replaced))
           /\ RequestsAreAsked(c) => RequestsAreAsked(Effects(old, c, replaced))
<1> DEFINE c1 == StartLayout(old, c, replaced)
           c2 == FrameOnFocus(old, c1)
           c3 == FitOnTurn(old, c2)
           c4 == Settle(old, c3)
           c5 == Materialise(c4)
           c6 == RedeemFit(old, c5)
           c7 == RedeemFocus(old, c6)
<1>1. DOMAIN c1 = Fields /\ (RequestsAreAsked(c) => RequestsAreAsked(c1))
    BY StartEffect
<1> HIDE DEF c1
<1>2. SamePicture(c1, c2) /\ (RequestsAreAsked(c1) => RequestsAreAsked(c2))
    BY <1>1, FrameEffect
<1> HIDE DEF c2
<1>3. SamePicture(c2, c3) /\ (RequestsAreAsked(c2) => RequestsAreAsked(c3))
    BY <1>2, TurnEffect DEF SamePicture
<1> HIDE DEF c3
<1>4. SamePicture(c3, c4) /\ (RequestsAreAsked(c3) => RequestsAreAsked(c4))
    BY <1>3, SettleEffect DEF SamePicture
<1> HIDE DEF c4
<1>5. SamePicture(c4, c5) /\ (RequestsAreAsked(c4) => RequestsAreAsked(c5))
    BY <1>4, MaterialiseEffect DEF SamePicture
<1> HIDE DEF c5
<1>6. SamePicture(c5, c6) /\ (RequestsAreAsked(c5) => RequestsAreAsked(c6))
    BY <1>5, RedeemFitEffect DEF SamePicture
<1> HIDE DEF c6
<1>7. SamePicture(c6, c7) /\ (RequestsAreAsked(c6) => RequestsAreAsked(c7))
    BY <1>6, RedeemFocusEffect DEF SamePicture
<1> HIDE DEF c7
<1>8. SamePicture(c1, c7) /\ (RequestsAreAsked(c) => RequestsAreAsked(c7))
    BY <1>1, <1>2, <1>3, <1>4, <1>5, <1>6, <1>7 DEF SamePicture
<1> QED
    BY <1>8 DEF Effects, c1, c2, c3, c4, c5, c6, c7

\* What is drawn follows from the model and from what is closed, and a solver run that
\* has landed or is under way is one for what is drawn.
SolvedFor(c, signature) ==
    /\ c.run = None => signature[1] = {} \/ c.laidOut = signature
    /\ c.run \notin {None, Failed} => c.run = signature

PictureIsSound(c) ==
    /\ DOMAIN c = Fields
    /\ c.model \in Models
    /\ c.visible = Visible(c.model, c.key)
    /\ c.closed = c.key \cap Containers(c.model) \cap c.visible
    /\ c.turned \in BOOLEAN
    /\ SolvedFor(c, Signature(c))

CanvasInv == PictureIsSound(canvas) /\ RequestsAreAsked(canvas)

LEMMA DrawnFacts ==
    ASSUME NEW c, DOMAIN c = Fields
    PROVE  LET d == Drawn(c)
           IN  /\ DOMAIN d = Fields
               /\ d.model = c.model /\ d.turned = c.turned
               /\ d.laidOut = c.laidOut /\ d.run = c.run
               /\ d.visible = Visible(d.model, d.key)
               /\ d.closed = d.key \cap Containers(d.model) \cap d.visible
               /\ RequestsAreAsked(c) => RequestsAreAsked(d)
BY DEF Drawn, Collapse, RequestsAreAsked, Fields

\* A signature is no run that failed, and not the absence of one.
LEMMA SignatureIsARun ==
    ASSUME NEW c, c.model \in Models, c.visible = Visible(c.model, c.key),
           c.closed = c.key \cap Containers(c.model) \cap c.visible, c.turned \in BOOLEAN
    PROVE  Signature(c) \notin {None, Failed}
<1>1. c.visible \in SUBSET Components
    BY CanvasAssumption DEF Visible
<1>2. c.closed \in SUBSET Components
    BY <1>1
<1>3. Signature(c) \in (SUBSET Components) \X (SUBSET Components) \X BOOLEAN
    BY <1>1, <1>2 DEF Signature
<1> QED
    BY <1>3, CanvasAssumption

LEMMA RenderIsSound ==
    ASSUME NEW old, PictureIsSound(old), NEW after, DOMAIN after = Fields, NEW replaced \in BOOLEAN,
           after.model \in Models, replaced \/ after.model = old.model, after.turned \in BOOLEAN,
           SolvedFor(after, Signature(old)), RequestsAreAsked(after)
    PROVE  LET d == Effects(old, Drawn(after), replaced)
           IN  PictureIsSound(d) /\ RequestsAreAsked(d)
<1> DEFINE c == Drawn(after)
           s == StartLayout(old, c, replaced)
           d == Effects(old, c, replaced)
<1>1. /\ DOMAIN c = Fields
      /\ c.model = after.model /\ c.turned = after.turned
      /\ c.laidOut = after.laidOut /\ c.run = after.run
      /\ c.visible = Visible(c.model, c.key)
      /\ c.closed = c.key \cap Containers(c.model) \cap c.visible
      /\ RequestsAreAsked(c)
    BY DrawnFacts
<1> HIDE DEF c
<1>2. /\ DOMAIN s = Fields
      /\ s.model = c.model /\ s.key = c.key /\ s.visible = c.visible
      /\ s.closed = c.closed /\ s.turned = c.turned /\ s.laidOut = c.laidOut
      /\ Anew(old, c, replaced) => s.run = RunFor(c)
      /\ ~Anew(old, c, replaced) => s.run = c.run
    BY <1>1, StartEffect
<1>3. SamePicture(s, d) /\ RequestsAreAsked(d)
    BY <1>1, EffectsFacts
<1> HIDE DEF s, d
<1>4. /\ DOMAIN d = Fields /\ d.model \in Models
      /\ d.visible = Visible(d.model, d.key)
      /\ d.closed = d.key \cap Containers(d.model) \cap d.visible
      /\ d.turned \in BOOLEAN
    BY <1>1, <1>2, <1>3 DEF SamePicture
<1>5. Signature(d) = Signature(c)
    BY <1>2, <1>3 DEF SamePicture, Signature
<1>6. ASSUME Anew(old, c, replaced) PROVE PictureIsSound(d)
    <2>1. d.run = RunFor(d) /\ Signature(d)[1] = d.visible
        BY <1>2, <1>3, <1>5, <1>6 DEF SamePicture, RunFor, Signature
    <2>2. Signature(d) \notin {None, Failed}
        BY <1>4, SignatureIsARun
    <2> QED
        BY <1>3, <1>4, <2>1, <2>2, CanvasAssumption DEF PictureIsSound, SolvedFor, RunFor
<1>7. ASSUME ~Anew(old, c, replaced) PROVE PictureIsSound(d)
    <2>1. c.visible = old.visible /\ c.closed = old.closed /\ c.turned = old.turned
        BY <1>1, <1>7 DEF PictureIsSound, Anew
    <2>2. Signature(d) = Signature(old)
        BY <1>5, <2>1 DEF Signature
    <2>3. d.run = after.run /\ d.laidOut = after.laidOut
        BY <1>1, <1>2, <1>3, <1>7 DEF SamePicture
    <2> QED
        BY <1>3, <1>4, <2>2, <2>3 DEF PictureIsSound, SolvedFor
<1> QED
    BY <1>3, <1>6, <1>7 DEF c, d

-----------------------------------------------------------------------------
(* The steps.                                                                     *)

\* What a callback may make of the state before it is drawn.
Renderable(after) ==
    /\ DOMAIN after = Fields /\ after.model = canvas.model /\ after.turned \in BOOLEAN
    /\ SolvedFor(after, Signature(canvas)) /\ RequestsAreAsked(after)

LEMMA RenderStep ==
    ASSUME CanvasInv, NEW after, Renderable(after), Render(after)
    PROVE  CanvasInv'
<1> DEFINE d == Effects(canvas, Drawn(after), FALSE)
<1>1. PictureIsSound(d) /\ RequestsAreAsked(d)
    BY RenderIsSound DEF CanvasInv, Renderable, PictureIsSound
<1>2. canvas' = d
    BY DEF Render
<1> HIDE DEF d
<1> QED
    BY <1>1, <1>2 DEF CanvasInv

LEMMA SamePictureRenders ==
    ASSUME CanvasInv, NEW after, SamePicture(canvas, after), RequestsAreAsked(after)
    PROVE  Renderable(after)
BY DEF CanvasInv, PictureIsSound, SamePicture, Renderable, SolvedFor

LEMMA ReplaceModelStep ==
    ASSUME CanvasInv, NEW model \in Models, ReplaceModel(model)
    PROVE  CanvasInv'
<1> DEFINE after == [canvas EXCEPT !.model = model]
           d == Effects(canvas, Drawn(after), TRUE)
<1>1. /\ DOMAIN after = Fields /\ after.model \in Models /\ after.turned \in BOOLEAN
      /\ SolvedFor(after, Signature(canvas)) /\ RequestsAreAsked(after)
    BY DEF CanvasInv, PictureIsSound, SolvedFor, RequestsAreAsked, Fields
<1>2. canvas' = d
    BY DEF ReplaceModel
<1> HIDE DEF after
<1>3. PictureIsSound(d) /\ RequestsAreAsked(d)
    BY <1>1, RenderIsSound DEF CanvasInv
<1> HIDE DEF d
<1> QED
    BY <1>2, <1>3 DEF CanvasInv

LEMMA LandStep ==
    ASSUME CanvasInv, Land
    PROVE  CanvasInv'
<1> DEFINE after == [canvas EXCEPT !.laidOut = canvas.run, !.run = None]
<1>1. Renderable(after)
    BY DEF Land, CanvasInv, PictureIsSound, Renderable, SolvedFor, RequestsAreAsked, Fields
<1> QED
    BY <1>1, RenderStep DEF Land

LEMMA FailStep ==
    ASSUME CanvasInv, Fail
    PROVE  CanvasInv'
<1> DEFINE after == [canvas EXCEPT !.run = Failed]
<1>1. Renderable(after)
    BY CanvasAssumption
       DEF Fail, CanvasInv, PictureIsSound, Renderable, SolvedFor, RequestsAreAsked, Fields
<1> QED
    BY <1>1, RenderStep DEF Fail

LEMMA ResizeStep ==
    ASSUME CanvasInv, NEW size, Resize(size)
    PROVE  CanvasInv'
<1> DEFINE after == [canvas EXCEPT !.surface = size]
<1>1. SamePicture(canvas, after) /\ RequestsAreAsked(after)
    BY DEF CanvasInv, PictureIsSound, SamePicture, RequestsAreAsked, Fields
<1> QED
    BY <1>1, SamePictureRenders, RenderStep DEF Resize

\* The fit that was parked when the focus mode was entered is answered.
LEMMA CheckFrameStep ==
    ASSUME CanvasInv, CheckFrame
    PROVE  CanvasInv'
<1> DEFINE fit == FitView(canvas, "frame")
           after == [fit EXCEPT !.pendingFrame = None, !.fitted = TRUE, !.size = canvas.surface]
<1>1. DOMAIN canvas = Fields /\ canvas.unasked = FALSE /\ Unhindered(canvas, "frame")
    BY DEF CheckFrame, CanvasInv, PictureIsSound, RequestsAreAsked, Unhindered
<1>2. SamePicture(canvas, fit)
    BY <1>1, FitPicture
<1>3. /\ fit.unasked = FALSE /\ fit.asked = canvas.asked \ {"frame"}
      /\ fit.pendingFit = canvas.pendingFit /\ fit.pendingFocus = canvas.pendingFocus
    BY <1>1, FitRequests
<1> HIDE DEF fit
<1>4. SamePicture(canvas, after)
    BY <1>2 DEF SamePicture, Fields
<1>5. RequestsAreAsked(after)
    <2>1. /\ canvas.pendingFit => "fit" \in canvas.asked \ {"frame"}
          /\ canvas.pendingFocus # None => "reveal" \in canvas.asked \ {"frame"}
        BY DEF CanvasInv, RequestsAreAsked
    <2>2. /\ after.unasked = fit.unasked /\ after.asked = fit.asked /\ after.pendingFrame = None
          /\ after.pendingFit = fit.pendingFit /\ after.pendingFocus = fit.pendingFocus
        BY <1>2 DEF SamePicture, Fields
    <2> HIDE DEF after
    <2> QED
        BY <1>3, <2>1, <2>2 DEF RequestsAreAsked
<1>6. Render(after)
    BY DEF CheckFrame, fit
<1> QED
    BY <1>4, <1>5, <1>6, SamePictureRenders, RenderStep

LEMMA SelectStep ==
    ASSUME CanvasInv, NEW id, Select(id)
    PROVE  CanvasInv'
<1> DEFINE after == [canvas EXCEPT !.selected = id]
<1>1. SamePicture(canvas, after) /\ RequestsAreAsked(after)
    BY DEF CanvasInv, PictureIsSound, SamePicture, RequestsAreAsked, Fields
<1> QED
    BY <1>1, SamePictureRenders, RenderStep DEF Select

LEMMA ToggleStep ==
    ASSUME CanvasInv, NEW id, Toggle(id)
    PROVE  CanvasInv'
<1>1. ASSUME NEW selected, NEW collapsed
      PROVE  LET after == [canvas EXCEPT !.selected = selected, !.collapsed = collapsed]
             IN  SamePicture(canvas, after) /\ RequestsAreAsked(after)
    BY DEF CanvasInv, PictureIsSound, SamePicture, RequestsAreAsked, Fields
<1>2. PICK selected, collapsed :
          Render([canvas EXCEPT !.selected = selected, !.collapsed = collapsed])
    BY DEF Toggle
<1> QED
    BY <1>1, <1>2, SamePictureRenders, RenderStep

LEMMA FitRequestRenders ==
    ASSUME CanvasInv, NEW collapsed, NEW afterRelayout
    PROVE  /\ Renderable(RequestFit(canvas, afterRelayout))
           /\ Renderable(RequestFit([canvas EXCEPT !.collapsed = collapsed], afterRelayout))
<1> DEFINE now == [canvas EXCEPT !.collapsed = collapsed]
<1>1. SamePicture(canvas, canvas) /\ RequestsAreAsked(canvas) /\ DOMAIN canvas = Fields
    BY DEF CanvasInv, PictureIsSound, SamePicture
<1>2. SamePicture(canvas, now) /\ RequestsAreAsked(now) /\ DOMAIN now = Fields
    BY <1>1 DEF SamePicture, RequestsAreAsked, Fields
<1> HIDE DEF now
<1>3. /\ SamePicture(canvas, RequestFit(canvas, afterRelayout))
      /\ RequestsAreAsked(RequestFit(canvas, afterRelayout))
    BY <1>1, RequestFitPicture, RequestFitRequests
<1>4. /\ SamePicture(now, RequestFit(now, afterRelayout))
      /\ RequestsAreAsked(RequestFit(now, afterRelayout))
    BY <1>2, RequestFitPicture, RequestFitRequests
<1>5. SamePicture(canvas, RequestFit(now, afterRelayout))
    BY <1>2, <1>4 DEF SamePicture
<1>6. Renderable(RequestFit(canvas, afterRelayout)) /\ Renderable(RequestFit(now, afterRelayout))
    BY <1>3, <1>4, <1>5, SamePictureRenders
<1> QED
    BY <1>6 DEF now

LEMMA ShowWholeModelStep ==
    ASSUME CanvasInv, ShowWholeModel
    PROVE  CanvasInv'
<1>1. CASE canvas.closed # {}
    BY <1>1, FitRequestRenders, RenderStep DEF ShowWholeModel
<1>2. CASE canvas.closed = {}
    BY <1>2, FitRequestRenders, RenderStep DEF ShowWholeModel
<1> QED
    BY <1>1, <1>2

LEMMA BackToOverviewStep ==
    ASSUME CanvasInv, BackToOverview
    PROVE  CanvasInv'
<1>1. CASE InitialCollapsed(canvas.model) # canvas.closed
    BY <1>1, FitRequestRenders, RenderStep DEF BackToOverview
<1>2. CASE InitialCollapsed(canvas.model) = canvas.closed
    BY <1>2, FitRequestRenders, RenderStep DEF BackToOverview
<1> QED
    BY <1>1, <1>2

LEMMA SearchStep ==
    ASSUME CanvasInv, NEW id, SelectSearchResult(id)
    PROVE  CanvasInv'
<1> DEFINE after == Requested(canvas) \ AncestorsOf(canvas.model, id)
           asked == Asked(canvas, "reveal")
           selected == [asked EXCEPT !.selected = id]
           parked == [selected EXCEPT !.pendingFocus = id, !.collapsed = after]
<1>1. SamePicture(canvas, asked) /\ RequestsAreAsked(asked) /\ "reveal" \in asked.asked
    BY AskedPicture DEF CanvasInv, PictureIsSound, RequestsAreAsked, Asked, Fields
<1>2. Render(parked) \/ Render(FocusInView(selected, id))
    BY DEF SelectSearchResult
<1> HIDE DEF asked
<1>3. SamePicture(canvas, selected) /\ RequestsAreAsked(selected) /\ "reveal" \in selected.asked
    BY <1>1 DEF SamePicture, RequestsAreAsked, Fields
<1> HIDE DEF selected, after
<1>4. SamePicture(canvas, parked) /\ RequestsAreAsked(parked)
    BY <1>3 DEF SamePicture, RequestsAreAsked, Fields
<1>5. SamePicture(selected, FocusInView(selected, id)) /\ RequestsAreAsked(FocusInView(selected, id))
    BY <1>3, FocusPicture, FocusRequests DEF SamePicture
<1>6. SamePicture(canvas, FocusInView(selected, id))
    BY <1>3, <1>5 DEF SamePicture
<1> HIDE DEF parked
<1> QED
    BY <1>2, <1>4, <1>5, <1>6, SamePictureRenders, RenderStep

LEMMA RevealStep ==
    ASSUME CanvasInv, NEW id, Reveal(id)
    PROVE  CanvasInv'
<1> DEFINE asked == Asked(canvas, "reveal")
<1>1. SamePicture(canvas, asked) /\ RequestsAreAsked(asked) /\ "reveal" \in asked.asked
    BY AskedPicture DEF CanvasInv, PictureIsSound, RequestsAreAsked, Asked, Fields
<1>2. Render(FocusInView(asked, id))
    BY DEF Reveal
<1> HIDE DEF asked
<1>3. SamePicture(asked, FocusInView(asked, id)) /\ RequestsAreAsked(FocusInView(asked, id))
    BY <1>1, FocusPicture, FocusRequests DEF SamePicture
<1>4. SamePicture(canvas, FocusInView(asked, id))
    BY <1>1, <1>3 DEF SamePicture
<1> QED
    BY <1>2, <1>3, <1>4, SamePictureRenders, RenderStep

LEMMA TurnStep ==
    ASSUME CanvasInv, Turn \/ TurnOfView
    PROVE  CanvasInv'
<1> DEFINE turn == [canvas EXCEPT !.turned = ~@, !.oriented = TRUE]
           turnOfView == [canvas EXCEPT !.turned = ~@]
<1>1. Renderable(turn) /\ Renderable(turnOfView)
    BY DEF CanvasInv, PictureIsSound, Renderable, SolvedFor, RequestsAreAsked, Fields
<1>2. Render(turn) \/ Render(turnOfView)
    BY DEF Turn, TurnOfView
<1> QED
    BY <1>1, <1>2, RenderStep

LEMMA FocusModeStep ==
    ASSUME CanvasInv, ArchitectureFocusChanges
    PROVE  CanvasInv'
<1> DEFINE after == [canvas EXCEPT !.architectureFocus = ~@]
<1>1. SamePicture(canvas, after) /\ RequestsAreAsked(after)
    BY DEF CanvasInv, PictureIsSound, SamePicture, RequestsAreAsked, Fields
<1> QED
    BY <1>1, SamePictureRenders, RenderStep DEF ArchitectureFocusChanges

LEMMA PanStep ==
    ASSUME CanvasInv, Pan
    PROVE  CanvasInv'
<1> DEFINE after == [canvas EXCEPT !.userMoved = TRUE, !.pendingFocus = None,
                                  !.asked = @ \ {"reveal"}]
<1>1. SamePicture(canvas, after) /\ RequestsAreAsked(after)
    BY DEF CanvasInv, PictureIsSound, SamePicture, RequestsAreAsked, Fields
<1> QED
    BY <1>1, SamePictureRenders, RenderStep DEF Pan

LEMMA CanvasStarts == CanvasInit => CanvasInv
<1> SUFFICES ASSUME NEW model \in Models, NEW remembered \in BOOLEAN, NEW focus \in BOOLEAN,
                    canvas = Mounted(model, remembered, focus)
             PROVE  CanvasInv
    BY DEF CanvasInit
<1> DEFINE c == [model |-> model, collapsed |-> None, key |-> {}, visible |-> {}, closed |-> {},
                 selected |-> None, turned |-> FALSE, oriented |-> FALSE,
                 laidOut |-> None, run |-> None,
                 surface |-> 0, architectureFocus |-> focus, fitted |-> remembered, size |-> None,
                 userMoved |-> remembered \/ focus,
                 pendingFit |-> FALSE, pendingFocus |-> None,
                 pendingFrame |-> IF focus THEN 0 ELSE None,
                 asked |-> IF focus THEN {"frame"} ELSE {}, unasked |-> FALSE]
           d == Drawn(c)
<1>1. DOMAIN c = Fields /\ c.model = model /\ c.turned = FALSE
    BY DEF Fields
<1>2. RequestsAreAsked(c)
    BY DEF RequestsAreAsked
<1>3. canvas = [d EXCEPT !.run = RunFor(d)]
    BY DEF Mounted
<1> HIDE DEF c
<1>4. /\ DOMAIN d = Fields /\ d.model = model /\ d.turned = FALSE
      /\ d.visible = Visible(d.model, d.key)
      /\ d.closed = d.key \cap Containers(d.model) \cap d.visible
      /\ RequestsAreAsked(d)
    BY <1>1, <1>2, DrawnFacts
<1> HIDE DEF d
<1>5. /\ DOMAIN canvas = Fields /\ canvas.model = model /\ canvas.turned = FALSE
      /\ canvas.visible = Visible(canvas.model, canvas.key)
      /\ canvas.closed = canvas.key \cap Containers(canvas.model) \cap canvas.visible
      /\ canvas.visible = d.visible
      /\ canvas.run = RunFor(d) /\ RequestsAreAsked(canvas)
    BY <1>3, <1>4 DEF Fields, RequestsAreAsked
<1>6. Signature(canvas) = Signature(d)
    BY <1>3, <1>4, <1>5 DEF Signature, Fields
<1>7. Signature(d) \notin {None, Failed}
    BY <1>4, SignatureIsARun
<1> QED
    BY <1>5, <1>6, <1>7, CanvasAssumption DEF CanvasInv, PictureIsSound, SolvedFor, RunFor, Signature

LEMMA CanvasSteps == CanvasInv /\ [CanvasNext]_canvasVars => CanvasInv'
<1> SUFFICES ASSUME CanvasInv, [CanvasNext]_canvasVars
             PROVE  CanvasInv'
    OBVIOUS
<1>1. ASSUME NEW model \in Models, ReplaceModel(model) PROVE CanvasInv'
    BY <1>1, ReplaceModelStep
<1>2. CASE Land
    BY <1>2, LandStep
<1>3. CASE Fail
    BY <1>3, FailStep
<1>4. ASSUME NEW size \in Sizes, Resize(size) PROVE CanvasInv'
    BY <1>4, ResizeStep
<1>5. CASE CheckFrame
    BY <1>5, CheckFrameStep
<1>6. ASSUME NEW id \in Components \cup {Unknown, None}, Select(id) PROVE CanvasInv'
    BY <1>6, SelectStep
<1>7. ASSUME NEW id \in Components, Toggle(id) PROVE CanvasInv'
    BY <1>7, ToggleStep
<1>8. ASSUME NEW id \in Components, SelectSearchResult(id) PROVE CanvasInv'
    BY <1>8, SearchStep
<1>9. ASSUME NEW id \in Components, Reveal(id) PROVE CanvasInv'
    BY <1>9, RevealStep
<1>10. CASE ShowWholeModel
    BY <1>10, ShowWholeModelStep
<1>11. CASE BackToOverview
    BY <1>11, BackToOverviewStep
<1>12. CASE Turn \/ TurnOfView
    BY <1>12, TurnStep
<1>13. CASE ArchitectureFocusChanges
    BY <1>13, FocusModeStep
<1>14. CASE Pan
    BY <1>14, PanStep
<1>15. CASE UNCHANGED canvasVars
    BY <1>15 DEF canvasVars, CanvasInv
<1> QED
    BY <1>1, <1>2, <1>3, <1>4, <1>5, <1>6, <1>7, <1>8, <1>9, <1>10, <1>11, <1>12, <1>13, <1>14,
       <1>15 DEF CanvasNext

\* Whatever order solver runs end in while the model, the disclosure and the direction
\* change, the picture of a canvas without a run under way is solved for what is drawn,
\* for any hierarchy (useArchitectureGraph.ts:169-208).
THEOREM PictureIsNewest == CanvasSpec => []NewestLayoutIsDrawn
<1>1. CanvasInv => NewestLayoutIsDrawn
    BY DEF CanvasInv, PictureIsSound, SolvedFor, NewestLayoutIsDrawn, Relayouting, Signature
<1> QED
    BY CanvasStarts, CanvasSteps, <1>1, PTL DEF CanvasSpec

\* The camera a user has taken moves only to answer a request of theirs, for any
\* hierarchy and any sizes of the surface (cameraPolicy.ts:9-23).
THEOREM CameraStaysTheUsers == CanvasSpec => []CameraIsTheUsers
<1>1. CanvasInv => CameraIsTheUsers
    BY DEF CanvasInv, RequestsAreAsked, CameraIsTheUsers
<1> QED
    BY CanvasStarts, CanvasSteps, <1>1, PTL DEF CanvasSpec

-----------------------------------------------------------------------------
(* QueryCache: no invalidation is lost.                                           *)

Positions == 0..Len(log)

\* Data read at a position shows every event the page was told of: what the position
\* leaves out does not concern the read.
Spares(e) == \A key \in Affected(e) : ~Covers(key, read)
UpToDate(position) == \A p \in (position + 1)..Told : Spares(log[p])

CacheTypeOK ==
    /\ log \in Seq(LiveEvents)
    /\ shown \in BOOLEAN /\ invalid \in BOOLEAN /\ swallowed \in BOOLEAN
    /\ page \in {"closed", "connecting", "live"}
    /\ next \in Positions \cup {None}
    /\ cursor \in Positions \cup {None}
    /\ data \in Positions \cup {None}
    /\ fetch \in Positions \cup {None, Awaited}

\* Only what is shown is fetched.  A live stream sends from a known position, which is the
\* one the page remembers if it remembers one.
StreamIsKnown ==
    /\ fetch # None => shown
    /\ page = "live" => next # None
    /\ next # None /\ cursor # None => next = cursor

\* An answer under way is as good as data that is not marked, unless it is a first one that
\* an invalidation has found under way.
AnswerIsUpToDate ==
    fetch \notin {None, Awaited} /\ (data # None \/ ~swallowed) => UpToDate(fetch)

DataIsUpToDate == data # None /\ ~invalid /\ ~swallowed => UpToDate(data)

CacheInv == CacheTypeOK /\ StreamIsKnown /\ AnswerIsUpToDate /\ DataIsUpToDate

LEMMA CacheStarts == CacheInit => CacheInv
BY EmptySeq, CacheAssumption
   DEF CacheInit, CacheInv, CacheTypeOK, StreamIsKnown, AnswerIsUpToDate, DataIsUpToDate, Positions

LEMMA ToldIsKnown ==
    ASSUME CacheInv
    PROVE  Told \in Positions
BY LenProperties, CacheAssumption DEF CacheInv, CacheTypeOK, StreamIsKnown, Told, Positions

LEMMA Reached ==
    ASSUME CacheInv
    PROVE  UpToDate(Len(log))
<1>1. Told \in 0..Len(log) /\ Len(log) \in Nat
    BY ToldIsKnown, LenProperties DEF CacheInv, CacheTypeOK, Positions
<1> QED
    BY <1>1 DEF UpToDate

\* A step that tells the page nothing new of a log that only grows leaves every position as
\* it was.
LEMMA NothingTold ==
    ASSUME CacheInv, UNCHANGED read, Told' \in Nat, Told' =< Told,
           \A p \in 1..Told : log'[p] = log[p]
    PROVE  \A position \in Nat : UpToDate(position) => UpToDate(position)'
<1> TAKE position \in Nat
<1> SUFFICES ASSUME UpToDate(position), NEW p \in (position + 1)..Told'
             PROVE  Spares(log[p])'
    BY DEF UpToDate
<1>1. p \in (position + 1)..Told /\ p \in 1..Told
    BY ToldIsKnown, LenProperties DEF Positions, CacheInv, CacheTypeOK
<1>2. Spares(log[p]) /\ log'[p] = log[p]
    BY <1>1 DEF UpToDate
<1> QED
    BY <1>2 DEF Spares

\* The entry after a step that leaves it alone.
LEMMA EntryKept ==
    ASSUME CacheInv, UNCHANGED Entry,
           \A position \in Nat : UpToDate(position) => UpToDate(position)'
    PROVE  AnswerIsUpToDate' /\ DataIsUpToDate'
<1>1. fetch' = fetch /\ data' = data /\ invalid' = invalid /\ swallowed' = swallowed
    BY DEF Entry
<1>2. ASSUME fetch \notin {None, Awaited}, data # None \/ ~swallowed
      PROVE  UpToDate(fetch)'
    <2>1. fetch \in Nat /\ UpToDate(fetch)
        BY <1>2, LenProperties DEF CacheInv, CacheTypeOK, Positions, AnswerIsUpToDate
    <2>2. \A q : q = fetch => UpToDate(q)'
        BY <2>1
    <2> QED
        BY <1>1, <2>2 DEF UpToDate
<1>3. ASSUME data # None, ~invalid, ~swallowed
      PROVE  UpToDate(data)'
    <2>1. data \in Nat /\ UpToDate(data)
        BY <1>3, LenProperties DEF CacheInv, CacheTypeOK, Positions, DataIsUpToDate
    <2>2. \A q : q = data => UpToDate(q)'
        BY <2>1
    <2> QED
        BY <1>1, <2>2 DEF UpToDate
<1> QED
    BY <1>1, <1>2, <1>3 DEF AnswerIsUpToDate, DataIsUpToDate

\* After an invalidation nothing claims to be up to date: data is marked, an answer under
\* way is given up, and a first one is noted.
LEMMA Invalidated ==
    ASSUME CacheInv, Invalidate, UNCHANGED shown
    PROVE  /\ AnswerIsUpToDate' /\ DataIsUpToDate'
           /\ data' = data /\ fetch' \in {fetch, Awaited}
           /\ invalid' \in BOOLEAN /\ swallowed' \in BOOLEAN
           /\ fetch' # None => shown
<1>1. data' = data /\ (data # None => invalid') /\ invalid' \in BOOLEAN /\ swallowed' \in BOOLEAN
    BY DEF Invalidate, CacheInv, CacheTypeOK
<1>2. fetch' = Awaited \/ fetch' = None \/ (data = None /\ swallowed' /\ fetch' = fetch)
    BY DEF Invalidate, CacheInv, StreamIsKnown
<1>3. fetch' \in {fetch, Awaited} /\ (fetch' # None => shown)
    BY DEF Invalidate, CacheInv, StreamIsKnown
<1> QED
    BY <1>1, <1>2, <1>3 DEF AnswerIsUpToDate, DataIsUpToDate

\* Steps of the page that leave the log and the entry alone, and tell nothing new.
LEMMA QuietStep ==
    ASSUME CacheInv, UNCHANGED <<read, log>>, UNCHANGED Entry, Told' =< Told,
           CacheTypeOK', StreamIsKnown'
    PROVE  CacheInv'
<1>1. Told' \in Nat
    BY LenProperties, CacheAssumption DEF Told, CacheTypeOK, StreamIsKnown, Positions
<1>2. \A position \in Nat : UpToDate(position) => UpToDate(position)'
    BY <1>1, NothingTold
<1> QED
    BY <1>2, EntryKept DEF CacheInv

LEMMA CommitStep ==
    ASSUME CacheInv, NEW e \in LiveEvents, Commit(e)
    PROVE  CacheInv'
<1>1. /\ Len(log') = Len(log) + 1 /\ log' \in Seq(LiveEvents)
      /\ \A p \in 1..Len(log) : log'[p] = log[p]
    BY AppendProperties DEF Commit, CacheInv, CacheTypeOK
<1>2. Told' = Told /\ Told \in Nat /\ Told =< Len(log) /\ Len(log) \in Nat
    BY ToldIsKnown, LenProperties DEF Commit, Told, Positions, CacheInv, CacheTypeOK
<1>3. CacheTypeOK'
    BY <1>1, <1>2 DEF Commit, Entry, CacheInv, CacheTypeOK, Positions
<1>4. StreamIsKnown'
    BY DEF Commit, Entry, CacheInv, StreamIsKnown
<1>5. UNCHANGED read /\ UNCHANGED Entry
    BY DEF Commit
<1>6. \A position \in Nat : UpToDate(position) => UpToDate(position)'
    BY <1>1, <1>2, <1>5, NothingTold
<1> QED
    BY <1>3, <1>4, <1>5, <1>6, EntryKept DEF CacheInv

LEMMA AnswerStep ==
    ASSUME CacheInv, Answer
    PROVE  CacheInv'
<1>1. CacheTypeOK' /\ StreamIsKnown'
    BY LenProperties, CacheAssumption DEF Answer, CacheInv, CacheTypeOK, StreamIsKnown, Positions
<1>2. Told' = Told /\ UNCHANGED <<read, log, data, invalid, swallowed>> /\ fetch' = Len(log)
    BY DEF Answer, Told
<1>3. \A position \in Nat : UpToDate(position) => UpToDate(position)'
    BY <1>2 DEF UpToDate, Spares
<1>4. DataIsUpToDate'
    <2>1. ASSUME data # None, ~invalid, ~swallowed
          PROVE  UpToDate(data)'
        BY <1>2, <2>1 DEF UpToDate, Spares, CacheInv, DataIsUpToDate
    <2> QED
        BY <1>2, <2>1 DEF DataIsUpToDate
<1>5. AnswerIsUpToDate'
    <2>1. UpToDate(Len(log)) /\ Len(log) \in Nat
        BY Reached, LenProperties DEF CacheInv, CacheTypeOK
    <2>2. \A q : q = Len(log) => UpToDate(q)'
        BY <1>3, <2>1
    <2> QED
        BY <1>2, <2>2 DEF AnswerIsUpToDate, UpToDate
<1> QED
    BY <1>1, <1>4, <1>5 DEF CacheInv

LEMMA ArriveStep ==
    ASSUME CacheInv, Arrive
    PROVE  CacheInv'
<1>1. CacheTypeOK' /\ StreamIsKnown'
    BY LenProperties, CacheAssumption DEF Arrive, CacheInv, CacheTypeOK, StreamIsKnown, Positions
<1>2. Told' = Told /\ UNCHANGED <<read, log>> /\ data' = fetch /\ fetch' = None
    BY DEF Arrive, Told
<1>3. DataIsUpToDate'
    <2>1. ASSUME ~swallowed'
          PROVE  UpToDate(data)'
        <3>1. UpToDate(fetch)
            BY <2>1 DEF Arrive, CacheInv, AnswerIsUpToDate
        <3> QED
            BY <1>2, <3>1 DEF UpToDate, Spares
    <2> QED
        BY <2>1 DEF DataIsUpToDate
<1>4. AnswerIsUpToDate'
    BY <1>2 DEF AnswerIsUpToDate
<1> QED
    BY <1>1, <1>3, <1>4 DEF CacheInv

\* A fetch ends without an answer, because it fails or because nobody looks any more.
LEMMA EntryFreed ==
    ASSUME CacheInv, UNCHANGED <<read, log, data, invalid>>, fetch' = None, Told' =< Told,
           swallowed' = (swallowed /\ data # None), CacheTypeOK', StreamIsKnown'
    PROVE  CacheInv'
<1>1. Told' \in Nat
    BY LenProperties, CacheAssumption DEF Told, CacheTypeOK, StreamIsKnown, Positions
<1>2. \A position \in Nat : UpToDate(position) => UpToDate(position)'
    BY <1>1, NothingTold
<1>3. ASSUME data # None, ~invalid, ~swallowed
      PROVE  UpToDate(data)'
    <2>1. data \in Nat /\ UpToDate(data)
        BY <1>3, LenProperties DEF CacheInv, CacheTypeOK, Positions, DataIsUpToDate
    <2>2. \A q : q = data => UpToDate(q)'
        BY <1>2, <2>1
    <2> QED
        BY <2>2 DEF UpToDate
<1>4. AnswerIsUpToDate' /\ DataIsUpToDate'
    BY <1>3 DEF AnswerIsUpToDate, DataIsUpToDate
<1> QED
    BY <1>4 DEF CacheInv

LEMMA GiveUpStep ==
    ASSUME CacheInv, GiveUp
    PROVE  CacheInv'
<1>1. CacheTypeOK' /\ StreamIsKnown'
    BY CacheAssumption DEF GiveUp, CacheInv, CacheTypeOK, StreamIsKnown, Positions
<1>2. Told' = Told /\ Told \in Nat
    BY ToldIsKnown DEF GiveUp, Told, Positions
<1> QED
    BY <1>1, <1>2, EntryFreed DEF GiveUp

LEMMA HideStep ==
    ASSUME CacheInv, Hide
    PROVE  CacheInv'
<1>1. CacheTypeOK' /\ StreamIsKnown'
    BY CacheAssumption DEF Hide, Unshown, CacheInv, CacheTypeOK, StreamIsKnown, Positions
<1>2. Told' = Told /\ Told \in Nat
    BY ToldIsKnown DEF Hide, Told, Positions
<1> QED
    BY <1>1, <1>2, EntryFreed DEF Hide, Unshown

LEMMA LeaveStep ==
    ASSUME CacheInv, Leave
    PROVE  CacheInv'
<1>1. CacheTypeOK' /\ StreamIsKnown'
    BY CacheAssumption DEF Leave, Unshown, CacheInv, CacheTypeOK, StreamIsKnown, Positions
<1>2. Told' =< Told
    BY ToldIsKnown, CacheAssumption
       DEF Leave, Told, Positions, CacheInv, CacheTypeOK, StreamIsKnown
<1> QED
    BY <1>1, <1>2, EntryFreed DEF Leave, Unshown

LEMMA ShowStep ==
    ASSUME CacheInv, Show
    PROVE  CacheInv'
<1>1. CacheTypeOK' /\ StreamIsKnown'
    BY CacheAssumption DEF Show, Ask, Entry, CacheInv, CacheTypeOK, StreamIsKnown, Positions
<1>2. Told' = Told /\ Told \in Nat
    BY ToldIsKnown DEF Show, Told, Positions
<1>3. \A position \in Nat : UpToDate(position) => UpToDate(position)'
    BY <1>2, NothingTold DEF Show
<1>4. CASE Ask
    <2>1. ASSUME data # None, ~invalid, ~swallowed
          PROVE  UpToDate(data)'
        <3>1. data \in Nat /\ UpToDate(data)
            BY <2>1, LenProperties DEF CacheInv, CacheTypeOK, Positions, DataIsUpToDate
        <3>2. \A q : q = data => UpToDate(q)'
            BY <1>3, <3>1
        <3> QED
            BY <1>4, <3>2 DEF UpToDate, Ask
    <2>2. AnswerIsUpToDate' /\ DataIsUpToDate'
        BY <1>4, <2>1 DEF AnswerIsUpToDate, DataIsUpToDate, Ask
    <2> QED
        BY <1>1, <2>2 DEF CacheInv
<1>5. CASE UNCHANGED Entry
    BY <1>1, <1>3, <1>5, EntryKept DEF CacheInv
<1> QED
    BY <1>4, <1>5 DEF Show

LEMMA CollectStep ==
    ASSUME CacheInv, Collect
    PROVE  CacheInv'
<1>1. CacheTypeOK' /\ StreamIsKnown'
    BY DEF Collect, CacheInv, CacheTypeOK, StreamIsKnown, Positions
<1>2. AnswerIsUpToDate' /\ DataIsUpToDate'
    BY DEF Collect, CacheInv, StreamIsKnown, AnswerIsUpToDate, DataIsUpToDate
<1> QED
    BY <1>1, <1>2 DEF CacheInv

LEMMA VisitStep ==
    ASSUME CacheInv, Visit
    PROVE  CacheInv'
<1>1. CacheTypeOK' /\ StreamIsKnown'
    BY DEF Visit, Entry, CacheInv, CacheTypeOK, StreamIsKnown, Positions
<1>2. Told' = Told /\ Told \in Nat
    BY ToldIsKnown DEF Visit, Told, Positions
<1> QED
    BY <1>1, <1>2, QuietStep DEF Visit

LEMMA SubscribeStep ==
    ASSUME CacheInv, Subscribe
    PROVE  CacheInv'
<1>1. CacheTypeOK' /\ StreamIsKnown'
    BY LenProperties, CacheAssumption
       DEF Subscribe, Entry, CacheInv, CacheTypeOK, StreamIsKnown, Positions
<1>2. Told' = Told /\ Told \in Nat
    BY ToldIsKnown DEF Subscribe, Told, Positions
<1> QED
    BY <1>1, <1>2, QuietStep DEF Subscribe

LEMMA DropStep ==
    ASSUME CacheInv, Drop
    PROVE  CacheInv'
<1>1. CacheTypeOK' /\ StreamIsKnown'
    BY DEF Drop, Entry, CacheInv, CacheTypeOK, StreamIsKnown, Positions
<1>2. Told' =< Told
    BY ToldIsKnown, CacheAssumption
       DEF Drop, Told, Positions, CacheInv, CacheTypeOK, StreamIsKnown
<1> QED
    BY <1>1, <1>2, QuietStep DEF Drop

\* Without a cursor the stream stands for everything before it, which is reconciled.
LEMMA LiveStep ==
    ASSUME CacheInv, Live
    PROVE  CacheInv'
<1>1. CASE cursor = None
    <2>1. /\ AnswerIsUpToDate' /\ DataIsUpToDate'
          /\ data' = data /\ fetch' \in {fetch, Awaited}
          /\ invalid' \in BOOLEAN /\ swallowed' \in BOOLEAN
          /\ fetch' # None => shown
        BY <1>1, Invalidated DEF Live
    <2>2. CacheTypeOK' /\ StreamIsKnown'
        BY <2>1 DEF Live, CacheInv, CacheTypeOK, StreamIsKnown, Positions
    <2> QED
        BY <2>1, <2>2 DEF CacheInv
<1>2. CASE cursor # None
    <2>1. CacheTypeOK' /\ StreamIsKnown'
        BY <1>2 DEF Live, Entry, CacheInv, CacheTypeOK, StreamIsKnown, Positions
    <2>2. Told' = Told /\ Told \in Nat
        BY <1>2, ToldIsKnown DEF Live, Told, Positions, CacheInv, StreamIsKnown
    <2> QED
        BY <1>2, <2>1, <2>2, QuietStep DEF Live
<1> QED
    BY <1>1, <1>2

\* The next event is told: it concerns the read and invalidates it, or spares it.
LEMMA FrameStep ==
    ASSUME CacheInv, Frame
    PROVE  CacheInv'
<1>1. next \in Nat /\ next + 1 \in Positions /\ next + 1 \in Nat /\ next + 1 # None
    BY LenProperties, CacheAssumption
       DEF Frame, CacheInv, CacheTypeOK, StreamIsKnown, Positions
<1>2. Told = next /\ Told' = next + 1 /\ UNCHANGED <<read, log, shown, page>>
    BY DEF Frame, Told
<1>3. CASE ~Spares(log[next + 1])
    <2>1. Invalidate
        BY <1>3 DEF Frame, Spares
    <2>2. /\ AnswerIsUpToDate' /\ DataIsUpToDate'
          /\ data' = data /\ fetch' \in {fetch, Awaited}
          /\ invalid' \in BOOLEAN /\ swallowed' \in BOOLEAN
          /\ fetch' # None => shown
        BY <1>2, <2>1, Invalidated
    <2>3. CacheTypeOK' /\ StreamIsKnown'
        BY <1>1, <1>2, <2>2 DEF Frame, CacheInv, CacheTypeOK, StreamIsKnown, Positions
    <2> QED
        BY <2>2, <2>3 DEF CacheInv
<1>4. CASE Spares(log[next + 1])
    <2>1. UNCHANGED Entry
        BY <1>4 DEF Frame, Spares
    <2>2. CacheTypeOK' /\ StreamIsKnown'
        BY <1>1, <1>2, <2>1 DEF Frame, Entry, CacheInv, CacheTypeOK, StreamIsKnown, Positions
    <2>3. \A position \in Nat : UpToDate(position) => UpToDate(position)'
        <3> TAKE position \in Nat
        <3> SUFFICES ASSUME UpToDate(position), NEW p \in (position + 1)..Told'
                     PROVE  Spares(log[p])'
            BY DEF UpToDate
        <3>1. p \in (position + 1)..Told \/ p = next + 1
            BY <1>1, <1>2
        <3>2. Spares(log[p])
            BY <1>4, <3>1 DEF UpToDate
        <3> QED
            BY <1>2, <3>2 DEF Spares
    <2> QED
        BY <2>1, <2>2, <2>3, EntryKept DEF CacheInv
<1> QED
    BY <1>3, <1>4

LEMMA CacheSteps == CacheInv /\ [CacheNext]_cacheVars => CacheInv'
<1> SUFFICES ASSUME CacheInv, [CacheNext]_cacheVars
             PROVE  CacheInv'
    OBVIOUS
<1>1. CASE UNCHANGED cacheVars
    <2>1. CacheTypeOK' /\ StreamIsKnown'
        BY <1>1 DEF cacheVars, CacheInv, CacheTypeOK, StreamIsKnown, Positions
    <2>2. Told' = Told /\ Told \in Nat
        BY <1>1, ToldIsKnown DEF cacheVars, Told, Positions
    <2> QED
        BY <1>1, <2>1, <2>2, QuietStep DEF cacheVars, Entry
<1>2. ASSUME NEW e \in LiveEvents, Commit(e) PROVE CacheInv'
    BY <1>2, CommitStep
<1>3. CASE Answer
    BY <1>3, AnswerStep
<1>4. CASE Arrive
    BY <1>4, ArriveStep
<1>5. CASE GiveUp
    BY <1>5, GiveUpStep
<1>6. CASE Show
    BY <1>6, ShowStep
<1>7. CASE Hide
    BY <1>7, HideStep
<1>8. CASE Collect
    BY <1>8, CollectStep
<1>9. CASE Visit
    BY <1>9, VisitStep
<1>10. CASE Leave
    BY <1>10, LeaveStep
<1>11. CASE Subscribe
    BY <1>11, SubscribeStep
<1>12. CASE Live
    BY <1>12, LiveStep
<1>13. CASE Drop
    BY <1>13, DropStep
<1>14. CASE Frame
    BY <1>14, FrameStep
<1> QED
    BY <1>1, <1>2, <1>3, <1>4, <1>5, <1>6, <1>7, <1>8, <1>9, <1>10, <1>11, <1>12, <1>13, <1>14
       DEF CacheNext

\* Whatever was committed, told, fetched, given up or collected in whatever order: data that
\* is not marked is as new as what the page was told of the read, for any events, runs and
\* components (useLiveStream.ts:78-88).
THEOREM InvalidationsAreNotLost == CacheSpec => []InvalidationsReachReads
<1>1. CacheInv => InvalidationsReachReads
    BY DEF CacheInv, DataIsUpToDate, InvalidationsReachReads, UpToDate, Spares
<1> QED
    BY CacheStarts, CacheSteps, <1>1, PTL DEF CacheSpec

-----------------------------------------------------------------------------
(* CanvasViews: the memories of the views are kept apart.                         *)

StateFields == {"orientation", "camera", "selected", "collapsed"}

\* The view that is shown is the active one, and a canvas is mounted for it alone; a
\* transition bears the number of a canvas.
ViewsInv ==
    /\ DOMAIN address = {"view", "selected", "orientation"}
    /\ DOMAIN view = StateFields
    /\ \A key \in DOMAIN canvasViews : DOMAIN canvasViews[key] = StateFields
    /\ loaded \subseteq ViewKeys
    /\ address.view \in ViewKeys \cup {None}
    /\ address.view # None => active = address.view
    /\ mountedCanvas # None => address.view # None /\ mountedCanvas \in Nat
    /\ \A move \in moves : move.canvas \in Nat

LEMMA ViewsStart == ViewsInit => ViewsInv
BY DEF ViewsInit, ViewsInv, Fresh, StateFields

\* A view is activated: the one before keeps what is remembered of it, and so does every
\* other one.
LEMMA ActivateKeepsMemories ==
    ASSUME ViewsInv, NEW key \in ViewKeys, NEW defaults, Activate(key, defaults)
    PROVE  /\ active' = key
           /\ DOMAIN view' = StateFields
           /\ \A k \in DOMAIN canvasViews' : DOMAIN canvasViews'[k] = StateFields
           /\ \A k \in ViewKeys :
                  MemoryOf(k) # None /\ MemoryOf(k)' # MemoryOf(k) => k = active /\ active' = active
           /\ active' = active => view'.camera = view.camera
<1>1. CASE active = key
    BY <1>1 DEF Activate, ViewsInv, StateFields, MemoryOf
<1>2. CASE active # key
    <2>1. /\ active' = key /\ canvasViews' = SavedOnLeave(key)
          /\ view' = IF key \in DOMAIN canvasViews' THEN canvasViews'[key]
                     ELSE IF active = None /\ key \in Overviews THEN view ELSE Fresh(defaults)
        BY <1>2 DEF Activate
    <2>2. CASE active = None
        <3>1. canvasViews' = canvasViews
            BY <2>1, <2>2 DEF SavedOnLeave
        <3> QED
            BY <1>2, <2>1, <2>2, <3>1, ViewsAssumption DEF ViewsInv, Fresh, StateFields, MemoryOf
    <2>3. CASE active # None
        <3>1. /\ DOMAIN canvasViews' = DOMAIN canvasViews \cup {active}
              /\ canvasViews'[active] = view
              /\ \A k \in DOMAIN canvasViews \ {active} : canvasViews'[k] = canvasViews[k]
            BY <2>1, <2>3 DEF SavedOnLeave
        <3>2. \A k \in DOMAIN canvasViews' : DOMAIN canvasViews'[k] = StateFields
            BY <3>1 DEF ViewsInv
        <3>3. DOMAIN view' = StateFields
            BY <2>1, <3>2 DEF Fresh, StateFields, ViewsInv
        <3>4. ASSUME NEW k \in ViewKeys, MemoryOf(k) # None
              PROVE  MemoryOf(k)' = MemoryOf(k)
            BY <1>2, <2>1, <3>1, <3>4 DEF MemoryOf
        <3> QED
            BY <1>2, <2>1, <3>2, <3>3, <3>4
    <2> QED
        BY <2>2, <2>3
<1> QED
    BY <1>1, <1>2

\* What a step of the page may do, and what it leaves behind.
ViewsKept == ViewsInv' /\ MemoriesAreKept

LEMMA CommitNavigationStep ==
    ASSUME ViewsInv, NEW target, DOMAIN target = {"view", "selected", "orientation"},
           target.view \in ViewKeys \cup {None}, CommitNavigation(target)
    PROVE  ViewsKept
<1>1. /\ address' = target /\ mountedCanvas' = None /\ loaded' = loaded /\ moves' = moves
    BY DEF CommitNavigation
<1>2. CASE target.view = None
    BY <1>1, <1>2 DEF CommitNavigation, ViewsKept, ViewsInv, MemoriesAreKept, MemoryOf
<1>3. CASE target.view # None
    <2>1. Activate(target.view, DefaultsOf(target.view)) /\ target.view \in ViewKeys
        BY <1>3 DEF CommitNavigation
    <2>2. /\ active' = target.view
          /\ DOMAIN view' = StateFields
          /\ \A k \in DOMAIN canvasViews' : DOMAIN canvasViews'[k] = StateFields
          /\ \A k \in ViewKeys :
                 MemoryOf(k) # None /\ MemoryOf(k)' # MemoryOf(k) => k = active /\ active' = active
          /\ active' = active => view'.camera = view.camera
        BY <2>1, ActivateKeepsMemories
    <2>3. ViewsInv'
        BY <1>1, <2>2 DEF ViewsInv
    <2>4. MemoriesAreKept
        BY <1>1, <2>2 DEF MemoriesAreKept, MemoryOf
    <2> QED
        BY <2>3, <2>4 DEF ViewsKept
<1> QED
    BY <1>2, <1>3

LEMMA SetViewStep ==
    ASSUME ViewsInv, NEW key \in ViewKeys, SetView(key)
    PROVE  ViewsKept
<1>1. PICK target : /\ DOMAIN target = {"view", "selected", "orientation"}
                    /\ target.view = key /\ CommitNavigation(target)
    BY DEF SetView
<1> QED
    BY <1>1, CommitNavigationStep

LEMMA FollowStep ==
    ASSUME ViewsInv, NEW key \in ViewKeys \cup {None}, NEW selected,
           Follow([view |-> key, selected |-> selected, orientation |-> None])
    PROVE  ViewsKept
<1>1. CommitNavigation([view |-> key, selected |-> selected, orientation |-> None])
    BY DEF Follow
<1> QED
    BY <1>1, CommitNavigationStep

\* Steps that change the view that is shown, or none.
LEMMA ShownViewChanges ==
    ASSUME ViewsInv, UNCHANGED <<active, canvasViews>>, address'.view = address.view,
           view' # view => address.view # None,
           view'.camera # view.camera
               => mountedCanvas # None /\ \A move \in moves \ moves' : move.canvas = mountedCanvas
    PROVE  MemoriesAreKept
<1> SUFFICES ASSUME NEW key \in ViewKeys
             PROVE  /\ MemoryOf(key) # None /\ MemoryOf(key)' # MemoryOf(key)
                       => key = active /\ active' = active /\ address'.view = key
                    /\ key = active /\ active' = active /\ MemoryOf(key)'.camera # MemoryOf(key).camera
                       => mountedCanvas # None /\ address.view = key
                          /\ \A move \in moves \ moves' : move.canvas = mountedCanvas
    BY DEF MemoriesAreKept
<1>1. CASE key = active
    BY <1>1 DEF MemoryOf, ViewsInv
<1>2. CASE key # active
    BY <1>2 DEF MemoryOf
<1> QED
    BY <1>1, <1>2

LEMMA SetSelectedStep ==
    ASSUME ViewsInv, NEW selected, SetSelected(selected)
    PROVE  ViewsKept
<1>1. ViewsInv'
    BY DEF SetSelected, ViewsInv
<1>2. MemoriesAreKept
    BY ShownViewChanges DEF SetSelected, ViewsInv
<1> QED
    BY <1>1, <1>2 DEF ViewsKept

LEMMA SetGraphOrientationStep ==
    ASSUME ViewsInv, NEW orientation, SetGraphOrientation(orientation)
    PROVE  ViewsKept
<1>1. ViewsInv'
    BY DEF SetGraphOrientation, ViewsInv, StateFields
<1>2. MemoriesAreKept
    BY ShownViewChanges DEF SetGraphOrientation, ViewsInv, StateFields
<1> QED
    BY <1>1, <1>2 DEF ViewsKept

LEMMA MirrorStep ==
    ASSUME ViewsInv, Mirror
    PROVE  ViewsKept
<1>1. ViewsInv'
    BY DEF Mirror, ViewsInv, StateFields
<1>2. MemoriesAreKept
    BY ShownViewChanges DEF Mirror, ViewsInv, StateFields
<1> QED
    BY <1>1, <1>2 DEF ViewsKept

LEMMA LoadStep ==
    ASSUME ViewsInv, NEW key \in ViewKeys, Load(key)
    PROVE  ViewsKept
<1>1. ViewsInv'
    BY DEF Load, ViewsInv
<1>2. MemoriesAreKept
    BY ShownViewChanges DEF Load
<1> QED
    BY <1>1, <1>2 DEF ViewsKept

LEMMA EncloseStep ==
    ASSUME ViewsInv, Enclose
    PROVE  ViewsKept
<1>1. address.view \in ViewKeys /\ active = address.view
    BY ViewsAssumption DEF Enclose, ViewsInv
<1>2. /\ UNCHANGED <<active, canvasViews, address, loaded, mountedCanvas, moves>>
      /\ DOMAIN view' = StateFields /\ view'.camera = view.camera
    BY <1>1 DEF Enclose, Activate, ViewsInv, StateFields
<1>3. ViewsInv'
    BY <1>2 DEF ViewsInv
<1>4. MemoriesAreKept
    BY <1>1, <1>2, ShownViewChanges, ViewsAssumption
<1> QED
    BY <1>3, <1>4 DEF ViewsKept

LEMMA MountStep ==
    ASSUME ViewsInv, Mount
    PROVE  ViewsKept
<1>1. ViewsInv'
    BY DEF Mount, ViewsInv
<1>2. MemoriesAreKept
    BY ShownViewChanges DEF Mount
<1> QED
    BY <1>1, <1>2 DEF ViewsKept

LEMMA MoveCameraStep ==
    ASSUME ViewsInv, NEW camera, MoveCamera(camera)
    PROVE  ViewsKept
<1>1. ViewsInv'
    BY DEF MoveCamera, WithCamera, ViewsInv, StateFields
<1>2. \A move \in moves \ moves' : move.canvas = mountedCanvas
    BY DEF MoveCamera
<1>3. MemoriesAreKept
    BY <1>2, ShownViewChanges DEF MoveCamera, ViewsInv
<1> QED
    BY <1>1, <1>3 DEF ViewsKept

\* A transition that ends after its canvas has gone is not reported.
LEMMA EndMoveStep ==
    ASSUME ViewsInv, NEW move \in moves, EndMove(move)
    PROVE  ViewsKept
<1>1. ViewsInv'
    BY DEF EndMove, WithCamera, ViewsInv, StateFields
<1>2. move.canvas = mountedCanvas => mountedCanvas # None /\ address.view # None
    BY ViewsAssumption DEF ViewsInv
<1>3. view' # view \/ view'.camera # view.camera => move.canvas = mountedCanvas
    BY DEF EndMove, StillMounted
<1>4. \A m \in moves \ moves' : m = move
    BY DEF EndMove
<1>5. MemoriesAreKept
    BY <1>2, <1>3, <1>4, ShownViewChanges DEF EndMove
<1> QED
    BY <1>1, <1>5 DEF ViewsKept

LEMMA FoldStep ==
    ASSUME ViewsInv, NEW defaults, Fold(defaults)
    PROVE  ViewsKept
<1>1. ViewsInv'
    BY DEF Fold, ViewsInv, StateFields
<1>2. MemoriesAreKept
    BY ShownViewChanges DEF Fold, ViewsInv, StateFields
<1> QED
    BY <1>1, <1>2 DEF ViewsKept

LEMMA ViewsStep == ViewsInv /\ [ViewsNext]_viewVars => ViewsInv' /\ [MemoriesAreKept]_viewVars
<1> SUFFICES ASSUME ViewsInv, [ViewsNext]_viewVars
             PROVE  ViewsInv' /\ [MemoriesAreKept]_viewVars
    OBVIOUS
<1>1. CASE UNCHANGED viewVars
    BY <1>1 DEF viewVars, ViewsInv
<1>2. CASE ViewsNext
    <2>1. ASSUME NEW key \in ViewKeys, SetView(key) PROVE ViewsKept
        BY <2>1, SetViewStep
    <2>2. ASSUME NEW key \in ViewKeys, Load(key) PROVE ViewsKept
        BY <2>2, LoadStep
    <2>3. ASSUME NEW key \in ViewKeys \cup {None}, NEW selected \in Selections \cup {None},
                 Follow([view |-> key, selected |-> selected, orientation |-> None])
          PROVE  ViewsKept
        BY <2>3, FollowStep
    <2>4. ASSUME NEW selected \in Selections \cup {None}, SetSelected(selected) PROVE ViewsKept
        BY <2>4, SetSelectedStep
    <2>5. ASSUME NEW orientation \in ReadingDirections, SetGraphOrientation(orientation) PROVE ViewsKept
        BY <2>5, SetGraphOrientationStep
    <2>6. ASSUME Mirror PROVE ViewsKept
        BY <2>6, MirrorStep
    <2>7. ASSUME Enclose PROVE ViewsKept
        BY <2>7, EncloseStep
    <2>8. ASSUME Mount PROVE ViewsKept
        BY <2>8, MountStep
    <2>9. ASSUME NEW camera \in Cameras, MoveCamera(camera) PROVE ViewsKept
        BY <2>9, MoveCameraStep
    <2>10. ASSUME NEW move \in moves, EndMove(move) PROVE ViewsKept
        BY <2>10, EndMoveStep
    <2>11. ASSUME NEW defaults \in Foldings, Fold(defaults) PROVE ViewsKept
        BY <2>11, FoldStep
    <2>12. ViewsKept
        BY <1>2, <2>1, <2>2, <2>3, <2>4, <2>5, <2>6, <2>7, <2>8, <2>9, <2>10, <2>11 DEF ViewsNext
    <2> QED
        BY <2>12 DEF ViewsKept
<1> QED
    BY <1>1, <1>2

\* However the reader goes from view to view, and whatever comes late: switching changes
\* nothing of what any view remembers, and only the canvas that shows a view moves its
\* camera, for any views, overviews and definitions (uiStore.ts:300-308).
THEOREM ViewsAreKeptApart == ViewsSpec => ViewsKeepTheirOwn
BY ViewsStart, ViewsStep, PTL DEF ViewsSpec, ViewsKeepTheirOwn

-----------------------------------------------------------------------------
(* Simulator: a run is of one execution.                                          *)

IsList(s) == s \in Seq({s[i] : i \in DOMAIN s})

\* A script that begins with the start of the orchestrator.
BeginsARun(script) ==
    IsList(script) /\ Len(script) >= 1 /\ script[1] = StartedRoot("root")

\* A sequence over some set is one over its own elements.
LEMMA OverItsElements ==
    ASSUME NEW S, NEW s \in Seq(S)
    PROVE IsList(s)
BY DEF IsList

\* What is appended to a script leaves its beginning.
LEMMA Joined ==
    ASSUME NEW s, NEW t, IsList(s), IsList(t)
    PROVE  /\ IsList(s \o t)
           /\ BeginsARun(s) => BeginsARun(s \o t)
<1> DEFINE U == {s[i] : i \in DOMAIN s} \cup {t[i] : i \in DOMAIN t}
<1>1. s \in Seq(U) /\ t \in Seq(U)
  BY DEF IsList
<1>2. s \o t \in Seq(U)
  BY <1>1
<1>3. IsList(s \o t)
  BY <1>2, OverItsElements
<1> QED BY <1>1, <1>3 DEF BeginsARun

\* A list of items that is written out is a sequence.
LEMMA Listed ==
    /\ IsList(<<>>)
    /\ \A a : IsList(<<a>>)
    /\ \A a, b : IsList(<<a, b>>)
    /\ \A a, b, c : IsList(<<a, b, c>>)
    /\ \A a, b, c, d : IsList(<<a, b, c, d>>)
    /\ \A a, b, c, d, e : IsList(<<a, b, c, d, e>>)
    /\ \A a, b, c, d, e, f : IsList(<<a, b, c, d, e, f>>)
    /\ \A a, b, c, d, e, f, g : IsList(<<a, b, c, d, e, f, g>>)
    /\ \A a, b, c, d, e, f, g, h : IsList(<<a, b, c, d, e, f, g, h>>)
    /\ \A a, b, c, d, e, f, g, h, i : IsList(<<a, b, c, d, e, f, g, h, i>>)
    /\ \A a, b, c, d, e, f, g, h, i, j : IsList(<<a, b, c, d, e, f, g, h, i, j>>)
BY DEF IsList

\* The representative run begins with its orchestrator (full.ts:130-160).
LEMMA FullBegins == \A finish \in BOOLEAN : BeginsARun(FullScript(finish))
<1> TAKE finish \in BOOLEAN
<1> DEFINE end == IF finish THEN <<RunFinished("root")>> ELSE <<>>
<1>1. BeginsARun(FullRunStart) /\ IsList(FullRunStart)
  BY DEF IsList, FullRunStart, BeginsARun
<1>2. /\ IsList(FullSubagentsSpawn) /\ IsList(FullArchitectureSnapshot) /\ IsList(FullPlan)
      /\ IsList(FullProposedChanges) /\ IsList(FullImplementation)
  BY Listed DEF FullSubagentsSpawn, FullArchitectureSnapshot, FullPlan, FullProposedChanges,
         FullImplementation
<1>3. /\ IsList(FullAppliedChanges) /\ IsList(FullReview) /\ IsList(FullTests)
  BY Listed DEF FullAppliedChanges, FullReview, FullTests
<1>4. /\ IsList(FullPlanRevision) /\ IsList(FullOpenProposals) /\ IsList(FullWindDown)
  BY Listed DEF FullPlanRevision, FullOpenProposals, FullWindDown
<1>5. IsList(end)
  <2>1. CASE finish
    BY <2>1, Listed
  <2>2. CASE ~finish
    BY <2>2, Listed
  <2> QED BY <2>1, <2>2
<1> HIDE DEF end
<1> DEFINE first == FullRunStart \o FullSubagentsSpawn \o FullArchitectureSnapshot \o FullPlan
<1>6. BeginsARun(first) /\ IsList(first)
  BY <1>1, <1>2, Joined
<1> HIDE DEF first
<1> DEFINE second == first \o FullProposedChanges \o FullImplementation \o FullAppliedChanges
                        \o FullReview
<1>7. BeginsARun(second) /\ IsList(second)
  BY <1>2, <1>3, <1>6, Joined
<1> HIDE DEF second
<1>8. BeginsARun(second \o FullTests \o FullPlanRevision \o FullOpenProposals \o FullWindDown \o end)
  BY <1>3, <1>4, <1>5, <1>7, Joined
<1> QED BY <1>8 DEF FullScript, first, second, end

\* So does the run of the cockpit's own development (self.ts:213-240).
LEMMA SelfBegins == BeginsARun(SelfScript)
<1>1. BeginsARun(SelfRunStart) /\ IsList(SelfRunStart)
  BY DEF IsList, SelfRunStart, BeginsARun
<1>2. \A agent : IsList(Ends(agent))
  BY Listed DEF Ends
<1>3. IsList(SelfArchitectureSnapshot)
  BY <1>2, Listed, Joined DEF SelfArchitectureSnapshot
<1>4. IsList(SelfPlan)
  BY <1>2, Listed, Joined DEF SelfPlan
<1>5. IsList(SelfSubagentsSpawn)
  BY <1>2, Listed, Joined DEF SelfSubagentsSpawn
<1>6. IsList(SelfEventContract)
  BY <1>2, Listed, Joined DEF SelfEventContract
<1>7. IsList(SelfComposeBaseline)
  BY <1>2, Listed, Joined DEF SelfComposeBaseline
<1>8. IsList(SelfEventStore)
  BY <1>2, Listed, Joined DEF SelfEventStore
<1>9. IsList(SelfFrontendShell)
  BY <1>2, Listed, Joined DEF SelfFrontendShell
<1>10. IsList(SelfBackendSurface)
  BY <1>2, Listed, Joined DEF SelfBackendSurface
<1>11. IsList(SelfEventSimulator)
  BY <1>2, Listed, Joined DEF SelfEventSimulator
<1>12. IsList(SelfCanvas)
  BY <1>2, Listed, Joined DEF SelfCanvas
<1>13. IsList(SelfPlanRevision)
  BY <1>2, Listed, Joined DEF SelfPlanRevision
<1>14. IsList(SelfGeneratedTypes)
  BY <1>2, Listed, Joined DEF SelfGeneratedTypes
<1>15. IsList(SelfPanes)
  BY <1>2, Listed, Joined DEF SelfPanes
<1>16. IsList(SelfDocumentation)
  BY <1>2, Listed, Joined DEF SelfDocumentation
<1>17. IsList(SelfCorrecting)
  BY <1>2, Listed, Joined DEF SelfCorrecting
<1>18. IsList(SelfOpenProposal)
  BY <1>2, Listed, Joined DEF SelfOpenProposal
<1>19. IsList(SelfWindDown)
  BY <1>2, Listed, Joined DEF SelfWindDown
<1> DEFINE first == SelfRunStart \o SelfArchitectureSnapshot \o SelfPlan \o SelfSubagentsSpawn
                       \o SelfEventContract
<1>20. BeginsARun(first) /\ IsList(first)
  BY <1>1, <1>3, <1>4, <1>5, <1>6, Joined
<1> HIDE DEF first
<1> DEFINE second == first \o SelfComposeBaseline \o SelfEventStore \o SelfFrontendShell
                        \o SelfBackendSurface
<1>21. BeginsARun(second) /\ IsList(second)
  BY <1>7, <1>8, <1>9, <1>10, <1>20, Joined
<1> HIDE DEF second
<1> DEFINE third == second \o SelfEventSimulator \o SelfCanvas \o SelfPlanRevision
                        \o SelfGeneratedTypes
<1>22. BeginsARun(third) /\ IsList(third)
  BY <1>11, <1>12, <1>13, <1>14, <1>21, Joined
<1> HIDE DEF third
<1>23. BeginsARun(third \o SelfPanes \o SelfDocumentation \o SelfCorrecting \o SelfOpenProposal
                       \o SelfWindDown)
  BY <1>15, <1>16, <1>17, <1>18, <1>19, <1>22, Joined
<1> QED BY <1>23 DEF SelfScript, first, second, third

\* A message that opens a run.
Opens(event) ==
    /\ event.body.type = "agent.started" /\ event.body.role = "orchestrator"
    /\ event.body.agent = "root" /\ event.parent = Nobody

\* Steps that are sent for a run, the first of them to open it.
StepsFor(steps, run) ==
    /\ IsList(steps) /\ Len(steps) >= 1
    /\ \A i \in 1..Len(steps) : steps[i].event.run = run
    /\ Opens(steps[1].event) /\ steps[1].expect = 201

\* emit makes such steps of a script that begins a run (sequence.ts:110-150).
LEMMA EmittedSteps ==
    ASSUME NEW execution, NEW parents, parents["root"] = Nobody, NEW script, BeginsARun(script)
    PROVE  StepsFor(Emit(execution, parents, script), execution.run)
<1> DEFINE Step(n) == [event |-> Envelope(execution, parents, n, script[n]), expect |-> 201]
           steps == Emit(execution, parents, script)
<1>1. DOMAIN script = 1..Len(script) /\ Len(script) \in Nat /\ Len(script) >= 1
  BY DEF BeginsARun, IsList
<1>2. steps = [n \in 1..Len(script) |-> Step(n)]
  BY <1>1 DEF Emit
<1>3. steps \in Seq({Step(n) : n \in 1..Len(script)}) /\ Len(steps) = Len(script)
  BY <1>1, <1>2
<1>4. IsList(steps) /\ Len(steps) >= 1
  BY <1>1, <1>3, OverItsElements
<1>5. ASSUME NEW i \in 1..Len(steps) PROVE steps[i].event.run = execution.run
  BY <1>2, <1>3, <1>5 DEF Envelope
<1>6. Opens(steps[1].event) /\ steps[1].expect = 201
  <2>1. steps[1] = Step(1)
    BY <1>1, <1>2
  <2>2. script[1] = StartedRoot("root")
    BY DEF BeginsARun
  <2>3. Step(1).event.body = StartedRoot("root") /\ Step(1).event.parent = Nobody
    BY <2>2 DEF Envelope, StartedRoot
  <2> QED BY <2>1, <2>3 DEF Opens, StartedRoot
<1> HIDE DEF steps
<1>7. StepsFor(steps, execution.run)
  BY <1>4, <1>5, <1>6 DEF StepsFor
<1> QED BY <1>7 DEF steps

\* A step that is sent after them, for the same run, changes nothing of that.
LEMMA OneStepMore ==
    ASSUME NEW steps, NEW run, StepsFor(steps, run), NEW step, step.event.run = run
    PROVE  StepsFor(Append(steps, step), run)
<1> DEFINE S == {steps[i] : i \in DOMAIN steps}
           more == Append(steps, step)
<1>1. steps \in Seq(S) /\ Len(steps) \in Nat
  BY DEF StepsFor, IsList
<1>2. more \in Seq(S \cup {step}) /\ Len(more) = Len(steps) + 1
  BY <1>1
<1>3. IsList(more)
  BY <1>2, OverItsElements
<1>4. /\ \A i \in 1..Len(steps) : more[i] = steps[i]
      /\ more[Len(steps) + 1] = step
  BY <1>1
<1> HIDE DEF more
<1>5. \A i \in 1..Len(more) : more[i].event.run = run
  BY <1>1, <1>2, <1>4 DEF StepsFor
<1>6. StepsFor(more, run)
  BY <1>1, <1>2, <1>3, <1>4, <1>5 DEF StepsFor
<1> QED BY <1>6 DEF more

\* Whatever is launched opens its run first and sends everything to that run
\* (scenarios/index.ts:13-57).
LEMMA StepsOfAnExecution ==
    ASSUME NEW execution \in Executions
    PROVE  StepsFor(StepsOf(execution), execution.run)
<1>1. CASE execution.scenario = "full"
  <2>1. FullAgents["root"] = Nobody
    BY DEF FullAgents
  <2>2. BeginsARun(IF execution.finish THEN FinishedScript ELSE OpenScript)
    <3>1. BeginsARun(FinishedScript) /\ BeginsARun(OpenScript)
      BY FullBegins DEF FinishedScript, OpenScript
    <3>2. CASE execution.finish
      BY <3>1, <3>2
    <3>3. CASE ~execution.finish
      BY <3>1, <3>3
    <3> QED BY <3>2, <3>3
  <2> QED BY <1>1, <2>1, <2>2, EmittedSteps DEF StepsOf
<1>2. CASE execution.scenario = "self"
  <2>1. SelfAgents["root"] = Nobody
    BY DEF SelfAgents
  <2> QED BY <1>2, <2>1, SelfBegins, EmittedSteps DEF StepsOf
<1>3. CASE execution.scenario \in {"retry", "conflict"}
  <2> DEFINE steps == Emit(execution, ProbeAgents, Probe)
  <2>1. ProbeAgents["root"] = Nobody
    BY DEF ProbeAgents
  <2>2. BeginsARun(Probe) /\ Len(Probe) = 2
    BY DEF Probe, BeginsARun, IsList
  <2>3. StepsFor(steps, execution.run)
    BY <2>1, <2>2, EmittedSteps
  <2>4. steps[2].event.run = execution.run
    BY <2>2 DEF Emit, Envelope, Probe
  <2>5. DOMAIN steps[2].event = {"id", "run", "parent", "body"}
    BY <2>2 DEF Emit, Envelope, Probe
  <2> HIDE DEF steps
  <2>6. StepsFor(EmitRetryOf(steps, 2), execution.run)
    BY <2>3, <2>4, OneStepMore DEF EmitRetryOf
  <2>7. ASSUME NEW body
        PROVE  StepsFor(EmitConflictWith(steps, 2, body), execution.run)
    <3> DEFINE event == [steps[2].event EXCEPT !.body = body]
    <3>1. event.run = execution.run
      BY <2>4, <2>5
    <3> HIDE DEF event
    <3>2. StepsFor(Append(steps, [event |-> event, expect |-> 409]), execution.run)
      BY <2>3, <3>1, OneStepMore
    <3> QED BY <3>2 DEF EmitConflictWith, event
  <2>8. CASE execution.scenario = "retry"
    BY <2>6, <2>8 DEF StepsOf, RetrySteps, steps
  <2>9. CASE execution.scenario = "conflict"
    BY <2>7, <2>9 DEF StepsOf, ConflictSteps, steps
  <2> QED BY <1>3, <2>8, <2>9
<1> QED BY <1>1, <1>2, <1>3, SimulatorAssumption

-----------------------------------------------------------------------------

\* A log in which every run is opened once, and everything that is stored of an
\* execution was preceded by its opening of the run.
Whole(rows, number) ==
    /\ IsList(rows)
    /\ \A i \in 1..Len(rows) : rows[i].by \in 1..number /\ rows[i].event.run \in RunIds
    /\ \A i \in 1..Len(rows) :
           rows[i].event.body.type = "agent.started" /\ rows[i].event.parent = Nobody
               => Opens(rows[i].event)
    /\ \A i, j \in 1..Len(rows) :
           /\ Opens(rows[i].event) /\ Opens(rows[j].event)
           /\ rows[i].event.run = rows[j].event.run
           => i = j
    /\ \A i \in 1..Len(rows) : \E j \in 1..Len(rows) :
           /\ Opens(rows[j].event)
           /\ rows[j].by = rows[i].by /\ rows[j].event.run = rows[i].event.run

SimulationFields == {"log", "parents", "ends", "identities", "execution", "steps", "at", "number", "outcome"}

\* What the execution that runs has stored: nothing before its first step, and the
\* opening of its run after it.
ExecutionInv ==
    /\ simulation.execution \in Executions
    /\ simulation.steps = StepsOf(simulation.execution)
    /\ simulation.at \in 1..Len(simulation.steps)
    /\ simulation.number \in Nat \ {0}
    /\ simulation.at = 1 => \A i \in 1..Len(Log) : Log[i].by # simulation.number
    /\ simulation.at # 1 =>
           \E j \in 1..Len(Log) :
               /\ Opens(Log[j].event) /\ Log[j].by = simulation.number
               /\ Log[j].event.run = simulation.execution.run

SimulationInv ==
    /\ DOMAIN simulation = SimulationFields
    /\ simulation = [field \in SimulationFields |-> simulation[field]]
    /\ simulation.number \in Nat
    /\ Whole(Log, simulation.number)
    /\ Running => ExecutionInv

\* A run that has been opened is known to be (lifecycle.go:59-72).
LEMMA OpenedIsKnown ==
    ASSUME NEW number, Whole(Log, number), NEW j \in 1..Len(Log), Opens(Log[j].event)
    PROVE  Lifecycle!Opened(Log[j].event.run)
<1> DEFINE run == Log[j].event.run
           roots == {e \in Events(run, "agent.started") : e.parent = Nobody}
<1>0. DOMAIN Log = 1..Len(Log)
  BY DEF Whole, IsList
<1>1. Log[j].event \in roots
  BY <1>0 DEF Events, Opens
<1>2. \A e \in roots : e.body.agent = "root"
  <2> TAKE e \in roots
  <2>1. PICK i \in DOMAIN Log : e = Log[i].event
    BY DEF Events
  <2>2. e.body.type = "agent.started" /\ e.parent = Nobody
    BY DEF Events
  <2>3. Opens(e)
    BY <1>0, <2>1, <2>2 DEF Whole
  <2> QED BY <2>3 DEF Opens
<1> HIDE DEF roots
<1>3. roots # {} /\ (CHOOSE e \in roots : TRUE) \in roots
  BY <1>1
<1>4. RootOf(run) = "root"
  BY <1>2, <1>3 DEF RootOf, roots
<1>5. "root" # Nobody
  BY SimulatorAssumption DEF Actors, FullAgents
<1>6. run \in RunIds
  BY DEF Whole
<1> QED BY <1>4, <1>5, <1>6 DEF Lifecycle!Opened

\* What is taken in opens a run that was not opened, or opens none
\* (lifecycle.go:74-113).
LEMMA OnlyOneOpens ==
    ASSUME NEW number, Whole(Log, number), NEW event, Admitted(event),
           event.body.type = "agent.started", event.parent = Nobody,
           NEW j \in 1..Len(Log), Opens(Log[j].event)
    PROVE  Log[j].event.run # event.run
<1>1. Lifecycle!Opened(Log[j].event.run)
  BY OpenedIsKnown
<1>2. ~Lifecycle!KnownParent(event.run, event.parent)
  BY DEF Lifecycle!KnownParent
<1>3. event.body.role = "orchestrator" /\ event.parent = Nobody => ~Lifecycle!Opened(event.run)
  BY DEF Admitted
<1>4. ~(event.body.role = "orchestrator" /\ event.parent = Nobody)
          => Lifecycle!KnownParent(event.run, event.parent)
  BY DEF Admitted
<1> QED BY <1>1, <1>2, <1>3, <1>4

\* What a step of an execution stores leaves the log whole.
LEMMA StoredIsWhole ==
    ASSUME SimulationInv, Running, Admitted(NextStep.event)
    PROVE  LET rows == Append(Log, [event |-> NextStep.event, by |-> simulation.number])
           IN  /\ Whole(rows, simulation.number)
               /\ \E j \in 1..Len(rows) :
                      /\ Opens(rows[j].event) /\ rows[j].by = simulation.number
                      /\ rows[j].event.run = simulation.execution.run
<1> DEFINE number == simulation.number
           event == NextStep.event
           row == [event |-> event, by |-> number]
           rows == Append(Log, row)
           S == {Log[i] : i \in DOMAIN Log}
<1>1. Whole(Log, number) /\ ExecutionInv
  BY DEF SimulationInv
<1>2. Log \in Seq(S) /\ Len(Log) \in Nat
  BY <1>1 DEF Whole, IsList
<1>3. rows \in Seq(S \cup {row}) /\ Len(rows) = Len(Log) + 1
  BY <1>2
<1>4. IsList(rows)
  BY <1>3, OverItsElements
<1>5. (\A i \in 1..Len(Log) : rows[i] = Log[i]) /\ rows[Len(Log) + 1] = row
  BY <1>2
<1>6. row.event = event /\ row.by = number
  OBVIOUS
<1>7. StepsFor(simulation.steps, simulation.execution.run)
  BY <1>1, StepsOfAnExecution DEF ExecutionInv
<1>8. event.run = simulation.execution.run
  BY <1>1, <1>7 DEF ExecutionInv, StepsFor, NextStep
<1>9. event.run \in RunIds
  BY <1>1, <1>8 DEF ExecutionInv, RunIds
<1>10. number \in 1..number
  BY <1>1 DEF ExecutionInv
\* The first step opens the run; one that opens it later is not taken in.
<1>11. event.body.type = "agent.started" /\ event.parent = Nobody => Opens(event)
  <2>1. CASE simulation.at = 1
    BY <1>7, <2>1 DEF StepsFor, NextStep
  <2>2. CASE simulation.at # 1
    <3>1. PICK j \in 1..Len(Log) :
              Opens(Log[j].event) /\ Log[j].event.run = simulation.execution.run
      BY <1>1, <2>2 DEF ExecutionInv
    <3> QED BY <1>1, <1>8, <3>1, OnlyOneOpens
  <2> QED BY <2>1, <2>2
<1>12. Opens(event) => \A j \in 1..Len(Log) : Opens(Log[j].event) => Log[j].event.run # event.run
  BY <1>1, OnlyOneOpens DEF Opens
<1>13. \E j \in 1..Len(rows) :
           /\ Opens(rows[j].event) /\ rows[j].by = number
           /\ rows[j].event.run = event.run
  <2>1. CASE simulation.at = 1
    <3>1. Opens(event)
      BY <1>7, <2>1 DEF StepsFor, NextStep
    <3> HIDE DEF rows, row, event
    <3> QED BY <1>2, <1>3, <1>5, <1>6, <3>1
  <2>2. CASE simulation.at # 1
    <3>1. PICK j \in 1..Len(Log) :
              /\ Opens(Log[j].event) /\ Log[j].by = number
              /\ Log[j].event.run = simulation.execution.run
      BY <1>1, <2>2 DEF ExecutionInv
    <3> HIDE DEF rows, row, event
    <3> QED BY <1>2, <1>3, <1>5, <1>8, <3>1
  <2> QED BY <2>1, <2>2
<1> HIDE DEF rows, row, event, number
<1>14. Whole(rows, number)
  <2>1. \A i \in 1..Len(rows) : i \in 1..Len(Log) \/ i = Len(Log) + 1
    BY <1>2, <1>3
  <2>2. \A i \in 1..Len(rows) : rows[i].by \in 1..number /\ rows[i].event.run \in RunIds
    BY <1>1, <1>5, <1>6, <1>9, <1>10, <2>1 DEF Whole
  <2>3. \A i \in 1..Len(rows) :
            rows[i].event.body.type = "agent.started" /\ rows[i].event.parent = Nobody
                => Opens(rows[i].event)
    BY <1>1, <1>5, <1>6, <1>11, <2>1 DEF Whole
  <2>4. \A i, j \in 1..Len(rows) :
            /\ Opens(rows[i].event) /\ Opens(rows[j].event)
            /\ rows[i].event.run = rows[j].event.run
            => i = j
    BY <1>1, <1>5, <1>6, <1>12, <2>1 DEF Whole
  <2>5. \A i \in 1..Len(rows) : \E j \in 1..Len(rows) :
            /\ Opens(rows[j].event)
            /\ rows[j].by = rows[i].by /\ rows[j].event.run = rows[i].event.run
    <3> TAKE i \in 1..Len(rows)
    <3>1. CASE i \in 1..Len(Log)
      <4>1. PICK j \in 1..Len(Log) :
                /\ Opens(Log[j].event)
                /\ Log[j].by = Log[i].by /\ Log[j].event.run = Log[i].event.run
        BY <1>1, <3>1 DEF Whole
      <4> QED BY <1>2, <1>3, <1>5, <3>1, <4>1
    <3>2. CASE i = Len(Log) + 1
      BY <1>5, <1>6, <1>13, <3>2
    <3> QED BY <2>1, <3>1, <3>2
  <2> QED BY <1>4, <2>2, <2>3, <2>4, <2>5 DEF Whole
<1> QED BY <1>8, <1>13, <1>14 DEF rows, row, event, number

LEMMA SimulationInitial == SimulationInit => SimulationInv
<1> SUFFICES ASSUME SimulationInit PROVE SimulationInv
  OBVIOUS
<1>1. Log = <<>> /\ simulation.number = 0 /\ ~Running
  BY DEF SimulationInit, Log, Running
<1>2. Whole(<<>>, 0)
  BY Listed DEF Whole
<1>3. DOMAIN simulation = SimulationFields /\ simulation = [field \in SimulationFields |-> simulation[field]]
  BY DEF SimulationInit, SimulationFields
<1> QED BY <1>1, <1>2, <1>3 DEF SimulationInv

\* A later execution has no part in what is stored.
LEMMA WholeLater ==
    ASSUME NEW rows, NEW number \in Nat, Whole(rows, number)
    PROVE  Whole(rows, number + 1) /\ \A i \in 1..Len(rows) : rows[i].by # number + 1
BY DEF Whole

\* What a step makes of the fields, stored or not.
LEMMA StoredFields ==
    ASSUME SimulationInv, Running
    PROVE  LET stored == Stored(NextStep.event)
           IN  /\ DOMAIN stored = SimulationFields
               /\ stored = [field \in SimulationFields |-> stored[field]]
               /\ stored.execution = simulation.execution /\ stored.steps = simulation.steps
               /\ stored.at = simulation.at /\ stored.number = simulation.number
               /\ Reply(NextStep.event) # 201 => stored.log = Log
               /\ Reply(NextStep.event) = 201 =>
                      /\ Admitted(NextStep.event)
                      /\ stored.log = Append(Log, [event |-> NextStep.event, by |-> simulation.number])
<1> DEFINE event == NextStep.event
           stored == Stored(event)
<1>1. DOMAIN simulation = SimulationFields /\ simulation = [field \in SimulationFields |-> simulation[field]]
  BY DEF SimulationInv
<1>2. CASE Reply(event) # 201
  <2>1. stored = simulation
    BY <1>2 DEF Stored
  <2> QED BY <1>1, <1>2, <2>1 DEF Log
<1>3. CASE Reply(event) = 201
  <2>1. Admitted(event)
    BY <1>3 DEF Reply
  <2>2. stored = [simulation EXCEPT
            !.log = Append(@, [event |-> event, by |-> simulation.number]),
            !.parents = ParentsAfter(event.body), !.ends = EndsAfter(event.body),
            !.identities = @ \cup DOMAIN ParentsAfter(event.body) \cup DOMAIN EndsAfter(event.body)]
    BY <1>3 DEF Stored
  <2> HIDE DEF event
  <2>3. /\ DOMAIN stored = SimulationFields
        /\ stored = [field \in SimulationFields |-> stored[field]]
        /\ stored.execution = simulation.execution /\ stored.steps = simulation.steps
        /\ stored.at = simulation.at /\ stored.number = simulation.number
        /\ stored.log = Append(simulation.log, [event |-> event, by |-> simulation.number])
    BY <1>1, <2>2 DEF SimulationFields
  <2> QED BY <1>3, <2>1, <2>3 DEF Log, event
<1> QED BY <1>2, <1>3

\* A step that is stored leaves the log whole, as one that is not does.
LEMMA StoredStaysWhole ==
    ASSUME SimulationInv, Running
    PROVE  LET rows == Stored(NextStep.event).log
           IN  /\ Whole(rows, simulation.number)
               /\ Reply(NextStep.event) = 201 \/ simulation.at # 1 =>
                      \E j \in 1..Len(rows) :
                          /\ Opens(rows[j].event) /\ rows[j].by = simulation.number
                          /\ rows[j].event.run = simulation.execution.run
<1>1. Whole(Log, simulation.number) /\ ExecutionInv
  BY DEF SimulationInv
<1>2. CASE Reply(NextStep.event) = 201
  BY <1>2, StoredFields, StoredIsWhole
<1>3. CASE Reply(NextStep.event) # 201
  <2>1. Stored(NextStep.event).log = Log
    BY <1>3, StoredFields
  <2> QED BY <1>1, <1>3, <2>1 DEF ExecutionInv
<1> QED BY <1>2, <1>3

LEMMA LaunchKeeps ==
    ASSUME SimulationInv, NEW execution \in Executions, Launch(execution)
    PROVE  SimulationInv'
<1>1. DOMAIN simulation = SimulationFields /\ simulation = [field \in SimulationFields |-> simulation[field]]
  BY DEF SimulationInv
<1>2. /\ DOMAIN simulation' = SimulationFields
      /\ simulation' = [field \in SimulationFields |-> simulation'[field]]
      /\ simulation'.log = simulation.log /\ simulation'.number = simulation.number + 1
      /\ simulation'.execution = execution /\ simulation'.steps = StepsOf(execution)
      /\ simulation'.at = 1
  BY <1>1 DEF Launch, SimulationFields
<1>3. Whole(Log, simulation.number) /\ simulation.number \in Nat
  BY DEF SimulationInv
<1>4. Whole(Log', simulation'.number) /\ \A i \in 1..Len(Log') : Log'[i].by # simulation'.number
  BY <1>2, <1>3, WholeLater DEF Log
<1>5. Len(StepsOf(execution)) \in Nat /\ Len(StepsOf(execution)) >= 1
  <2>1. StepsFor(StepsOf(execution), execution.run)
    BY StepsOfAnExecution
  <2> QED BY <2>1 DEF StepsFor, IsList
<1>6. ExecutionInv'
  BY <1>2, <1>3, <1>4, <1>5 DEF ExecutionInv
<1>7. simulation'.number \in Nat
  BY <1>2, <1>3
<1> QED BY <1>2, <1>4, <1>6, <1>7 DEF SimulationInv

LEMMA PostKeeps ==
    ASSUME SimulationInv, Post
    PROVE  SimulationInv'
<1> DEFINE stored == Stored(NextStep.event)
           last == simulation.at = Len(simulation.steps)
           expected == AsExpected(NextStep, Reply(NextStep.event))
<1>1. Running /\ ExecutionInv
  BY DEF Post, SimulationInv
<1>2. /\ DOMAIN stored = SimulationFields
      /\ stored = [field \in SimulationFields |-> stored[field]]
      /\ stored.execution = simulation.execution /\ stored.steps = simulation.steps
      /\ stored.at = simulation.at /\ stored.number = simulation.number
  BY <1>1, StoredFields
<1>3. /\ Whole(stored.log, simulation.number)
      /\ Reply(NextStep.event) = 201 \/ simulation.at # 1 =>
             \E j \in 1..Len(stored.log) :
                 /\ Opens(stored.log[j].event) /\ stored.log[j].by = simulation.number
                 /\ stored.log[j].event.run = simulation.execution.run
  BY <1>1, StoredStaysWhole
<1>4. simulation' = [stored EXCEPT
               !.at = IF expected /\ ~last THEN @ + 1 ELSE @,
               !.outcome = IF ~expected THEN "refused" ELSE IF last THEN "completed" ELSE @]
  BY DEF Post
<1>5. simulation.number \in Nat \ {0} /\ simulation.at \in 1..Len(simulation.steps)
  BY <1>1 DEF ExecutionInv
<1>6. Len(simulation.steps) \in Nat
  BY <1>1, StepsOfAnExecution DEF ExecutionInv, StepsFor, IsList
\* The first step is expected to be stored.
<1>7. expected => Reply(NextStep.event) = 201 \/ simulation.at # 1
  <2>1. StepsFor(simulation.steps, simulation.execution.run)
    BY <1>1, StepsOfAnExecution DEF ExecutionInv
  <2> QED BY <2>1 DEF AsExpected, NextStep, StepsFor
<1> HIDE DEF stored, expected, last
<1>8. /\ DOMAIN simulation' = SimulationFields
      /\ simulation' = [field \in SimulationFields |-> simulation'[field]]
      /\ simulation'.log = stored.log /\ simulation'.number = simulation.number
      /\ simulation'.execution = simulation.execution /\ simulation'.steps = simulation.steps
      /\ simulation'.at = IF expected /\ ~last THEN simulation.at + 1 ELSE simulation.at
      /\ Running' => expected /\ ~last
  BY <1>2, <1>4 DEF SimulationFields, Running
<1>9. Whole(Log', simulation'.number) /\ simulation'.number \in Nat
  BY <1>3, <1>5, <1>8 DEF Log
<1>10. ASSUME Running' PROVE ExecutionInv'
  <2>1. expected /\ ~last /\ simulation'.at = simulation.at + 1
    BY <1>8, <1>10
  <2>2. simulation'.at \in 1..Len(simulation'.steps) /\ simulation'.at # 1
    BY <1>5, <1>6, <1>8, <2>1 DEF last
  <2>3. \E j \in 1..Len(Log') :
            /\ Opens(Log'[j].event) /\ Log'[j].by = simulation'.number
            /\ Log'[j].event.run = simulation'.execution.run
    BY <1>3, <1>7, <1>8, <2>1 DEF Log
  <2> QED BY <1>1, <1>5, <1>8, <2>2, <2>3 DEF ExecutionInv
<1> QED BY <1>8, <1>9, <1>10 DEF SimulationInv

LEMMA UnansweredKeeps ==
    ASSUME SimulationInv, Unanswered
    PROVE  SimulationInv'
<1>1. Running
  BY DEF Unanswered
<1>2. PICK after \in {simulation, Stored(NextStep.event)} :
          simulation' = [after EXCEPT !.outcome = "unanswered"]
  BY DEF Unanswered
<1>3. /\ DOMAIN after = SimulationFields /\ after = [field \in SimulationFields |-> after[field]]
      /\ after.number = simulation.number /\ Whole(after.log, simulation.number)
  <2>1. CASE after = simulation
    BY <2>1 DEF SimulationInv, Log
  <2>2. CASE after = Stored(NextStep.event)
    BY <1>1, <2>2, StoredFields, StoredStaysWhole
  <2> QED BY <2>1, <2>2
<1>4. /\ DOMAIN simulation' = SimulationFields
      /\ simulation' = [field \in SimulationFields |-> simulation'[field]]
      /\ simulation'.log = after.log /\ simulation'.number = simulation.number
      /\ simulation'.outcome = "unanswered"
  BY <1>2, <1>3 DEF SimulationFields
<1>5. Whole(Log', simulation'.number) /\ ~Running' /\ simulation'.number \in Nat
  BY <1>3, <1>4 DEF Log, Running, SimulationInv
<1> QED BY <1>4, <1>5 DEF SimulationInv

LEMMA SimulationKept == SimulationInv /\ [SimulationNext]_simulationVars => SimulationInv'
<1> SUFFICES ASSUME SimulationInv, [SimulationNext]_simulationVars PROVE SimulationInv'
  OBVIOUS
<1>1. ASSUME NEW execution \in Executions, Launch(execution) PROVE SimulationInv'
  BY <1>1, LaunchKeeps
<1>2. CASE Post
  BY <1>2, PostKeeps
<1>3. CASE Unanswered
  BY <1>3, UnansweredKeeps
<1>4. CASE UNCHANGED simulationVars
  BY <1>4 DEF simulationVars, SimulationInv, ExecutionInv, Running, Log
<1> QED BY <1>1, <1>2, <1>3, <1>4 DEF SimulationNext

\* As many runs as pairs of a run and the execution that sent it.
LEMMA WholeIsOneExecution == SimulationInv => RunIsOneExecution
<1> SUFFICES ASSUME SimulationInv PROVE RunIsOneExecution
  OBVIOUS
<1> DEFINE Pairs == {<<Log[i].event.run, Log[i].by>> : i \in DOMAIN Log}
           Single == {Log[i].event.run : i \in DOMAIN Log}
           first == [pair \in Pairs |-> pair[1]]
<1>1. Whole(Log, simulation.number) /\ DOMAIN Log = 1..Len(Log) /\ Len(Log) \in Nat
  BY DEF SimulationInv, Whole, IsList
<1>2. ASSUME NEW i \in 1..Len(Log), NEW j \in 1..Len(Log), Log[i].event.run = Log[j].event.run
      PROVE  Log[i].by = Log[j].by
  <2>1. PICK k \in 1..Len(Log) :
            /\ Opens(Log[k].event)
            /\ Log[k].by = Log[i].by /\ Log[k].event.run = Log[i].event.run
    BY <1>1 DEF Whole
  <2>2. PICK l \in 1..Len(Log) :
            /\ Opens(Log[l].event)
            /\ Log[l].by = Log[j].by /\ Log[l].event.run = Log[j].event.run
    BY <1>1 DEF Whole
  <2>3. k = l
    BY <1>1, <1>2, <2>1, <2>2 DEF Whole
  <2> QED BY <2>1, <2>2, <2>3
<1>3. IsFiniteSet(Pairs)
  <2> DEFINE pairAt == [i \in 1..Len(Log) |-> <<Log[i].event.run, Log[i].by>>]
  <2>1. IsFiniteSet(1..Len(Log))
    BY <1>1, FS_Interval
  <2>2. pairAt \in Surjection(1..Len(Log), Pairs)
    BY <1>1 DEF Surjection
  <2> QED BY <2>1, <2>2, FS_Surjection
<1>4. first \in Bijection(Pairs, Single)
  <2>1. \A pair \in Pairs : \E i \in 1..Len(Log) :
            pair = <<Log[i].event.run, Log[i].by>> /\ first[pair] = Log[i].event.run
    BY <1>1
  <2>2. \A i \in 1..Len(Log) : <<Log[i].event.run, Log[i].by>> \in Pairs
    BY <1>1
  <2>3. first \in [Pairs -> Single]
    BY <1>1, <2>1
  <2>4. \A p, q \in Pairs : first[p] = first[q] => p = q
    <3> HIDE DEF first, Pairs
    <3> QED BY <1>2, <2>1
  <2>5. \A run \in Single : \E pair \in Pairs : first[pair] = run
    BY <1>1, <2>2
  <2> HIDE DEF first, Pairs, Single
  <2> QED BY <2>3, <2>4, <2>5 DEF Bijection, Injection, Surjection, IsInjective
<1> HIDE DEF first, Pairs, Single
<1>5. Cardinality(Pairs) = Cardinality(Single)
  BY <1>3, <1>4, FS_Bijection DEF ExistsBijection
<1> QED BY <1>5 DEF RunIsOneExecution, Pairs, Single

\* The events of a run come from one execution, however many executions follow one
\* another and wherever they break off: the first step of each is expected to open its
\* run, and a run is opened once (runner.ts:103-214, lifecycle.go:74-84).
THEOREM OneExecutionPerRun == SimulationSpec => []RunIsOneExecution
<1>1. SimulationSpec => []SimulationInv
  BY SimulationInitial, SimulationKept, PTL DEF SimulationSpec
<1> QED BY <1>1, WholeIsOneExecution, PTL
=============================================================================
