-------------------------------- MODULE Panes --------------------------------
(* The pane arrangement of the workspace and its two focus modes                *)
(* (state/uiStore.ts), the URL that asks for deep focus                          *)
(* (routes/pages/WorkspacePage.tsx), and the part of the store that outlives a   *)
(* reload.  The panel group is a library; here it only reports what the user     *)
(* drags.                                                                         *)
EXTENDS Missing, Integers, Sequences

CONSTANTS Layouts,                    \* the splits the user may drag to
          DefaultLayout, DeepLayout,  \* DEFAULT_PANE_LAYOUT, DEEP_FOCUS_PANE_LAYOUT
          FocusTargets                \* DeepFocusTarget

ASSUME PanesAssumption ==
    /\ {DefaultLayout, DeepLayout} \subseteq Layouts
    /\ None \notin FocusTargets
    /\ None \notin [layout : Layouts, left : BOOLEAN, right : BOOLEAN]

VARIABLES mounted,      \* the workspace page is shown
          url,          \* search.focus
          due,          \* the effect that mirrors it has not run yet
          panes,        \* layout, leftCollapsed, rightCollapsed
          deepFocus, architectureFocus,
          beforeDeep,   \* paneStateBeforeDeepFocus
          beforeArch,   \* paneStateBeforeArchitectureFocus
          beforeModes,  \* paneStateBeforeFocusModes
          stack,        \* focusModeStack
          own           \* what the user arranged outside of both modes

store == <<panes, deepFocus, architectureFocus, beforeDeep, beforeArch, beforeModes, stack>>
paneVars == <<mounted, url, due, store, own>>

Arrangements == [layout : Layouts, left : BOOLEAN, right : BOOLEAN]
Noted == Arrangements \cup {None}

\* The part of the arrangement that is kept when a mode is entered: what is there,
\* unless something was kept before.
Kept(note) == IF note = None THEN panes ELSE note

Entered(mode) == \E i \in 1..Len(stack) : stack[i] = mode
Push(mode) == IF Entered(mode) THEN stack ELSE Append(stack, mode)

\* The stack without a mode: of the two modes only the other one can remain.
Remaining(mode) ==
    LET other == IF mode = "deep" THEN "architecture" ELSE "deep"
    IN  IF Entered(other) THEN <<other>> ELSE <<>>
OnTop(mode) == Len(stack) > 0 /\ stack[Len(stack)] = mode

EnterDeepFocus(target) ==
    /\ deepFocus' = target
    /\ stack' = Push("deep")
    /\ beforeModes' = Kept(beforeModes)
    /\ beforeDeep' = Kept(beforeDeep)
    /\ panes' = [layout |-> DeepLayout, left |-> TRUE, right |-> FALSE]
    /\ UNCHANGED <<architectureFocus, beforeArch>>

\* Mutant: the arrangement of the inner mode is taken for the user's.
InnerNote(rest, mine, other, mode) == IF rest = <<>> \/ OnTop(mode) THEN mine ELSE other

\* What a mode that is left gives back: the user's own arrangement when it was
\* the last one, else what the inner of the two modes replaced.
Previous(rest, mine, other, mode) ==
    IF rest = <<>> THEN (IF beforeModes # None THEN beforeModes ELSE mine)
    ELSE IF OnTop(mode) THEN mine ELSE other

ExitDeepFocus ==
    IF deepFocus = None /\ beforeDeep = None THEN UNCHANGED store
    ELSE LET rest == Remaining("deep")
             previous == Previous(rest, beforeDeep, beforeArch, "deep")
         IN  /\ deepFocus' = None
             /\ beforeDeep' = None
             /\ beforeModes' = IF rest = <<>> THEN None ELSE beforeModes
             /\ stack' = rest
             /\ panes' = [layout |-> IF previous = None THEN DefaultLayout ELSE previous.layout,
                          left |-> rest # <<>> \/ (previous # None /\ previous.left),
                          right |-> rest # <<>> \/ (previous # None /\ previous.right)]
             /\ UNCHANGED <<architectureFocus, beforeArch>>

EnterArchitectureFocus ==
    /\ architectureFocus' = TRUE
    /\ stack' = Push("architecture")
    /\ beforeModes' = Kept(beforeModes)
    /\ beforeArch' = Kept(beforeArch)
    /\ panes' = [panes EXCEPT !.left = TRUE, !.right = TRUE]
    /\ UNCHANGED <<deepFocus, beforeDeep>>

\* Under deep focus the split stays as the user may have dragged it.
ExitArchitectureFocus ==
    LET rest == Remaining("architecture")
        previous == Previous(rest, beforeArch, beforeDeep, "architecture")
    IN  /\ architectureFocus' = FALSE
        /\ beforeArch' = None
        /\ beforeModes' = IF rest = <<>> THEN None ELSE beforeModes
        /\ stack' = rest
        /\ panes' = [layout |-> IF rest # <<>> \/ previous = None THEN panes.layout ELSE previous.layout,
                     left |-> rest # <<>> \/ (previous # None /\ previous.left),
                     right |-> rest = <<>> /\ previous # None /\ previous.right]
        /\ UNCHANGED <<deepFocus, beforeDeep>>

\* partialize: the first note there is, or the arrangement itself.
Persisted ==
    CASE beforeModes # None -> beforeModes
      [] beforeModes = None /\ beforeDeep # None -> beforeDeep
      [] beforeModes = None /\ beforeDeep = None /\ beforeArch # None -> beforeArch
      [] OTHER -> panes

-----------------------------------------------------------------------------

\* The user drags a separator, or folds or unfolds a side pane: setLayout,
\* setLeftCollapsed, setRightCollapsed and their toggles.
Arrange(next) ==
    /\ mounted
    /\ panes' = next
    /\ own' = IF stack = <<>> THEN next ELSE own
    /\ UNCHANGED <<mounted, url, due, deepFocus, architectureFocus, beforeDeep, beforeArch,
                   beforeModes, stack>>
SetLayout(layout) == Arrange([panes EXCEPT !.layout = layout])
SetLeftCollapsed(folded) == Arrange([panes EXCEPT !.left = folded])
SetRightCollapsed(folded) == Arrange([panes EXCEPT !.right = folded])

\* setFocus, Escape, the back button or a link.
Navigate(target) ==
    /\ mounted
    /\ url' = target
    /\ due' = (due \/ target # url)
    /\ UNCHANGED <<mounted, store, own>>

\* URL -> deep-focus layout, on mount and whenever search.focus has changed.
MirrorFocus ==
    /\ mounted /\ due
    /\ due' = FALSE
    /\ IF url # None THEN EnterDeepFocus(url) ELSE ExitDeepFocus
    /\ UNCHANGED <<mounted, url, own>>

ToggleArchitectureFocus ==
    /\ mounted
    /\ IF architectureFocus THEN ExitArchitectureFocus ELSE EnterArchitectureFocus
    /\ UNCHANGED <<mounted, url, due, own>>

\* Another page of the cockpit: the store stays, the effects do not run.
LeavePage ==
    /\ mounted
    /\ mounted' = FALSE
    /\ due' = FALSE
    /\ UNCHANGED <<url, store, own>>

VisitPage(target) ==
    /\ ~mounted
    /\ mounted' = TRUE
    /\ url' = target
    /\ due' = TRUE
    /\ UNCHANGED <<store, own>>

\* The store begins with the arrangement it had persisted, and no mode.
Reload ==
    /\ panes' = Persisted
    /\ deepFocus' = None /\ architectureFocus' = FALSE
    /\ beforeDeep' = None /\ beforeArch' = None /\ beforeModes' = None
    /\ stack' = <<>>
    /\ due' = mounted
    /\ UNCHANGED <<mounted, url, own>>

PanesInit ==
    /\ mounted = FALSE
    /\ url = None
    /\ due = FALSE
    /\ panes = [layout |-> DefaultLayout, left |-> FALSE, right |-> FALSE]
    /\ deepFocus = None /\ architectureFocus = FALSE
    /\ beforeDeep = None /\ beforeArch = None /\ beforeModes = None
    /\ stack = <<>>
    /\ own = panes

PanesNext ==
    \/ \E layout \in Layouts : SetLayout(layout)
    \/ \E folded \in BOOLEAN : SetLeftCollapsed(folded) \/ SetRightCollapsed(folded)
    \/ \E target \in FocusTargets \cup {None} : Navigate(target) \/ VisitPage(target)
    \/ MirrorFocus
    \/ ToggleArchitectureFocus
    \/ LeavePage
    \/ Reload

PanesSpec == PanesInit /\ [][PanesNext]_paneVars

-----------------------------------------------------------------------------
(* Properties.                                                                  *)

PanesTypeOK ==
    /\ mounted \in BOOLEAN /\ due \in BOOLEAN /\ architectureFocus \in BOOLEAN
    /\ url \in FocusTargets \cup {None}
    /\ deepFocus \in FocusTargets \cup {None}
    /\ panes \in Arrangements /\ own \in Arrangements
    /\ beforeDeep \in Noted /\ beforeArch \in Noted /\ beforeModes \in Noted
    /\ stack \in {<<>>, <<"deep">>, <<"architecture">>, <<"deep", "architecture">>,
                  <<"architecture", "deep">>}

\* Whatever order the two modes are entered and left in, whatever the user drags
\* or unfolds meanwhile, and whenever the page is left or reloaded: outside of the
\* modes the panes are as the user arranged them, and inside of them that is the
\* arrangement a reload comes back with (uiStore.ts:352 and 467-470).
ArrangementSurvives ==
    /\ deepFocus = None /\ ~architectureFocus => panes = own
    /\ Persisted = own

\* The stack, the flags and the notes name the same modes, and deep focus is what
\* the URL asked for when the effect last ran.
PanesInv ==
    /\ PanesTypeOK
    /\ Entered("deep") <=> deepFocus # None
    /\ Entered("deep") <=> beforeDeep # None
    /\ Entered("architecture") <=> architectureFocus
    /\ Entered("architecture") <=> beforeArch # None
    /\ mounted /\ ~due => deepFocus = url
    /\ IF stack = <<>> THEN beforeModes = None /\ panes = own ELSE beforeModes = own
=============================================================================
