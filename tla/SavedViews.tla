------------------------------ MODULE SavedViews ------------------------------
(* The saved views of one project beside its architecture model                    *)
(* (backend/internal/store/view_commands.go, views.go).  A view refers to            *)
(* components and relationships of the model and is written under the same project   *)
(* row lock, so a command is one step; the model moves on without its views.         *)
(* Names, kinds and orientations are left out, and so is the retry of a command      *)
(* (EventLog).  An agent counts as having read what one of its snapshots contained:  *)
(* the list of views, which has revisions but no definitions, is no such read.       *)
EXTENDS ArchitectureModel

CONSTANTS Views, MaxViewRevision

VARIABLES
    views,        \* ArchitectureView: [revision, removed, definition] of every id
    viewReadAt,   \* the revision of a view an agent read, 0 before it read one
    \* history
    savedAt,      \* the model revision a view was saved at
    outdated,     \* [agent, view] of the agents whose view changed since they read it
    reader        \* [agent, view] of the command or capture that was the last step, or <<>>

viewVars == <<views, viewReadAt, savedAt, outdated, reader>>

-----------------------------------------------------------------------------
(* ResolveArchitectureView, for the graph p, e.                                    *)

\* A view of everything selects what there is.
Selects(definition, p) == IF definition.all THEN LiveComponents(p) ELSE definition.components
SelectsEdges(definition, e) == IF definition.all THEN LiveRelationships(e) ELSE definition.relationships

\* The components on the way up from a set of them, which it includes.
WithAncestors(p, ids) ==
    LET up[n \in 0..Cardinality(Components)] ==
            IF n = 0 THEN ids \intersect LiveComponents(p)
            ELSE up[n - 1] \union ({p[c] : c \in up[n - 1]} \intersect LiveComponents(p))
    IN  up[Cardinality(Components)]

MissingOf(definition, p, e) ==
    ((Selects(definition, p) \union definition.collapsed) \ LiveComponents(p))
        \union (SelectsEdges(definition, e) \ LiveRelationships(e))
BoundaryOf(definition, p, e) ==
    {r \in SelectsEdges(definition, e) \intersect LiveRelationships(e) :
        \E i \in {1, 2} : e[r][i] \notin Selects(definition, p) \intersect LiveComponents(p)}

\* validateViewReferences
Valid(definition, p, e) ==
    /\ MissingOf(definition, p, e) = {} /\ BoundaryOf(definition, p, e) = {}
    /\ definition.collapsed \subseteq WithAncestors(p, Selects(definition, p))

-----------------------------------------------------------------------------

Definitions ==
    {[all |-> TRUE, components |-> {}, relationships |-> {}, collapsed |-> c] : c \in SUBSET Components}
    \union {[all |-> FALSE, components |-> s, relationships |-> r, collapsed |-> {}] :
                s \in SUBSET Components, r \in SUBSET Relationships}

NoView == [revision |-> 0, removed |-> FALSE,
           definition |-> [all |-> FALSE, components |-> {}, relationships |-> {}, collapsed |-> {}]]

ViewsInit ==
    /\ Init
    /\ views = [v \in Views |-> NoView]
    /\ viewReadAt = [a \in Agents |-> [v \in Views |-> 0]]
    /\ savedAt = [v \in Views |-> 0]
    /\ outdated = {} /\ reader = <<>>

IsThere(v) == views[v].revision > 0 /\ ~views[v].removed

\* readSavedView with the model of the same snapshot; a removed view is not found.
ReadView(a, v) ==
    /\ IsThere(v)
    /\ Read(a)
    /\ viewReadAt' = [viewReadAt EXCEPT ![a][v] = views[v].revision]
    /\ outdated' = outdated \ {<<a, v>>}
    /\ reader' = <<>>
    /\ UNCHANGED <<views, savedAt>>

\* Mutant: the revision of the view may have moved on.
ReadOnce(a, v) == viewReadAt[a][v] <= views[v].revision

\* prepareViewWrite: the view is at the revision the agent read.
ExpectedView(a, v) == viewReadAt[a][v] = views[v].revision

\* applyViewCommand: the row of the view, one revision on.
Write(a, v, row) ==
    /\ views[v].revision < MaxViewRevision
    /\ views' = [views EXCEPT ![v] = [row EXCEPT !.revision = views[v].revision + 1]]
    /\ outdated' = outdated \union (Agents \X {v})
    /\ reader' = <<a, v>>
    /\ writer' = NoAgent
    /\ UNCHANGED <<parent, ends, identities, revision, readAt, used, behind, viewReadAt>>

\* view.saved
SaveView(a, v, definition) ==
    /\ ~views[v].removed
    /\ ExpectedView(a, v) /\ Expected(a)
    /\ Valid(definition, parent, ends)
    /\ Write(a, v, [views[v] EXCEPT !.definition = definition])
    /\ savedAt' = [savedAt EXCEPT ![v] = revision]

\* view.removed, whatever the model has become.
RemoveView(a, v) ==
    /\ IsThere(v)
    /\ ExpectedView(a, v)
    /\ Write(a, v, [views[v] EXCEPT !.removed = TRUE])
    /\ UNCHANGED savedAt

\* CaptureViewSnapshot: what is rendered is the model and the view the agent read.
CaptureView(a, v) ==
    /\ IsThere(v)
    /\ Expected(a) /\ ExpectedView(a, v)
    /\ reader' = <<a, v>> /\ writer' = NoAgent
    /\ UNCHANGED <<parent, ends, identities, revision, readAt, used, behind,
                   views, viewReadAt, savedAt, outdated>>

\* A write of the model leaves the views alone.
WriteModel ==
    /\ Next
    /\ reader' = <<>>
    /\ UNCHANGED <<views, viewReadAt, savedAt, outdated>>

ViewsNext ==
    \/ WriteModel
    \/ \E a \in Agents, v \in Views :
           \/ ReadView(a, v)
           \/ \E definition \in Definitions : SaveView(a, v, definition)
           \/ RemoveView(a, v)
           \/ CaptureView(a, v)

ViewsSpec == ViewsInit /\ [][ViewsNext]_<<vars, viewVars>>

-----------------------------------------------------------------------------

\* A view is written and rendered by who has read it as it is, and saved and rendered
\* on the model that agent read; a removed one stays removed.
ViewsAreRead ==
    \A a \in Agents, v \in Views :
        reader' = <<a, v>> =>
            /\ <<a, v>> \notin outdated
            /\ views'[v].removed \/ a \notin behind

\* While the model is the one a view was saved on, the view has all it refers to; what it
\* misses later is gone for good, as ids are not used again, until it is saved anew.
ViewsMissWhatIsGone ==
    \A v \in Views :
        LET before == MissingOf(views[v].definition, parent, ends)
            after == MissingOf(views'[v].definition, parent', ends')
        IN  /\ savedAt'[v] = revision' /\ views'[v].revision > 0 => after = {}
            /\ views[v].definition = views'[v].definition => before \subseteq after
            /\ views[v].removed => views'[v] = views[v]
=============================================================================
