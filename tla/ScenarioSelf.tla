----------------------------- MODULE ScenarioSelf -----------------------------
(* The run that reports on this repository (simulator/src/scenarios/self.ts),    *)
(* the model it publishes (selfArchitecture.ts) and its diffs (selfDiffs.ts).    *)
EXTENDS Scenario

Subagents == {"contractAgent", "platform", "eventStore", "frontendShell", "backendApi", "simulator",
              "panes", "contractTypes", "verification"}
SelfAgents ==
    [agent \in {"root"} \cup Subagents |-> IF agent = "root" THEN Nobody ELSE "root"]

SelfDeployment ==
    [system |-> Top, nginx |-> "system", postgres |-> "system", contract |-> "system"]
SelfFrontend ==
    [frontend |-> "system", frontendApi |-> "frontend", frontendCanvas |-> "frontend",
     frontendComponents |-> "frontend", frontendInspector |-> "frontendComponents",
     frontendRunAgents |-> "frontendComponents", frontendRoutes |-> "frontend",
     frontendState |-> "frontend", frontendLib |-> "frontend",
     frontendBackendStatus |-> "frontend"]
SelfBackend ==
    [backend |-> "system", backendCmd |-> "backend", backendHttpapi |-> "backend",
     backendIngest |-> "backend", backendReadapi |-> "backend", backendSse |-> "backend",
     backendStore |-> "backend", backendConfig |-> "backend",
     backendDatabase |-> "backend", backendHealth |-> "backend",
     backendLogging |-> "backend"]
SelfClients ==
    [simulator |-> "system", e2e |-> "system", browser |-> Top]
SelfComponents == SelfDeployment @@ SelfFrontend @@ SelfBackend @@ SelfClients

SelfEntryRelationships ==
    [browserBundle |-> <<"browser", "nginx">>,
     frontendRead |-> <<"frontendApi", "nginx">>,
     frontendStream |-> <<"frontendApi", "nginx">>,
     simulatorIngest |-> <<"simulator", "nginx">>, e2eEntry |-> <<"e2e", "nginx">>,
     e2eSimulator |-> <<"e2e", "simulator">>, nginxApi |-> <<"nginx", "backendHttpapi">>,
     nginxStream |-> <<"nginx", "backendHttpapi">>]
SelfBackendRelationships ==
    [httpapiIngest |-> <<"backendHttpapi", "backendIngest">>,
     httpapiReadapi |-> <<"backendHttpapi", "backendReadapi">>,
     httpapiSse |-> <<"backendHttpapi", "backendSse">>,
     httpapiHealth |-> <<"backendHttpapi", "backendHealth">>,
     ingestStore |-> <<"backendIngest", "backendStore">>,
     readapiStore |-> <<"backendReadapi", "backendStore">>,
     sseStore |-> <<"backendSse", "backendStore">>,
     sseIngest |-> <<"backendSse", "backendIngest">>,
     ingestPublish |-> <<"backendIngest", "backendSse">>,
     storeDb |-> <<"backendStore", "postgres">>,
     databaseDb |-> <<"backendDatabase", "postgres">>,
     cmdHttpapi |-> <<"backendCmd", "backendHttpapi">>,
     cmdConfig |-> <<"backendCmd", "backendConfig">>,
     cmdDatabase |-> <<"backendCmd", "backendDatabase">>,
     cmdLogging |-> <<"backendCmd", "backendLogging">>,
     ingestContract |-> <<"backendIngest", "contract">>,
     simulatorContract |-> <<"simulator", "contract">>]
SelfFrontendRelationships ==
    [canvasApi |-> <<"frontendCanvas", "frontendApi">>,
     componentsApi |-> <<"frontendComponents", "frontendApi">>,
     stateApi |-> <<"frontendState", "frontendApi">>,
     routesApi |-> <<"frontendRoutes", "frontendApi">>,
     routesComponents |-> <<"frontendRoutes", "frontendComponents">>,
     componentsCanvas |-> <<"frontendComponents", "frontendCanvas">>,
     componentsState |-> <<"frontendComponents", "frontendState">>,
     canvasState |-> <<"frontendCanvas", "frontendState">>,
     componentsLib |-> <<"frontendComponents", "frontendLib">>,
     canvasLib |-> <<"frontendCanvas", "frontendLib">>]
SelfRelationships == SelfEntryRelationships @@ SelfBackendRelationships @@ SelfFrontendRelationships

\* What the run adds to the model, or only proposes.
SelfExtraComponents == [frontendGenerated |-> "frontendApi", repositoryProvider |-> Top]
SelfExtraRelationships ==
    [frontendApiContract |-> <<"frontendApi", "contract">>,
     nginxProbes |-> <<"nginx", "backendHttpapi">>,
     fullReplayStream |-> <<"frontendState", "nginx">>]

\* planSteps(withTypes, done): the work packages in the order they were merged.
Packages(withTypes) ==
    <<<<"contract", {"contract"}>>,
      <<"platform", {"system", "nginx", "postgres", "backend", "frontend"}>>,
      <<"store", {"backendStore", "postgres"}>>,
      <<"shell", {"frontend", "frontendRoutes", "frontendApi", "frontendState"}>>,
      <<"ingest", {"backendIngest", "contract"}>>, <<"readapi", {"backendReadapi"}>>,
      <<"simulator", {"simulator", "contract"}>>, <<"sse", {"backendSse", "frontendApi"}>>,
      <<"canvas", {"frontendCanvas"}>>>>
    \o (IF withTypes THEN <<<<"types", {"frontendApi", "frontendGenerated", "contract"}>>>> ELSE <<>>)
    \o <<<<"runAgents", {"frontendRunAgents"}>>, <<"inspector", {"frontendInspector"}>>,
         <<"overlays", {"frontendState", "frontendCanvas"}>>, <<"docs", {"system"}>>,
         <<"acceptance", {"e2e", "nginx"}>>>>
PlanSteps(withTypes, done) ==
    LET ordered == Packages(withTypes)
    IN  [i \in DOMAIN ordered |->
            <<ordered[i][1],
              IF i <= done THEN "done" ELSE IF i = done + 1 THEN "in_progress" ELSE "pending",
              ordered[i][2]>>]

\* The diffs it quotes (selfDiffs.ts).
PackageJsonDiff ==
    Diff("contractTypes", "package.json", "generateContractTypes", {"frontendApi", "frontendGenerated"})
TypesDiff == Diff("contractTypes", "types.ts", "generateContractTypes", {"frontendApi", "contract"})
GeneratedTypesDiff == Diff("contractTypes", "contract.ts", "generateContractTypes", {"frontendGenerated"})
BackendStatusDiff ==
    Diff("frontendShell", "backendStatus.ts", "dropBackendStatus", {"frontendBackendStatus", "frontendApi"})
ContractProbeDiff == Diff("verification", "openapi.yaml", "alignProbeReachability", {"contract", "nginx"})
NginxTemplateDiff == Diff("verification", "default.conf.template", "alignProbeReachability", {"nginx"})
StoreLockDiff == Diff("eventStore", "store.go", "", {"backendStore", "postgres"})

\* How an agent of this run ends: 100 percent, done, finished.
Ends(agent) == <<Progress(agent), Status(agent), Finished(agent)>>

SelfRunStart == <<StartedRoot("root"), Status("root")>>

SelfArchitectureSnapshot ==
    <<WorkStarted("root", "map", "", {"system", "nginx", "backend", "frontend", "postgres", "contract"}),
      Snapshot("root", SelfComponents, SelfRelationships), WorkCompleted("root", "map")>>

SelfPlan == <<PlanPublished("root", 1, PlanSteps(FALSE, 0)), Progress("root")>>

SelfSubagentsSpawn ==
    <<Started("contractAgent"), Started("platform"), Started("eventStore"), Started("frontendShell"),
      Started("backendApi"), Started("simulator"), Started("panes"), Started("verification")>>

\* The claim that is corrected further down.
ProbeClaim == Feedback("contractAgent", "probeBoundary", {"contract", "nginx"})

SelfEventContract ==
    <<Status("contractAgent"), WorkStarted("contractAgent", "contract", "contract", {"contract"}),
      ProbeClaim, WorkCompleted("contractAgent", "contract")>> \o Ends("contractAgent")

SelfComposeBaseline ==
    <<Status("platform"),
      WorkStarted("platform", "platform", "platform",
                  {"system", "nginx", "postgres", "backend", "frontend", "frontendBackendStatus"}),
      WorkCompleted("platform", "platform")>> \o Ends("platform")

SelfEventStore ==
    <<Status("eventStore"), WorkStarted("eventStore", "store", "store", {"backendStore", "postgres"}),
      StoreLockDiff, Feedback("eventStore", "positionAllocator", {"backendStore", "postgres"}),
      Risk("eventStore", {"backendStore", "postgres"}), WorkCompleted("eventStore", "store")>>
    \o Ends("eventStore")

SelfFrontendShell ==
    <<Status("frontendShell"),
      WorkStarted("frontendShell", "shell", "shell",
                  {"frontend", "frontendRoutes", "frontendApi", "frontendState", "frontendBackendStatus"}),
      ComponentPlanned("frontendShell", "dropBackendStatus", "remove", "frontendBackendStatus", "frontend"),
      BackendStatusDiff,
      ComponentApplied("frontendShell", "dropBackendStatus", "remove", "frontendBackendStatus", "frontend"),
      WorkCompleted("frontendShell", "shell")>> \o Ends("frontendShell")

SelfBackendSurface ==
    <<Status("backendApi"),
      WorkStarted("backendApi", "backendApi", "ingest",
                  {"backendHttpapi", "backendIngest", "backendReadapi", "backendSse", "backendStore",
                   "contract"}),
      Feedback("backendApi", "discriminator", {"backendIngest", "contract"}), Progress("backendApi"),
      Feedback("backendApi", "replayHandover", {"backendSse", "backendStore"}),
      Risk("backendApi", {"backendSse", "frontendApi"}), WorkCompleted("backendApi", "backendApi")>>
    \o Ends("backendApi")

SelfEventSimulator ==
    <<Status("simulator"),
      WorkStarted("simulator", "simulator", "simulator", {"simulator", "contract", "nginx"}),
      WorkCompleted("simulator", "simulator")>> \o Ends("simulator")

SelfCanvas ==
    <<Status("panes"), WorkStarted("panes", "canvas", "canvas", {"frontendCanvas", "frontendState"}),
      Feedback("panes", "elkAndFitView", {"frontendCanvas"}), WorkCompleted("panes", "canvas"),
      Progress("panes"), Problem("panes", {"frontendApi", "contract"}), Status("panes")>>

SelfPlanRevision ==
    <<Status("root"), PlanPublished("root", 2, PlanSteps(TRUE, 9)), Started("contractTypes"),
      Progress("root")>>

SelfGeneratedTypes ==
    LET change == "generateContractTypes"
    IN  <<Status("contractTypes"),
          WorkStarted("contractTypes", "types", "types", {"frontendApi", "frontendGenerated", "contract"}),
          ComponentPlanned("contractTypes", change, "add", "frontendGenerated",
                           SelfExtraComponents.frontendGenerated),
          RelationshipPlanned("contractTypes", change, "add", "frontendApiContract",
                              SelfExtraRelationships.frontendApiContract),
          PackageJsonDiff, TypesDiff, GeneratedTypesDiff,
          ComponentApplied("contractTypes", change, "add", "frontendGenerated",
                           SelfExtraComponents.frontendGenerated),
          RelationshipApplied("contractTypes", change, "add", "frontendApiContract",
                              SelfExtraRelationships.frontendApiContract),
          WorkCompleted("contractTypes", "types")>>
        \o Ends("contractTypes") \o <<PlanStepUpdated("root", "types", "done")>>

\* Planned, then withdrawn.
FullReplayProposal ==
    RelationshipPlanned("panes", "fullReplayPerPageLoad", "add", "fullReplayStream",
                        SelfExtraRelationships.fullReplayStream)

SelfPanes ==
    <<Status("panes"),
      WorkStarted("panes", "panes", "runAgents",
                  {"frontendRunAgents", "frontendInspector", "frontendState", "frontendCanvas"}),
      Feedback("panes", "progressScopes", {"frontendRunAgents"}),
      Feedback("panes", "markdownSafety", {"frontendInspector"}), Progress("panes"),
      FullReplayProposal, Problem("panes", {"frontendState", "frontendCanvas"}),
      Retraction("panes", FullReplayProposal), WorkCompleted("panes", "panes")>>
    \o Ends("panes")
    \o <<PlanStepUpdated("root", "runAgents", "done"), PlanStepUpdated("root", "inspector", "done"),
         PlanStepUpdated("root", "overlays", "done")>>

SelfDocumentation ==
    <<Status("verification"),
      WorkStarted("verification", "docs", "docs", {"system", "nginx", "contract", "simulator"}),
      WorkCompleted("verification", "docs"), PlanStepUpdated("root", "docs", "done"),
      WorkStarted("verification", "acceptance", "acceptance", {"e2e", "nginx", "simulator"}),
      WorkCompleted("verification", "acceptance")>>

SelfCorrecting ==
    LET change == "alignProbeReachability"
    IN  <<WorkStarted("verification", "align", "", {"contract", "nginx", "backendHttpapi"}),
          RelationshipPlanned("verification", change, "add", "nginxProbes",
                              SelfExtraRelationships.nginxProbes),
          ContractProbeDiff, NginxTemplateDiff,
          RelationshipApplied("verification", change, "add", "nginxProbes",
                              SelfExtraRelationships.nginxProbes),
          Correction("verification", ProbeClaim,
                     Feedback("verification", "probeBoundary", {"contract", "nginx"})),
          WorkCompleted("verification", "align")>>
        \o Ends("verification") \o <<PlanStepUpdated("root", "acceptance", "done")>>

SelfOpenProposal ==
    <<ComponentPlanned("root", "repositoryProvider", "add", "repositoryProvider",
                       SelfExtraComponents.repositoryProvider)>>

SelfWindDown == <<Progress("root"), Status("root")>>

SelfScript ==
    SelfRunStart \o SelfArchitectureSnapshot \o SelfPlan \o SelfSubagentsSpawn
        \o SelfEventContract \o SelfComposeBaseline \o SelfEventStore \o SelfFrontendShell
        \o SelfBackendSurface \o SelfEventSimulator \o SelfCanvas \o SelfPlanRevision
        \o SelfGeneratedTypes \o SelfPanes \o SelfDocumentation \o SelfCorrecting
        \o SelfOpenProposal \o SelfWindDown
=============================================================================
