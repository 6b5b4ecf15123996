----------------------------- MODULE ScenarioFull -----------------------------
(* The representative run the demonstrations and the acceptance tests show       *)
(* (simulator/src/scenarios/full.ts) and the model it publishes                  *)
(* (architecture.ts), with its diffs (diffs.ts).                                 *)
EXTENDS Scenario

FullAgents == [root |-> Nobody, architect |-> "root", implementer |-> "root",
               reviewer |-> "implementer", tester |-> "implementer"]

FullComponents ==
    [system |-> Top, storefront |-> "system", gateway |-> "system", orders |-> "system",
     ordersApi |-> "orders", ordersDomain |-> "orders", pricing |-> "ordersDomain",
     legacyTaxRates |-> "ordersDomain", ordersPersistence |-> "orders", inventory |-> "system",
     notifications |-> "system", ordersDb |-> "system", events |-> "system",
     topicOrderCreated |-> "events", topicInventoryReserved |-> "events",
     sharedMoney |-> "system", paymentProvider |-> Top]

FullRelationships ==
    [storefrontGateway |-> <<"storefront", "gateway">>, gatewayOrders |-> <<"gateway", "ordersApi">>,
     ordersDbData |-> <<"ordersPersistence", "ordersDb">>, ordersPayment |-> <<"orders", "paymentProvider">>,
     ordersPublishesOrderCreated |-> <<"orders", "topicOrderCreated">>,
     inventoryConsumesOrderCreated |-> <<"topicOrderCreated", "inventory">>,
     notificationsConsumesOrderCreated |-> <<"topicOrderCreated", "notifications">>,
     inventoryPublishesReserved |-> <<"inventory", "topicInventoryReserved">>,
     notificationsConsumesReserved |-> <<"topicInventoryReserved", "notifications">>,
     pricingSharedMoney |-> <<"pricing", "sharedMoney">>,
     pricingLegacyTaxRates |-> <<"pricing", "legacyTaxRates">>]

\* What the run adds to the model, proposes, or takes away.
FullExtraComponents == [tax |-> "ordersDomain", rounding |-> "ordersDomain"]
FullExtraRelationships ==
    [pricingTax |-> <<"pricing", "tax">>, taxRounding |-> <<"tax", "rounding">>,
     notificationsOrdersHttp |-> <<"notifications", "ordersApi">>]

FullRunStart == <<StartedRoot("root"), Status("root")>>

\* Mutant: an agent is spawned before the one it belongs to.
FullReviewerFirst ==
    <<Started("architect"), Started("reviewer"), Started("implementer"), Started("tester")>>

FullSubagentsSpawn ==
    <<Started("architect"), Started("implementer"), Started("reviewer"), Started("tester")>>

FullArchitectureSnapshot ==
    <<Status("architect"),
      WorkStarted("architect", "map", "map", {"system", "orders", "ordersDomain", "pricing", "events"}),
      Snapshot("architect", FullComponents, FullRelationships),
      WorkCompleted("architect", "map"), Progress("architect")>>

FullPlan ==
    <<PlanPublished("root", 1, <<
          <<"map", "done", {"system"}>>, <<"extract", "in_progress", {"pricing", "tax"}>>,
          <<"review", "pending", {"pricing", "tax"}>>, <<"cover", "pending", {"tax"}>> >>),
      Progress("root")>>

\* Planned here and withdrawn again further down.
WithdrawnPlan ==
    RelationshipPlanned("architect", "notificationsReadsOrders", "add", "notificationsOrdersHttp",
                        FullExtraRelationships.notificationsOrdersHttp)

FullProposedChanges ==
    <<ComponentPlanned("architect", "addTax", "add", "tax", FullExtraComponents.tax),
      RelationshipPlanned("architect", "linkPricingToTax", "add", "pricingTax",
                          FullExtraRelationships.pricingTax),
      ComponentPlanned("architect", "dropLegacyTaxRates", "remove", "legacyTaxRates", "ordersDomain"),
      RelationshipPlanned("architect", "dropLegacyTaxDependency", "remove", "pricingLegacyTaxRates",
                          FullRelationships.pricingLegacyTaxRates),
      WithdrawnPlan>>

PricingDiff(components) == Diff("implementer", "pricing.go", "addTax", components)
TaxDiff == Diff("implementer", "tax.go", "addTax", {"tax"})
TaxTestDiff == Diff("implementer", "tax_test.go", "addTax", {"tax"})
LegacyRemovalDiff == Diff("implementer", "tax_rates.go", "dropLegacyTaxRates", {"legacyTaxRates"})
NotificationsDiff == Diff("implementer", "consumer.go", "", {"notifications"})

FullImplementation ==
    <<Status("implementer"),
      WorkStarted("implementer", "extract", "extract", {"pricing", "tax", "legacyTaxRates"}),
      PricingDiff({"pricing"}), TaxDiff, TaxTestDiff, Progress("implementer"),
      Correction("implementer", PricingDiff({"pricing"}), PricingDiff({"pricing", "tax"})),
      LegacyRemovalDiff, NotificationsDiff>>

FullAppliedChanges ==
    <<ComponentApplied("architect", "addTax", "add", "tax", FullExtraComponents.tax),
      RelationshipApplied("architect", "linkPricingToTax", "add", "pricingTax",
                          FullExtraRelationships.pricingTax),
      RelationshipApplied("architect", "dropLegacyTaxDependency", "remove", "pricingLegacyTaxRates",
                          FullRelationships.pricingLegacyTaxRates),
      ComponentApplied("architect", "dropLegacyTaxRates", "remove", "legacyTaxRates", "ordersDomain"),
      Retraction("architect", WithdrawnPlan)>>

FullReview ==
    <<Status("reviewer"), WorkStarted("reviewer", "review", "review", {"pricing", "tax"}),
      Feedback("reviewer", "discountOrder", {"pricing", "tax"}),
      Feedback("reviewer", "renamedFields", {"notifications", "topicOrderCreated"}),
      Risk("reviewer", {"pricing", "tax"}), Problem("reviewer", {"notifications"}),
      Progress("reviewer"), WorkCompleted("reviewer", "review"), Status("reviewer")>>

FullTests ==
    <<Status("tester"), WorkStarted("tester", "tests", "cover", {"tax"}), Status("tester"),
      WorkCompleted("tester", "tests"), Progress("tester"), Status("tester"), Finished("tester")>>

FullPlanRevision ==
    <<PlanPublished("root", 2, <<
          <<"map", "done", {"system"}>>, <<"extract", "done", {"pricing", "tax"}>>,
          <<"dropLegacy", "in_progress", {"legacyTaxRates"}>>,
          <<"review", "done", {"pricing", "tax"}>>, <<"cover", "done", {"tax"}>> >>),
      PlanStepUpdated("root", "dropLegacy", "done"), PlanStepUpdated("root", "review", "skipped"),
      Progress("root")>>

FullOpenProposals ==
    <<ComponentPlanned("architect", "addRounding", "add", "rounding", FullExtraComponents.rounding),
      RelationshipPlanned("architect", "linkTaxToRounding", "add", "taxRounding",
                          FullExtraRelationships.taxRounding)>>

FullWindDown ==
    <<Status("reviewer"), Finished("reviewer"), WorkCompleted("implementer", "extract"),
      Status("implementer"), Finished("implementer"), Status("architect"), Finished("architect"),
      Status("root")>>

FullScript(finish) ==
    FullRunStart \o FullSubagentsSpawn \o FullArchitectureSnapshot \o FullPlan
        \o FullProposedChanges \o FullImplementation \o FullAppliedChanges \o FullReview
        \o FullTests \o FullPlanRevision \o FullOpenProposals \o FullWindDown
        \o IF finish THEN <<RunFinished("root")>> ELSE <<>>
=============================================================================
