---------------------------- MODULE MCRunLifecycle ----------------------------
(* RunLifecycle, and the plans of runs that are led by their root alone (Plans); a      *)
(* behaviour explores one of the two.  No definition tells one run, one agent or one    *)
(* step of a plan from another.                                                          *)
EXTENDS Plans, TLC

VARIABLE withPlans

MCInit == PlansInit /\ withPlans \in BOOLEAN

MCNext ==
    /\ UNCHANGED withPlans
    /\ \/ ~withPlans /\ Next /\ UNCHANGED planVars
       \/ /\ withPlans /\ PlansNext
          /\ UNCHANGED <<reported, stepVars>>
          /\ \A r \in Runs, a \in Agents : a \in started'[r] => a = root'[r]

MCSpec == MCInit /\ [][MCNext]_<<vars, planVars, withPlans>>

Symmetry == Permutations(Runs) \union Permutations(Agents) \union Permutations(PlanStepIds)
===============================================================================
