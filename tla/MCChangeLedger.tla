--------------------------- MODULE MCChangeLedger ---------------------------
(* ChangeLedger and ChangeOverlays on one agent, one step, one change and two targets,  *)
(* and by themes: each behaviour reports events of one theme and whatever marks others, *)
(* since a change of a component meets a step only through the component they share.    *)
EXTENDS ChangeOverlays
CONSTANTS t1, t2, a1, s1, c1
Marks == {"retraction.issued", "correction.issued"}
MCThemes == {{"model.mutation_applied", "architecture.snapshot_published", "change_planned",
              "change_applied"} \union Marks,
             {"work.step_started", "work.step_completed", "work.scope_reported", "agent.finished",
              "run.finished", "change_applied"},
             {"work.step_started", "work.step_completed"} \union Marks,
             {"work.scope_reported", "work.step_started", "retraction.issued"}}
MCSymmetry == Permutations(Targets)
=============================================================================
