------------------------- MODULE MCRolloutCollector -------------------------
(* Instances of the collector for TLC: two tasks of a batch of up to three  *)
(* (a split may leave fewer), the second with a patch to apply.             *)
EXTENDS RolloutCollector

StepTasks == 1..2

SecondTask == {2}

BothStages == Stages
=============================================================================
