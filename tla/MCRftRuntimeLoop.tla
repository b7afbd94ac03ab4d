------------------------- MODULE MCRftRuntimeLoop -------------------------
(* Small instances of RftRuntimeLoop for TLC. *)
EXTENDS RftRuntimeLoop

CONSTANTS stageA, stageB, poolA, poolB

OnlyStageA == {stageA}
TwoStages  == {stageA, stageB}
EvalOff    == {NoEval}
ThreePools == {poolA, poolB, NoEval}
===========================================================================
