--------------------------- MODULE MCDifficultyProbe ---------------------------
(* Small instances of DifficultyProbe for TLC. *)
EXTENDS DifficultyProbe

CONSTANTS modelA, modelB

TwoModels == {modelA, modelB}
================================================================================
