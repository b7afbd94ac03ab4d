-------------------------- MODULE MCAgentLoopSlots --------------------------
(* Small instances of AgentLoopSlots for TLC. *)
EXTENDS AgentLoopSlots

CONSTANTS w1, a1, a2, a3

OneWorker  == {w1}
ThreeLoops == {a1, a2, a3}
OnThree    == [l \in ThreeLoops |-> w1]
=============================================================================
