---------------------------- MODULE MCSdpoTurns ----------------------------
(* A rollout of up to three turns in five tokens, and two ranks.            *)
EXTENDS SdpoTurns
=============================================================================
