---------------------------- MODULE MCSdpoLaunch ----------------------------
(* A small instance of SdpoLaunch for TLC: one stage, no held-out tasks.   *)
EXTENDS SdpoLaunch

CONSTANTS stageA

OnlyStageA == {stageA}
EvalOff    == {NoEval}

\* The launcher reads what the loop writes and nothing of its servers, and a
\* loop writes nothing beside orphans that it does not write without them: so
\* a behaviour has a launch at work or servers that load without a loop, and
\* it is not followed beyond the end of the launch.
LaunchOrOrphans ==
    /\ sdpo.pc # "over"
    /\ sdpo.pc = "idle" \/ orphans = {}
=============================================================================
