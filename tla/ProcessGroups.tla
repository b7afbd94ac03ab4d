---------------------------- MODULE ProcessGroups ----------------------------
(***************************************************************************)
(* The processes the outer RFT loop runs, src/src/trainer/                 *)
(* rft_runtime_loop.py: the vLLM server it starts and stops through        *)
(* VLLMServerController and the trainer it runs through _run_command.  The *)
(* two take turns on the GPUs.  Each is a Popen in a session of its own,   *)
(* hence a process group: a leader (the Popen'd process) and workers       *)
(* (vLLM engine processes, trainer ranks, data loaders) that may outlive   *)
(* it.  RftRuntimeLoop takes a start as two steps, the launch and the      *)
(* wait, and a stop as one; here they are the signals, waits and timeouts  *)
(* they consist of.                                                        *)
(*                                                                         *)
(* The loop process may be interrupted (KeyboardInterrupt, its handlers    *)
(* run) or killed (they do not): its groups live on, and the next loop     *)
(* finds them only through the address.                                    *)
(***************************************************************************)
EXTENDS Integers, FiniteSets

CONSTANTS
    Launches,       \* bound on the processes started
    MaxKills,       \* bound on kills of the loop
    MaxInterrupts,  \* bound on interrupts of the loop
    Lingers         \* a process may outlive SIGKILL by more than a wait

Group == 1 .. Launches
Model == 0 .. Launches   \* 0 is initial_model, g what trainer g produced
None  == 0

ASSUME BoundsAssumption ==
    /\ Launches \in Nat \ {0}
    /\ MaxKills \in Nat /\ MaxInterrupts \in Nat
    /\ Lingers \in BOOLEAN

VARIABLES
    \* processes
    kind,       \* per group: "none", "server" or "trainer"
    model,      \* per group: the model it serves or trains from
    leader,     \* per group: the state of its leader
    workers,    \* groups with a live process besides the leader
    \* the loop
    pc,
    handle,     \* VLLMServerController._process and _process_group_id
    target,     \* the group being stopped or cleaned up
    then,       \* where stop or cleanup returns to
    current,    \* current_model_path
    committed,  \* the model of the commit pointer (on disk)
    \* history
    mine,       \* groups this loop process started
    unseen,     \* groups that were loading when the last start looked
    cutShort,   \* groups whose cleanup did not run to its end
    kills, interrupts

processes == <<kind, model, leader, workers>>
loop      == <<pc, handle, target, then, current>>
history   == <<mine, unseen, cutShort, kills, interrupts>>
vars      == <<processes, loop, committed, history>>

LiveLeader == {"loading", "serving", "training"}
StopPc == {"terminated", "killed", "group", "group_term", "group_kill"}
RunPc  == {"start", "waiting", "collect", "train", "training", "resolve", "commit", "stop"}
             \cup StopPc

LeaderAlive(g) == leader[g] \in LiveLeader
Alive(g)       == LeaderAlive(g) \/ g \in workers

Unstarted == {g \in Group : kind[g] = "none"}
NextGroup == CHOOSE g \in Unstarted : TRUE

\* Who answers at vllm_base_url; every server is given the same model name,
\* so the name in /v1/models does not tell them apart.
Answering == {g \in Group : leader[g] = "serving"}

-----------------------------------------------------------------------------
(* Faulty variants of the definitions below *)

\* The address is not looked at before a launch.
AddressFreeAssumed == TRUE

\* A group is taken to be gone when its leader is.
GroupExistsLeaderOnly(g) == LeaderAlive(g)

\* A server that is not ready in time is given up without a cleanup.
ReadyTimesOutForgets ==
    /\ pc = "waiting"
    /\ Answering = {}
    /\ handle' = None
    /\ pc' = "stop"
    /\ then' = "idle"
    /\ UNCHANGED <<processes, target, current, committed, history>>

\* The wait for readiness has no deadline.
ReadyTimesOutNever == FALSE

-----------------------------------------------------------------------------
(* Signals and the waits for them *)

\* _is_http_endpoint_ready without an expected name
AddressFree == Answering = {}

\* _process_group_exists
GroupExists(g) == Alive(g)

\* What SIGKILL leaves: nothing, or what cannot be killed yet.
AfterKill(live) == IF Lingers THEN {live, FALSE} ELSE {FALSE}

\* An exception leaves the try block of the run: finally stops the server.
\* It leaves the finally block: the process ends.
Raise == IF then = "idle" /\ pc \in StopPc \cup {"stop"}
         THEN pc' = "idle" /\ UNCHANGED then
         ELSE pc' = "stop" /\ then' = "idle"

\* stop or _cleanup_process_group returns.
Return == IF then = "raise"
          THEN pc' = "stop" /\ then' = "idle"
          ELSE pc' = then /\ UNCHANGED then

-----------------------------------------------------------------------------
(* VLLMServerController.start *)

OwnServerAlive == handle # None /\ LeaderAlive(handle)

StartRefused ==
    /\ pc = "start"
    /\ OwnServerAlive \/ ~AddressFree
    /\ Raise
    /\ UNCHANGED <<processes, handle, target, current, committed, history>>

Launch ==
    /\ pc = "start"
    /\ ~OwnServerAlive
    /\ AddressFree
    /\ Unstarted # {}
    /\ LET g == NextGroup IN
        /\ kind' = [kind EXCEPT ![g] = "server"]
        /\ model' = [model EXCEPT ![g] = current]
        /\ leader' = [leader EXCEPT ![g] = "loading"]
        /\ workers' = workers \cup {g}
        /\ handle' = g
        /\ mine' = mine \cup {g}
        /\ unseen' = {h \in Group : leader[h] = "loading"}
    /\ pc' = "waiting"
    /\ UNCHANGED <<target, then, current, committed, cutShort, kills, interrupts>>

\* _wait_until_ready: whoever answers under the served name makes it return.
EndpointReady ==
    /\ pc = "waiting"
    /\ LeaderAlive(handle)
    /\ Answering # {}
    /\ pc' = IF current = committed THEN "collect" ELSE "commit"
    /\ UNCHANGED <<processes, handle, target, then, current, committed, history>>

\* The exception of _wait_until_ready starts the cleanup in start.
CleanUpStart ==
    /\ target' = handle
    /\ then' = "raise"
    /\ pc' = "group"

OwnServerExited ==
    /\ pc = "waiting"
    /\ ~LeaderAlive(handle)
    /\ CleanUpStart
    /\ UNCHANGED <<processes, handle, current, committed, history>>

ReadyTimesOut ==
    /\ pc = "waiting"
    /\ Answering = {}
    /\ CleanUpStart
    /\ UNCHANGED <<processes, handle, current, committed, history>>

-----------------------------------------------------------------------------
(* VLLMServerController.stop and _cleanup_process_group *)

StopWithoutProcess ==
    /\ pc = "stop"
    /\ handle = None
    /\ Return
    /\ UNCHANGED <<processes, handle, target, current, committed, history>>

\* The handle is cleared before the process is gone.
Stop ==
    /\ pc = "stop"
    /\ handle # None
    /\ target' = handle
    /\ handle' = None
    /\ pc' = IF LeaderAlive(handle) THEN "terminated" ELSE "group"
    /\ UNCHANGED <<processes, then, current, committed, history>>

LeaderExits ==
    /\ pc \in {"terminated", "killed"}
    /\ ~LeaderAlive(target)
    /\ pc' = "group"
    /\ UNCHANGED <<processes, handle, target, then, current, committed, history>>

TerminateTimesOut ==
    /\ pc = "terminated"
    /\ LeaderAlive(target)
    /\ \E live \in AfterKill(TRUE) :
        leader' = IF live THEN leader ELSE [leader EXCEPT ![target] = "failed"]
    /\ pc' = "killed"
    /\ UNCHANGED <<kind, model, workers, handle, target, then, current, committed, history>>

\* The second TimeoutExpired leaves stop before its group cleanup.
KillTimesOut ==
    /\ pc = "killed"
    /\ LeaderAlive(target)
    /\ cutShort' = cutShort \cup {target}
    /\ Raise
    /\ UNCHANGED <<processes, handle, target, current, committed, mine, unseen, kills, interrupts>>

\* start clears its handle once the cleanup is over.
GroupGone ==
    /\ pc \in {"group", "group_term", "group_kill"}
    /\ ~GroupExists(target)
    /\ handle' = IF handle = target THEN None ELSE handle
    /\ Return
    /\ UNCHANGED <<processes, target, current, committed, history>>

SignalGroup ==
    /\ pc = "group"
    /\ GroupExists(target)
    /\ pc' = "group_term"
    /\ UNCHANGED <<processes, handle, target, then, current, committed, history>>

KillGroup ==
    /\ pc = "group_term"
    /\ GroupExists(target)
    /\ \E l \in AfterKill(LeaderAlive(target)), w \in AfterKill(target \in workers) :
        /\ leader' = IF l = LeaderAlive(target) THEN leader
                     ELSE [leader EXCEPT ![target] = "failed"]
        /\ workers' = IF w THEN workers ELSE workers \ {target}
    /\ pc' = "group_kill"
    /\ UNCHANGED <<kind, model, handle, target, then, current, committed, history>>

\* The answer of the last wait is not looked at.
KillGroupTimesOut ==
    /\ pc = "group_kill"
    /\ GroupExists(target)
    /\ cutShort' = cutShort \cup {target}
    /\ handle' = IF handle = target THEN None ELSE handle
    /\ Return
    /\ UNCHANGED <<processes, target, current, committed, mine, unseen, kills, interrupts>>

-----------------------------------------------------------------------------
(* The step around them: collect, stop, train, serve the new model, commit *)

Collect ==
    /\ pc = "collect"
    /\ Unstarted # {}
    /\ pc' = "stop"
    /\ then' = "train"
    /\ UNCHANGED <<processes, handle, target, current, committed, history>>

\* An exception, or no step left.
CollectEndsRun ==
    /\ pc = "collect"
    /\ Raise
    /\ UNCHANGED <<processes, handle, target, current, committed, history>>

\* _run_command: Popen of torch.distributed.run
Train ==
    /\ pc = "train"
    /\ LET g == NextGroup IN
        /\ kind' = [kind EXCEPT ![g] = "trainer"]
        /\ model' = [model EXCEPT ![g] = current]
        /\ leader' = [leader EXCEPT ![g] = "training"]
        /\ workers' = workers \cup {g}
        /\ target' = g
        /\ mine' = mine \cup {g}
    /\ pc' = "training"
    /\ UNCHANGED <<handle, then, current, committed, unseen, cutShort, kills,
                   interrupts>>

\* The output ends and the leader is waited for; then its group is cleaned up.
TrainerExited ==
    /\ pc = "training"
    /\ ~LeaderAlive(target)
    /\ pc' = "group"
    /\ then' = IF leader[target] = "ended" THEN "resolve" ELSE "raise"
    /\ UNCHANGED <<processes, handle, target, current, committed, history>>

\* resolve_latest_hf_checkpoint and materialize_vllm_compatible_checkpoint; the
\* server is restarted when another step remains.
Resolve ==
    /\ pc = "resolve"
    /\ current' = target
    /\ pc' = IF Unstarted = {} THEN "commit" ELSE "start"
    /\ UNCHANGED <<processes, handle, target, then, committed, history>>

\* No checkpoint, no export, or a merge that fails.
ResolveFails ==
    /\ pc = "resolve"
    /\ Raise
    /\ UNCHANGED <<processes, handle, target, current, committed, history>>

Commit ==
    /\ pc = "commit"
    /\ committed' = current
    /\ pc' = IF handle = None THEN "stop" ELSE "collect"
    /\ then' = IF handle = None THEN "idle" ELSE then
    /\ UNCHANGED <<processes, handle, target, current, history>>

\* A loop process starts and resumes from the commit.
BeginSession ==
    /\ pc = "idle"
    /\ Unstarted # {}
    /\ pc' = "start"
    /\ current' = committed
    /\ handle' = None
    /\ mine' = {}
    /\ then' = "raise"
    /\ UNCHANGED <<processes, target, committed, unseen, cutShort, kills, interrupts>>

-----------------------------------------------------------------------------
(* Interrupts, kills, and what the processes do by themselves *)

\* The group nobody cleans up when an interrupt leaves stop, or finally.
GivenUp == IF pc \in StopPc THEN {target} \ {handle}
           ELSE IF pc = "stop" /\ then = "idle" THEN {handle} \ {None} ELSE {}

\* KeyboardInterrupt: _run_command cleans its group up; elsewhere it reaches
\* the finally block, which stops what the handle still holds.
Interrupt ==
    /\ pc \in RunPc
    /\ interrupts < MaxInterrupts
    /\ interrupts' = interrupts + 1
    /\ IF pc = "training"
       THEN pc' = "group" /\ then' = "raise" /\ UNCHANGED cutShort
       ELSE /\ Raise
            /\ cutShort' = cutShort \cup GivenUp
    /\ UNCHANGED <<processes, handle, target, current, committed, mine, unseen, kills>>

KillLoop ==
    /\ pc \in RunPc
    /\ kills < MaxKills
    /\ kills' = kills + 1
    /\ pc' = "idle"
    /\ handle' = None
    /\ mine' = {}
    /\ UNCHANGED <<processes, target, then, current, committed, unseen, cutShort, interrupts>>

\* A server that has loaded takes the address, or exits when it is taken.
ServerLoads(g) ==
    /\ leader[g] = "loading"
    /\ leader' = [leader EXCEPT ![g] = IF Answering = {} THEN "serving" ELSE "failed"]
    /\ UNCHANGED <<kind, model, workers, loop, committed, history>>

TrainerEnds(g) ==
    /\ leader[g] = "training"
    /\ leader' = [leader EXCEPT ![g] = "ended"]
    /\ UNCHANGED <<kind, model, workers, loop, committed, history>>

LeaderDies(g) ==
    /\ LeaderAlive(g)
    /\ leader' = [leader EXCEPT ![g] = "failed"]
    /\ UNCHANGED <<kind, model, workers, loop, committed, history>>

WorkersEnd(g) ==
    /\ g \in workers
    /\ ~LeaderAlive(g)
    /\ workers' = workers \ {g}
    /\ UNCHANGED <<kind, model, leader, loop, committed, history>>

-----------------------------------------------------------------------------
Init ==
    /\ kind = [g \in Group |-> "none"]
    /\ model = [g \in Group |-> 0]
    /\ leader = [g \in Group |-> "none"]
    /\ workers = {}
    /\ pc = "idle"
    /\ handle = None /\ target = None
    /\ then = "idle"
    /\ current = 0 /\ committed = 0
    /\ mine = {} /\ unseen = {} /\ cutShort = {}
    /\ kills = 0 /\ interrupts = 0

Start   == StartRefused \/ Launch
Wait    == EndpointReady \/ OwnServerExited \/ ReadyTimesOut
StopSteps ==
    \/ StopWithoutProcess \/ Stop \/ LeaderExits \/ TerminateTimesOut \/ KillTimesOut
    \/ GroupGone \/ SignalGroup \/ KillGroup \/ KillGroupTimesOut
RunSteps == Collect \/ CollectEndsRun \/ Train \/ TrainerExited \/ Resolve \/ ResolveFails \/ Commit
Environment ==
    \E g \in Group : ServerLoads(g) \/ TrainerEnds(g) \/ LeaderDies(g) \/ WorkersEnd(g)

Next == Start \/ Wait \/ StopSteps \/ RunSteps \/ BeginSession
        \/ Interrupt \/ KillLoop \/ Environment

\* A start polls to its deadline and a stop waits to its deadlines; how long
\* a collection or a training takes, and what processes do, is not bounded.
Spec == Init /\ [][Next]_vars /\ WF_vars(Start) /\ WF_vars(Wait) /\ WF_vars(StopSteps)

-----------------------------------------------------------------------------
(* Properties *)

\* Types, and the handle is a server of this loop process.
TypeOK ==
    /\ kind \in [Group -> {"none", "server", "trainer"}]
    /\ model \in [Group -> Model]
    /\ leader \in [Group -> LiveLeader \cup {"none", "ended", "failed"}]
    /\ workers \subseteq Group
    /\ pc \in RunPc \cup {"idle"}
    /\ handle = None \/ (handle \in mine /\ kind[handle] = "server")
    /\ target \in Group \cup {None}
    /\ then \in {"idle", "train", "raise", "resolve"}
    /\ current \in Model /\ committed \in Model
    /\ mine \subseteq Group /\ unseen \subseteq Group /\ cutShort \subseteq Group
    /\ kills \in 0 .. MaxKills /\ interrupts \in 0 .. MaxInterrupts

\* Rollouts come from the model the loop asked for.  The refusal of an
\* occupied address (start, rft_runtime_loop.py:278) leaves one way to another
\* model: an orphan of a killed loop that was still loading when start looked.
CollectsFromItsModel ==
    pc = "collect" => \A g \in Answering : model[g] = current \/ g \in unseen

\* While the trainer runs, no process of this loop's servers is left on the
\* GPUs, unless it could not be killed in time or an interrupt cut its stop
\* short: the group cleanup also finds workers whose leader has died.
TrainerHasTheGpus ==
    pc \in {"train", "training"} =>
        \A g \in mine : kind[g] = "server" /\ Alive(g) => g \in cutShort

\* A loop that ends by itself, with a result, an exception or an interrupt,
\* leaves no process behind, with the same two exceptions.  (With
\* the types.)
NothingOutlivesTheLoop ==
    /\ TypeOK
    /\ pc = "idle" => \A g \in mine : Alive(g) => g \in cutShort

\* A start and a stop come to an end whatever the processes do.
StartAndStopEnd ==
    /\ (pc \in {"start", "waiting"}) ~> (pc \notin {"start", "waiting"})
    /\ (pc \in StopPc \cup {"stop"}) ~> (pc \notin StopPc \cup {"stop"})
=============================================================================
