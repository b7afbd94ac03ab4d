--------------------------- MODULE RftRuntimeLoop ---------------------------
(***************************************************************************)
(* The outer RFT loop, src/src/trainer/rft_runtime_loop.py: collect        *)
(* rollouts with the served model, train on the selected rows, prune old   *)
(* checkpoints, write the step summary, the manifest and last the commit   *)
(* pointer, then serve the new checkpoint for the next step.  The process  *)
(* may abort with an exception or be killed between any two steps, and is  *)
(* restarted on the same output directory.  A server is launched, loads    *)
(* its model for a while and only then answers; one whose loop was killed  *)
(* goes on loading, or answering, without it.                              *)
(*                                                                         *)
(* On disk: the commit pointer, the manifest, and for every step its       *)
(* trainer_checkpoints tree, its rft_step_summary.json and its rollout     *)
(* payload.  In memory: everything else.  _write_json replaces a file      *)
(* atomically, so a JSON file is old or new; shutil.rmtree is not atomic,  *)
(* so a tree being deleted (or being trained) is "partial".                *)
(***************************************************************************)
EXTENDS Integers, FiniteSets

CONSTANTS
    RftSteps,    \* the largest rft_steps a session asks for
    Limits,      \* the values of rft_steps a session may ask for
    KeepLasts,   \* the values of checkpoint_keep_last a session may ask for
    Stages,      \* stage names
    EvalPools,   \* outcomes of validate_fixed_eval_task_pool
    NoEval,      \* the outcome with eval_task_count = 0
    MaxOrphans   \* bound on the models that orphaned servers load at a time

NoStep   == -1   \* no commit; as a model, config.initial_model
NoServer == -2   \* nothing answers at vllm_base_url
None     == "none"

Step  == 0 .. RftSteps - 1
Model == Step \cup {NoStep}

ASSUME StepsAssumption == RftSteps \in Nat \ {0} /\ Limits \subseteq 1 .. RftSteps
ASSUME OrphansAssumption == MaxOrphans \in Nat \ {0}
ASSUME KeepAssumption  == KeepLasts \subseteq Nat \ {0}
ASSUME SessionAssumption ==
    /\ Limits # {} /\ KeepLasts # {} /\ Stages # {} /\ EvalPools # {}
    /\ None \notin Stages /\ None \notin EvalPools

Session == [limit : Limits, keep : KeepLasts, stage : Stages, pool : EvalPools]

\* What a step summary tells the rest of the program about the step.
Entry == [step : Step, trained : BOOLEAN, stage : Stages, pool : EvalPools]

VARIABLES
    \* on disk
    commitPointer,  \* rft_latest_committed_checkpoint.json: [step, stage]
    manifest,       \* rft_runtime_loop_manifest.json: [exists, steps, pool]
    tree,           \* per step: "none", "partial" or "full" trainer_checkpoints
    summary,        \* the rft_step_summary.json files
    payload,        \* steps whose collector_artifacts and parquet are on disk
    \* the process
    pc, session, stepIndex, committed, pendingIndex, currentModel,
    ckptStepDirs,   \* checkpoint_step_dirs, ascending by construction
    steps,          \* runtime_manifest["steps"], ascending by construction
    \* the vLLM server
    endpoint,       \* the model that answers at vllm_base_url
    handle,         \* the controller's process: "none", "loading" (it does not
                    \* answer yet), "serving" or "exited"
    orphans,        \* models that servers of killed loops are still loading
    unseen          \* history: what answers took the address after the
                    \* controller looked at it, and is not its own server

disk   == <<commitPointer, manifest, tree, summary, payload>>
memory == <<session, stepIndex, committed, pendingIndex, currentModel,
            ckptStepDirs, steps>>
server == <<endpoint, handle, orphans, unseen>>
vars   == <<disk, pc, memory, server>>

IdlePc == {"idle", "refused", "done"}
\* The points at which the current step has its checkpoint, still uncommitted.
TrainedPc == {"restart", "restarting", "prune"}
RecordPc  == {"payload", "summary", "manifest", "pointer"}
StepPc == {"reset", "resetting", "collect", "stop", "train", "training"}
             \cup TrainedPc \cup RecordPc
RunPc  == {"launch", "launching"} \cup StepPc \cup {"finish", "final"}
\* The points at which the loop waits for the server it has just started.
WaitPc == {"launching", "restarting"}

DefaultSession == CHOOSE s \in Session : TRUE

-----------------------------------------------------------------------------
(* Faulty variants of the definitions below: each is a plausible slip in the *)
(* code, and each breaks a property of this module.                          *)

\* The manifest is trusted as it stands, entries of lost attempts included.
LoadedStepsUntrimmed == IF commitPointer.step = NoStep THEN {} ELSE manifest.steps

StageAcceptedAlways(s) == TRUE

\* A session resumes at the committed step, not after it.
FirstStepAgain == IF commitPointer.step = NoStep THEN 0 ELSE commitPointer.step

\* Only the trees of this session are subject to retention.
ExistingDirsForgotten == {}

\* One tree too many is pruned.
PruneOffByOne ==
    {d \in ckptStepDirs :
        Cardinality({e \in ckptStepDirs : e > d}) + 1 >= session.keep /\ d # pendingIndex}

\* A server is started at an address nobody looked at.
PopenUnchecked ==
    /\ handle \in {"none", "exited"}
    /\ handle' = "loading"
    /\ unseen' = FALSE
    /\ UNCHANGED <<endpoint, orphans>>

\* The handle is dropped and the process not terminated.
StopServerForgets ==
    /\ handle' = "none"
    /\ unseen' = FALSE
    /\ UNCHANGED <<endpoint, orphans>>

\* Resetting a step forgets its checkpoint tree.
ResetEndKeepsTree ==
    /\ pc = "resetting"
    /\ payload' = payload \ {stepIndex}
    /\ summary' = {e \in summary : e.step # stepIndex}
    /\ pc' = "collect"
    /\ UNCHANGED <<commitPointer, manifest, tree, memory, server>>

-----------------------------------------------------------------------------
(* Helpers of the loop *)

\* The step after the committed one; step 0 before the first commit.
FirstStep == commitPointer.step + 1

\* _require_existing_path asks whether the exported and the served model of
\* the latest commit are there, both inside the step's tree, and no more: of
\* a tree whose deletion was cut short the paths may be there or not.
PointerMayLoad  == commitPointer.step # NoStep => tree[commitPointer.step] # "none"
PointerMustLoad == commitPointer.step # NoStep => tree[commitPointer.step] = "full"

\* _load_existing_runtime_manifest: nothing before the first commit; else the
\* manifest's entries up to the commit, gaps filled from the summaries.
\* Lists are kept as sets: the file is ascending and loaded entries are
\* followed by larger steps only, so order carries no information.
LoadedSteps ==
    LET c == commitPointer.step
        kept == IF manifest.exists THEN {e \in manifest.steps : e.step <= c} ELSE {}
        recovered == {e \in summary : e.step <= c /\ \A k \in kept : k.step # e.step}
    IN  IF c = NoStep THEN {} ELSE kept \cup recovered

\* fixed_eval_task_ids carried by the loaded manifest.
LoadedPool ==
    IF commitPointer.step = NoStep \/ ~manifest.exists THEN None ELSE manifest.pool

\* resolve_fixed_eval_task_ids_for_run
EvalPoolAccepted(s) ==
    IF LoadedPool = None
    THEN commitPointer.step = NoStep \/ s.pool = NoEval
    ELSE s.pool = LoadedPool

\* The stage of a committed run may not change.
StageAccepted(s) == commitPointer.step # NoStep => s.stage = commitPointer.stage

\* checkpoint_step_dirs at start: committed steps that still have a tree.
ExistingCheckpointDirs == {s \in Step : s <= commitPointer.step /\ tree[s] # "none"}

\* prune_old_step_checkpoints: all but the last keep_last, never the pending step.
CheckpointsToPrune ==
    {d \in ckptStepDirs :
        /\ Cardinality({e \in ckptStepDirs : e > d}) >= session.keep
        /\ d # pendingIndex}

\* prune_old_step_payloads over run_step_dirs, which is 0 .. stepIndex:
\* every earlier step made its directory and no directory is ever removed.
PayloadsToPrune ==
    {d \in 0 .. stepIndex : stepIndex - d >= session.keep /\ d # pendingIndex}

\* The controller starts a server only when nothing answers at the address.
AddressFree == endpoint = NoServer

TrainedThisStep == pendingIndex = stepIndex

StepEntry == [step |-> stepIndex, trained |-> TrainedThisStep,
              stage |-> session.stage, pool |-> session.pool]

-----------------------------------------------------------------------------
Init ==
    /\ commitPointer = [step |-> NoStep, stage |-> None]
    /\ manifest = [exists |-> FALSE, steps |-> {}, pool |-> None]
    /\ tree = [s \in Step |-> "none"]
    /\ summary = {}
    /\ payload = {}
    /\ pc = "idle"
    /\ session = DefaultSession
    /\ stepIndex = 0
    /\ committed = NoStep
    /\ pendingIndex = NoStep
    /\ currentModel = NoStep
    /\ ckptStepDirs = {}
    /\ steps = {}
    /\ endpoint = NoServer
    /\ handle = "none"
    /\ orphans = {}
    /\ unseen = FALSE

\* The process is gone and its memory with it.
Forget ==
    /\ session' = DefaultSession
    /\ stepIndex' = 0
    /\ committed' = NoStep
    /\ pendingIndex' = NoStep
    /\ currentModel' = NoStep
    /\ ckptStepDirs' = {}
    /\ steps' = {}

\* VLLMServerController.stop, also run by the finally clause of the loop.
StopServer ==
    /\ endpoint' = IF handle = "serving" THEN NoServer ELSE endpoint
    /\ handle' = "none"
    /\ unseen' = FALSE
    /\ UNCHANGED orphans

\* VLLMServerController.start up to Popen: only where nothing answers.
Popen ==
    /\ handle \in {"none", "exited"} /\ AddressFree
    /\ handle' = "loading"
    /\ unseen' = FALSE
    /\ UNCHANGED <<endpoint, orphans>>

-----------------------------------------------------------------------------
(* Starting a session on the output directory *)

\* The committed checkpoint is incomplete, or the stage or the eval pool
\* differs from the committed run's: the run is refused, the disk untouched.
Refuse(s) ==
    /\ pc \in IdlePc
    /\ \/ ~PointerMustLoad
       \/ ~StageAccepted(s)
       \/ FirstStep < s.limit /\ ~EvalPoolAccepted(s)
    /\ pc' = "refused"
    /\ UNCHANGED <<disk, memory, server>>

\* Every requested step is committed: rewrite the manifest and return.
NothingLeft(s) ==
    /\ pc \in IdlePc
    /\ PointerMayLoad /\ StageAccepted(s)
    /\ FirstStep >= s.limit
    /\ manifest' = [exists |-> TRUE, steps |-> LoadedSteps, pool |-> LoadedPool]
    /\ pc' = "done"
    /\ UNCHANGED <<commitPointer, tree, summary, payload, memory, server>>

\* Resume after the latest committed step, or run from the initial model.
Begin(s) ==
    /\ pc \in IdlePc
    /\ PointerMayLoad /\ StageAccepted(s) /\ EvalPoolAccepted(s)
    /\ FirstStep < s.limit
    /\ session' = s
    /\ stepIndex' = FirstStep
    /\ committed' = commitPointer.step
    /\ pendingIndex' = commitPointer.step
    /\ currentModel' = commitPointer.step
    /\ ckptStepDirs' = ExistingCheckpointDirs
    /\ steps' = LoadedSteps
    /\ pc' = "launch"
    /\ UNCHANGED <<disk, server>>

\* Something already answers at the address: the loop refuses to launch.
AddressOccupied ==
    /\ pc \in {"launch", "restart"}
    /\ ~AddressFree
    /\ pc' = "idle"
    /\ Forget
    /\ UNCHANGED <<disk, server>>

LaunchServer ==
    /\ pc = "launch"
    /\ Popen
    /\ pc' = "launching"
    /\ UNCHANGED <<disk, memory>>

\* _wait_until_ready: its process lives, and something answers.  All servers
\* answer to the same name.
ServerReady ==
    /\ pc \in WaitPc
    /\ handle \in {"loading", "serving"} /\ endpoint # NoServer
    /\ pc' = IF pc = "launching" THEN "reset" ELSE "prune"
    /\ UNCHANGED <<disk, memory, server>>

\* Its process has exited: start raises, and the loop ends.
LaunchFails ==
    /\ pc \in WaitPc
    /\ handle = "exited"
    /\ StopServer
    /\ pc' = "idle"
    /\ Forget
    /\ UNCHANGED disk

-----------------------------------------------------------------------------
(* One step of the loop *)

\* reset_step_artifacts deletes in order: payload, tree, parquet, summary.
ResetBegin ==
    /\ pc = "reset"
    /\ tree' = [tree EXCEPT ![stepIndex] = IF @ = "none" THEN @ ELSE "partial"]
    /\ pc' = "resetting"
    /\ UNCHANGED <<commitPointer, manifest, summary, payload, memory, server>>

ResetEnd ==
    /\ pc = "resetting"
    /\ tree' = [tree EXCEPT ![stepIndex] = "none"]
    /\ payload' = payload \ {stepIndex}
    /\ summary' = {e \in summary : e.step # stepIndex}
    /\ pc' = "collect"
    /\ UNCHANGED <<commitPointer, manifest, memory, server>>

\* Rollouts are collected and selected.  No selected row skips the trainer;
\* a dead endpoint fails every attempt, so no row is selected then.  Fewer
\* rows than the distributed floor is an exception (Abort).
Collect ==
    /\ pc = "collect"
    /\ payload' = payload \cup {stepIndex}
    /\ pendingIndex' = committed
    /\ \/ pc' = "payload"
       \/ endpoint # NoServer /\ pc' = "stop"
    /\ UNCHANGED <<commitPointer, manifest, tree, summary, session, stepIndex,
                   committed, currentModel, ckptStepDirs, steps, server>>

StopForTraining ==
    /\ pc = "stop"
    /\ StopServer
    /\ pc' = "train"
    /\ UNCHANGED <<disk, memory>>

TrainBegin ==
    /\ pc = "train"
    /\ tree' = [tree EXCEPT ![stepIndex] = "partial"]
    /\ pc' = "training"
    /\ UNCHANGED <<commitPointer, manifest, summary, payload, memory, server>>

\* The trainer exits, its latest export is resolved and made loadable by
\* vLLM; older global steps of this tree are pruned, never the resolved one.
TrainEnd ==
    /\ pc = "training"
    /\ tree' = [tree EXCEPT ![stepIndex] = "full"]
    /\ pendingIndex' = stepIndex
    /\ currentModel' = stepIndex
    /\ ckptStepDirs' = ckptStepDirs \cup {stepIndex}
    /\ pc' = IF stepIndex + 1 < session.limit THEN "restart" ELSE "prune"
    /\ UNCHANGED <<commitPointer, manifest, summary, payload, session, stepIndex,
                   committed, steps, server>>

RestartServer ==
    /\ pc = "restart"
    /\ Popen
    /\ pc' = "restarting"
    /\ UNCHANGED <<disk, memory>>

\* One rmtree of prune_old_step_checkpoints, oldest first: it starts, it ends.
PruneTree ==
    /\ pc = "prune"
    /\ \E d \in CheckpointsToPrune :
        /\ tree[d] # "none"
        /\ \A e \in CheckpointsToPrune : e < d => tree[e] = "none"
        /\ tree' = [tree EXCEPT ![d] = IF @ = "full" THEN "partial" ELSE "none"]
    /\ UNCHANGED <<commitPointer, manifest, summary, payload, pc, memory, server>>

PruneDone ==
    /\ pc = "prune"
    /\ \A d \in CheckpointsToPrune : tree[d] = "none"
    /\ pc' = "payload"
    /\ UNCHANGED <<disk, memory, server>>

PrunePayloads ==
    /\ pc = "payload"
    /\ payload' = payload \ PayloadsToPrune
    /\ pc' = "summary"
    /\ UNCHANGED <<commitPointer, manifest, tree, summary, memory, server>>

WriteSummary ==
    /\ pc = "summary"
    /\ steps' = steps \cup {StepEntry}
    /\ summary' = summary \cup {StepEntry}
    /\ pc' = "manifest"
    /\ UNCHANGED <<commitPointer, manifest, tree, payload, session, stepIndex,
                   committed, pendingIndex, currentModel, ckptStepDirs, server>>

\* The next iteration of the for loop, or its end.
Advance ==
    IF stepIndex + 1 < session.limit
    THEN stepIndex' = stepIndex + 1 /\ pc' = "reset"
    ELSE stepIndex' = stepIndex /\ pc' = "finish"

WriteManifest ==
    /\ pc = "manifest"
    /\ manifest' = [exists |-> TRUE, steps |-> steps, pool |-> session.pool]
    /\ \/ TrainedThisStep /\ pc' = "pointer" /\ stepIndex' = stepIndex
       \/ ~TrainedThisStep /\ Advance
    /\ UNCHANGED <<commitPointer, tree, summary, payload, session, committed,
                   pendingIndex, currentModel, ckptStepDirs, steps, server>>

\* The commit point; the record just written is loaded back.
WritePointer ==
    /\ pc = "pointer"
    /\ commitPointer' = [step |-> stepIndex, stage |-> session.stage]
    /\ committed' = stepIndex
    /\ Advance
    /\ UNCHANGED <<manifest, tree, summary, payload, session, pendingIndex,
                   currentModel, ckptStepDirs, steps, server>>

\* finally: stop the server; then the manifest is written a last time.
Finish ==
    /\ pc = "finish"
    /\ StopServer
    /\ pc' = "final"
    /\ UNCHANGED <<disk, memory>>

FinalManifest ==
    /\ pc = "final"
    /\ manifest' = [exists |-> TRUE, steps |-> steps, pool |-> session.pool]
    /\ pc' = "done"
    /\ Forget
    /\ UNCHANGED <<commitPointer, tree, summary, payload, server>>

-----------------------------------------------------------------------------
(* Servers and their models *)

\* The loop's server has loaded its model.  It takes the address, or exits
\* because another one has it.
ServerLoads ==
    /\ handle = "loading"
    /\ IF AddressFree THEN endpoint' = currentModel /\ handle' = "serving"
                      ELSE endpoint' = endpoint /\ handle' = "exited"
    /\ UNCHANGED <<disk, pc, memory, orphans, unseen>>

\* So does a server of a killed loop.  Several of them may be loading the
\* same model.
OrphanLeaves(m) == orphans' \in {orphans, orphans \ {m}}

OrphanLoads(m) ==
    /\ m \in orphans /\ AddressFree
    /\ OrphanLeaves(m)
    /\ endpoint' = m
    /\ unseen' = (handle # "none")
    /\ UNCHANGED <<disk, pc, memory, handle>>

\* It fails, or finds the address taken.
OrphanExits(m) ==
    /\ m \in orphans
    /\ OrphanLeaves(m)
    /\ UNCHANGED <<disk, pc, memory, endpoint, handle, unseen>>

-----------------------------------------------------------------------------
(* Failures and the environment *)

\* An exception anywhere in the loop: too few rows, a failing trainer, a
\* server that is not ready in time, a full disk.  The finally clause stops
\* the server; nothing is written.
Abort ==
    /\ pc \in RunPc
    /\ StopServer
    /\ pc' = "idle"
    /\ Forget
    /\ UNCHANGED disk

\* The process is killed: a server it started survives, being in a session
\* of its own (start_new_session), and so does one that is still loading.
\* The same is left of a stop that is cut short (ProcessGroups).
Crash ==
    /\ pc \in RunPc
    /\ orphans' = IF handle = "loading" THEN orphans \cup {currentModel} ELSE orphans
    /\ Cardinality(orphans') <= MaxOrphans
    /\ handle' = "none"
    /\ unseen' = FALSE
    /\ pc' = "idle"
    /\ Forget
    /\ UNCHANGED <<disk, endpoint>>

\* A server dies by itself: the one that answers, whose death the controller
\* does not notice, or the loop's own before it answers.
ServerDies ==
    /\ \/ /\ endpoint # NoServer
          /\ endpoint' = NoServer
          /\ handle' = IF handle = "serving" THEN "exited" ELSE handle
          /\ unseen' = FALSE
       \/ /\ handle = "loading"
          /\ handle' = "exited"
          /\ UNCHANGED <<endpoint, unseen>>
    /\ UNCHANGED <<disk, pc, memory, orphans>>

\* An operator stops the servers no loop owns.
KillOrphan ==
    /\ handle = "none"
    /\ endpoint # NoServer \/ orphans # {}
    /\ endpoint' = NoServer
    /\ orphans' = {}
    /\ UNCHANGED <<disk, pc, memory, handle, unseen>>

\* The manifest is removed by hand; the loader rebuilds it from summaries.
LoseManifest ==
    /\ pc \in IdlePc
    /\ manifest.exists
    /\ manifest' = [exists |-> FALSE, steps |-> {}, pool |-> None]
    /\ UNCHANGED <<commitPointer, tree, summary, payload, pc, memory, server>>

StartSession == \E s \in Session : Refuse(s) \/ NothingLeft(s) \/ Begin(s)

LoopStep ==
    \/ LaunchServer \/ AddressOccupied \/ ServerReady \/ LaunchFails
    \/ ResetBegin \/ ResetEnd \/ Collect \/ StopForTraining \/ TrainBegin
    \/ TrainEnd \/ RestartServer \/ PruneTree \/ PruneDone \/ PrunePayloads
    \/ WriteSummary \/ WriteManifest \/ WritePointer
    \/ Finish \/ FinalManifest

Fault == Abort \/ Crash \/ ServerDies \/ LoseManifest

Orphans == KillOrphan \/ \E m \in Model : OrphanLoads(m) \/ OrphanExits(m)

Next == StartSession \/ LoopStep \/ ServerLoads \/ Fault \/ Orphans

Spec == Init /\ [][Next]_vars

\* The loop makes progress once started and a server it started loads its
\* model or exits; an operator restarts a stopped run and frees the address
\* for it.  Failures and orphans get no fairness.
Fairness ==
    /\ WF_vars(LoopStep) /\ WF_vars(ServerLoads)
    /\ WF_vars(StartSession) /\ WF_vars(KillOrphan)

FairSpec == Spec /\ Fairness

-----------------------------------------------------------------------------
(* Properties *)

\* Every variable has its type.
TypeOK ==
    /\ commitPointer \in [step : Model, stage : Stages \cup {None}]
    /\ manifest \in [exists : BOOLEAN, steps : SUBSET Entry,
                     pool : EvalPools \cup {None}]
    /\ tree \in [Step -> {"none", "partial", "full"}]
    /\ summary \subseteq Entry
    /\ payload \subseteq Step
    /\ pc \in IdlePc \cup RunPc
    /\ session \in Session
    /\ stepIndex \in Step
    /\ committed \in Model
    /\ pendingIndex \in Model
    /\ currentModel \in Model
    /\ ckptStepDirs \subseteq Step
    /\ steps \subseteq Entry
    /\ endpoint \in Model \cup {NoServer}
    /\ handle \in {"none", "loading", "serving", "exited"}
    /\ orphans \subseteq Model
    /\ unseen \in BOOLEAN

CommittedStep == commitPointer.step
EntriesUpTo(c, entries) == {e \in entries : e.step <= c}
OneEntryPerStep(entries) == \A e, f \in entries : e.step = f.step => e = f

\* Pruning cannot delete the checkpoint resume depends on: whatever happens
\* between a prune and the next write of the commit pointer, the checkpoint
\* the pointer names is on disk and complete.
ResumeTargetExists ==
    CommittedStep # NoStep => tree[CommittedStep] = "full"

\* A stopped run can be resumed: what its pointer names is still there, not
\* in whole perhaps, but not deleted, which every start refuses.
RestartCanResume == pc \in IdlePc => PointerMayLoad

\* The authoritative commit never moves back to an older step.
CommitNeverMovesBack ==
    [][commitPointer'.step > commitPointer.step]_commitPointer

\* Rollouts are sampled from the committed model only: neither a server that
\* answered when the loop looked at the address, nor an older or uncommitted
\* model the loop itself started, answers while rows are collected.  What the
\* look cannot find is the server of a killed loop that is still loading: it
\* may take the address afterwards, under the same name, with its own model.
OnPolicyRollouts ==
    pc = "collect" /\ endpoint # NoServer /\ ~unseen => endpoint = CommittedStep

\* The manifest has one entry per step and agrees with the step summaries on
\* every committed step, though both are written before the commit point and
\* entries of abandoned attempts stay in the file until the next write.
\* (With the types.)
ManifestAgrees ==
    /\ TypeOK
    /\ OneEntryPerStep(manifest.steps)
    /\ OneEntryPerStep(summary)
    /\ {e.step : e \in EntriesUpTo(CommittedStep, summary)} = 0 .. CommittedStep
    /\ manifest.exists =>
          EntriesUpTo(CommittedStep, manifest.steps) =
              EntriesUpTo(CommittedStep, summary)

\* One convergence curve is one stage and one held-out pool, across resumes.
OneCurve ==
    \A e, f \in manifest.steps :
        /\ e.stage = f.stage
        /\ e.pool = f.pool \/ NoEval \in {e.pool, f.pool}

\* After a training step at most keep_last trees and keep_last payloads of
\* the steps so far are on disk, those of earlier sessions included.
RetentionBounded ==
    pc \in {"summary", "manifest", "pointer"} /\ TrainedThisStep =>
        /\ Cardinality({s \in 0 .. stepIndex : tree[s] # "none"}) <= session.keep
        /\ Cardinality(payload \cap (0 .. stepIndex)) <= session.keep

\* A tree kept at or below the commit belongs to a step that trained: a tree
\* of an abandoned attempt is gone before the commit passes its step.
NoStaleTrees ==
    \A s \in Step : s <= CommittedStep /\ tree[s] # "none" =>
        \E e \in summary : e.step = s /\ e.trained

\* Whatever a run prunes, resets and trains, in this session and in those
\* before it, and with checkpoint_keep_last = 1: the model it serves and
\* trains from next stays on disk as long as it runs.
ModelStaysOnDisk ==
    pc \in RunPc /\ currentModel # NoStep => tree[currentModel] # "none"

\* The loop implements the commit contract: the pointer is the commit, the
\* complete trees are the available checkpoints.
Contract == INSTANCE CommitContract WITH
                Steps     <- Step,
                latest    <- commitPointer.step,
                available <- {s \in Step : tree[s] = "full"}
ImplementsContract == Contract!Spec

\* A step that is a failure and nothing else: a run that is refused an address
\* or a server changes the same as one that aborts, and a server that is killed
\* or finds the address taken the same as one that dies.
Failure == Fault /\ ~(AddressOccupied \/ LaunchFails \/ ServerLoads \/ KillOrphan)

\* When failures stop, some session completes, whatever they left on disk and
\* whatever servers of killed runs do to it meanwhile.
EventuallyDone == <>[][~Failure]_vars => <>(pc = "done")
=============================================================================
