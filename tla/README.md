# small-swe-train in TLA+

This directory holds TLA+ specifications of small-swe-train, the TLC
configurations that check them on small instances, and TLAPS proofs for every
instance. The repository trains a coding model by reinforcement on software
engineering tasks: `format_rft` and `positive_rft` collect rollouts, keep the
good ones and fine-tune on them in an outer loop; `turn_sdpo` trains with PPO
on agent loops that work in docker containers.

The specifications follow the code under `src/src`, not its documents. Where a
document or a test says something the code does not do, a run shows it (see
*What the runs found*).

## Inventory

State, operations, interaction, what is hard, and what makes the part correct.

| Part | State | Operations | Correct when |
|---|---|---|---|
| Outer RFT loop `trainer/rft_runtime_loop.py` | commit pointer, manifest, per step: checkpoint tree, summary, rollout payload; in memory the step, the committed and pending step, the prune list | resume, reset a step, collect, train, prune, record, commit, stop | the commit only moves forward and names a checkpoint that exists; a restart repeats exactly the uncommitted step; rows come from the committed model |
| vLLM controller (same file) | process handle, process group, the address | start, wait until ready, stop, clean up the group | one server at the address, serving the model the loop believes |
| Row selection (same file, `rft_rejection.py`, `rft_handoff.py`) | none | reject, partition, size the batch, upsample, filter by length | batch divisible by the world; every row an accepted one; limits respected |
| On-policy collector `rollout/onpolicy_collector.py`, `verl_integration/env_bridge.py` | rows by task and attempt, containers | run tasks in a thread pool, apply the task patch (twice at most), turns, verify | every attempt yields one row or one error; rows in task order; containers released |
| Container pool `env/container_pool.py` | active handles | acquire, start with retries, release all | no container without an owner |
| Task dataset `env/task_dataset.py`, `env/preflight_onpolicy_dataset.py`, `env/preload_sdpo_dataset.py` | bad-task cache, memoized pools, parquet pairs | probe and publish bad tasks, build the pool, split, draw the batch of a step, write and serve a pair | evaluation and training tasks disjoint and stable over restarts; tasks drawn evenly; a pair served is the split of its filter |
| Difficulty probe `env/preload_onpolicy_difficulty_bands.py` | cache, progress and records files; pending futures | resume, probe, append, save, clean up | work is never done twice, mixed or lost |
| SDPO agent loop `verl_integration/swe_bridge_agent_loop.py` | slot lease, container, token and mask lists, timeouts | wait for a slot, start, turns, verify, clean up, release | containers bounded by slots, slots returned, tokens aligned with masks |
| Agent loop scheduler `verl_integration/ppo_runtime_patch.py` | tasks in flight, outputs by sample | launch, collect, cancel | one output a sample, in order; the bound respected |
| Rewards and reprompts `verl_integration/reward_*.py`, `reprompt_adapter.py` | batch fields | score, build the prompts of the turns and their target masks | a turn is taught with its own text, feedback and tokens |
| Turn-level update `verl_integration/ppo_runtime_patch.py` | the actor's and the teacher's weights, the position of each rank | build the tensors, forward and optimize micro batch by micro batch, fall back to the library's update | loss on tokens of the model only; ranks in step; a batch applied once |
| Token cache and datasets `trainer/rft_token_cache.py`, `rft_multiturn_dataset.py` | token records | make transcripts, render, mask, sort into buckets | loss only on assistant tokens, and on all of them |
| FSDP SFT trainer `verl_integration/fsdp_sft_trainer_entry.py` | epoch, batch and step of each rank, the checkpoint | draw batches, step together, save after the last step | ranks draw equally many batches; an epoch covers every row; no success without a checkpoint |
| Launch scripts `scripts/run_rft.sh`, `run_sdpo.sh` | the checkpoint handed from RFT to SDPO | resolve from pointer or manifest | SDPO starts from the committed checkpoint |

Interaction: the loop calls the controller, the collector (which uses the
dataset, the pool and the turn generator over HTTP), the selection functions
and the trainer as a subprocess; what survives the process is files. The probe
uses the collector with a thread pool of its own. In SDPO the veRL trainer
calls the scheduler in several worker processes, whose agent loops share only
slot lock files and the docker daemon.

The behaviours that are hard are kills between two writes, restarts with other
arguments, servers and containers that outlive their owner, futures completing
out of order, and one thread pool used both to wait for a resource and to
release it. `PROJECT.json` lists them under `hazards`, each at its line.

## Modules

| Module | Models |
|---|---|
| `RftRuntimeLoop`, `MCRftRuntimeLoop` | the outer loop, its files, the launch, load and stop of its servers, and the servers of killed loops |
| `CommitContract` | what the loop promises about its output directory |
| `SdpoLaunch`, `MCSdpoLaunch` | `run_sdpo.sh` resolving a checkpoint beside the outer loop |
| `RftRuntimeLoopProofs` | theorems about `RftRuntimeLoop`: the commit and the server, what it records and retains; and about `SdpoLaunch` |
| `ProcessGroups`, `MCProcessGroups` | the processes of the outer loop: servers, trainers, their workers, signals and timeouts |
| `ProcessGroupsProofs` | theorems about `ProcessGroups` |
| `DifficultyProbe`, `MCDifficultyProbe` | the probe and its three files |
| `TaskPool` | what a dataset is turned into, as operators |
| `TaskDataset`, `MCTaskDataset` | the readers and writers of its caches on those operators |
| `TaskDatasetProofs` | theorems about `TaskPool` and `TaskDataset`, and about `DifficultyProbe`, whose cache bands the pool |
| `AgentLoopSlots`, `MCAgentLoopSlots` | SDPO agent loops, the slot gate, the thread pool, the scheduler |
| `AgentLoopSlotsProofs` | theorems about `AgentLoopSlots` |
| `Subsequences` | the part of a sequence at given places, as a list comprehension with a condition reads it off |
| `RowSelection`, `RowSelectionProofs` | what the outer loop decides about rows, as operators; theorems about them and about `Subsequences`, on which the proofs of `TaskDataset` and of the three components below rest |
| `ContainerPool` | container pools and the docker daemon |
| `RolloutCollector`, `MCRolloutCollector` | one step of the collector on those pools, up to the training batch |
| `RolloutCollectorProofs` | theorems about `RolloutCollector` |
| `SftTrainer`, `MCSftTrainer` | from selected rows to the checkpoint of the inner SFT |
| `TrainingContract` | what the outer loop gets from the ranks of the inner SFT together |
| `SftTrainerProofs` | theorems about `SftTrainer`, and that it implements `TrainingContract` |
| `TurnTargets` | which tokens each turn's prompt supervises, as operators |
| `SdpoTurns`, `MCSdpoTurns` | the turns of one rollout, its supervision, the update of the ranks |
| `SdpoTurnsProofs` | theorems about `SdpoTurns` and `TurnTargets` |

`SdpoLaunch` extends `RftRuntimeLoop`, `RolloutCollector` extends
`ContainerPool` and `RowSelection`, `SftTrainer` extends `RowSelection`,
`TaskDataset` extends `TaskPool` and `SdpoTurns` extends `TurnTargets`.
`RolloutCollector`, `SftTrainer`, `TaskPool` and `TurnTargets` take their list
comprehensions from `Subsequences`: `SelectSeq` has an operator for its second
argument and says the same, but nothing can be proved of it.
`RftRuntimeLoop` and `ProcessGroups` describe one loop at two grains: commits
and trees with servers that load, answer, exit or are orphaned, and processes with the step around them reduced
to collect, train, serve and commit.

Component modules have *faulty variants*: operators that take the place of a
definition to show that a property would notice such a slip. They are not part
of the specification.

### RftRuntimeLoop

State on disk is separate from state in memory; `Crash` and `Abort` keep the
first and drop the second. `_write_json` writes a temporary file and renames
it, so a JSON file is old or new. `shutil.rmtree` and the trainer are not
atomic: a tree is `none`, `partial` or `full`, and both ends of `ResetBegin` /
`ResetEnd`, `TrainBegin` / `TrainEnd` and the two halves of each `PruneTree`
are points where the process may die.

Correspondence: `Begin`, `NothingLeft` and `Refuse` are the code before the
loop (pointer, stage check, manifest, evaluation pool); `pc` runs through the
body of the loop in its order; `WritePointer` is the commit. A `Session` is the
part of `RFTLoopConfig` that may change between starts: `rft_steps`,
`checkpoint_keep_last`, the stage, and the outcome of validating the held-out
pool. Lists of the code that are ascending by
construction (prune list, manifest entries) are sets.

Outcomes of collection are a choice: rows were selected, or none were; with no
server there are none. Too few rows, a failing trainer and a full disk are
`Abort`.

A start of the server is several steps, as in `VLLMServerController.start`:
`Popen` after a look at the address (`LaunchServer`, `RestartServer`), the load
(`ServerLoads`), and `_wait_until_ready`, which ends with whatever answers
(`ServerReady`) or with an exited process (`LaunchFails`). `endpoint` is the model
answering at `vllm_base_url`, `handle` the controller's process. A killed loop
leaves the server as it is, because it is started in a session of its own: one
that answers goes on answering, and one that was loading joins `orphans`, the
models such servers are loading. Those may take the address at any time
(`OrphanLoads`), also between the look and the answer of the loop's own server,
which then exits; `unseen` remembers that this happened.

`_require_existing_path` only asks whether the committed paths exist. Of a tree
that is half deleted they may or may not, so such a start can go either way:
`PointerMayLoad` is the condition of `Begin`, `PointerMustLoad` that of not
being refused for its checkpoint.

### SdpoLaunch

One launch of `turn_sdpo` on the output directory of a run that goes on, was
killed, or starts again meanwhile. `ReadPointer`, `ReadManifest`, `Confirm` and
`Load` are the moments at which `_resolve_sdpo_rft_checkpoint` and what follows
look at the disk. A path is known by the step whose tree it lies in; a path in
a tree that is being deleted or written exists or does not. `finalPath` and
`keptPath` are the key `final_model_path` of the manifest on disk and in memory,
which `RftRuntimeLoop` has no use for: `PathStep` adds it to the loop's own
steps. Without `SDPO_RFT_MANIFEST` the script searches several runs; one run is
followed.

### ProcessGroups

A group is one Popen'd process (its *leader*) and the workers it forked, which
may live on without it: `leader` and `workers`. `Launch` to `ReadyTimesOut` are
`VLLMServerController.start` and `_wait_until_ready`, `Stop` to
`KillGroupTimesOut` are `stop` and `_cleanup_process_group`, one action a signal
or wait; `target` is the group they work on and `then` where they return to.
`Train` and `TrainerExited` are `_run_command`. With `Lingers` a process may
outlive SIGKILL by more than a wait (one in an uninterruptible call). Every
server is given the same name, so `EndpointReady` cannot tell whose server
answers, as in the code. `Interrupt` is a KeyboardInterrupt at any step,
`KillLoop` a SIGKILL. Three sets remember what happened: `mine` the groups of
this loop process, `unseen` the servers that were loading when the last start
looked at the address, `cutShort` the groups whose cleanup did not run to its
end. The trees a trainer writes are in `RftRuntimeLoop` only, which takes a
training as over when the loop dies.

### DifficultyProbe

`cache`, `progress` and `records` are the three files; a record remembers the
metadata it was really probed under, which the file itself does not say.
`Serve`, `RefuseResume`, `Resume`, `StartFresh` and `ForceRefresh` are `main`
up to the probe loop. `future` is the state of each submitted task,
`WorkerStarts`, `WorkerEnds` and `WorkerFails` the executor. `Wait` returns
every future done at that moment, `Take`, `AppendRecord` and `WriteProgress`
are the body of the loop over `done`. `CrashInAppend` leaves half a line or a
line without newline.

### TaskPool and TaskDataset

A task is the index of its row. A row keeps what decisions read: whether it is
valid, its id, image, logical identity and family, whether its problem statement is
too long, what a probe of it finds, and its rank in either hash order (the RFT
and the SDPO splits hash different keys, so they hold out different tasks).
`TaskPool` computes from these the filter, the bands, the pool, the splits and the batch of
a step. `TaskDataset` has the processes: `Preflight` probes and publishes the
bad-task cache, truncated and then written (`Torn` between); `Session` is an
RFT loop as far as it reads the dataset; `Preload` a job that names the parquet
pair by the digest of the filter, then serves or builds it. Readers read the
cache twice, for the digest (`NamePool`, `NamePair`) and for the rows
(`BuildPool`, `BuildRows`). `spoiled` and `steady` remember that a writer was
stopped, or that the cache changed in between or while a session ran.

The held-out tasks a session resolves are in its memory (`session.fixed`) until
it writes a manifest (`WriteManifest`), which is before the pointer
(`CommitStep`); and a later session looks at them only once a step is committed
(`StoredFixed`). So a run stopped before its first commit may start over with
other tasks, and `evaluated` has the evaluations of committed steps. Every step
trains here; steps that do not are in `RftRuntimeLoop`.

### AgentLoopSlots

The actors are agent loops, the threads of the default executor of their
worker, and the slot lock files. Every `asyncio.to_thread` is a job: queued, running, over. A
queued job can be cancelled, and stays in the executor's queue until a thread
skips it; a running one cannot, and that is where a timeout leaves work behind. `GateTries`, `GateBlocks`, `GateWakes` and `GateGivesUp`
are `_FileContainerSlotGate.acquire`: try every slot, then poll to a deadline
or block in `flock` on one slot file chosen round robin; `waitBounded` says
which, for the run. `Drain` and `RemoveRuns` are the cleanup, `RaiseAndCancel`
the exception path of the scheduler. `asyncio`, the executor and docker are
modelled from their use, and are marked external in the map. All the turns of a
loop are one job: at most one is awaited at a time and each can time out.
`Workers` may be several processes at the same lock files; the instance has one,
since a waiter of another process meets a slot exactly as a waiter of this one
does and has threads of its own.

### ContainerPool, RolloutCollector and RowSelection

`RolloutCollector` extends the two others: a worker's step that calls the pool
is one action with the pool's (`AttemptStarts` with `Acquire`, `EndAttempt`
with `ReleaseAll`), and `Handoff` decides with the operators of `RowSelection`.
`pc` is where the worker of a task stands, `draft` the locals of
`_collect_attempt`, `main` where `collect_step` and then the outer loop stand.

`ContainerPool` keeps apart what the client knows (`start`, `handle`) and what
the daemon has: `up` the containers, `late` the runs and `dying` the removals
whose client gave up. A name is a number within its attempt, since the code
draws it from a uuid. A removal that docker refuses, and one that is carried
out late, are the same: `dying` is what no removal was confirmed for. An
operating system error while the removal command is started is left out.

A row keeps the fields decisions read, and `tree`, which says what the code
cannot see: whether the patch was in when the turns began. Error texts fall into
`executor` (a step with a non-zero exit) and `ended` (why the attempt ended).
A turn runs one call, ends with a step or with a submit, or raises; a tool
that times out is a step that fails. A test group without targets passes. The
held-out collection of the same step is another `collect_step` and is not
repeated; the trainer's length filter is the choice of `kept`.

### SftTrainer

A text is a sequence of symbols, so that the search for loss spans is the real
one: `Messages` makes the transcript of a history (blank entries dropped, the
role decided by the tag a text begins with), `Render` is the chat template with
or without thoughts, and `LossSpans` searches each message from the cursor, as
`_assistant_loss_char_spans` does. A token is a symbol. `SizeBatch` and
`WriteTokenCache` are the outer loop's side, with the operators of
`RowSelection`; from `LoadDataset` on the ranks are on their own and meet in
`TrainingStep`. A shuffle is any order that keeps buckets together, drawn by the
first rank to begin an epoch, since all seed alike. `RankFails` and
`TorchrunFails` end the others.

`TrainingContract` is the same training as the outer loop sees it: one trainer
that is given rows in whole batches, trains batch after batch, each row once an
epoch and one epoch after another, and saves a checkpoint after the last batch
of the last epoch; it may fail anywhere. It knows no ranks, buckets or shuffles.
`TrainsAsOne` says that `SftTrainer` implements it: its `lessons` are the records
trained in each step, by whichever rank.

### TurnTargets and SdpoTurns

`SdpoTurns` follows one rollout of `SWEBridgeAgentLoop.run` token by token:
`ids` says who wrote a token and in which turn, `mask` and `logprobs` are the
lists of the code, and `texts`, `lengths` and `blocks` what a turn reports. An
action is the code between two awaits; `spent` is the attempt's budget, after
which the next wait raises. `BuildBatch` is the reward and the supervision,
with the operators of `TurnTargets` (kept texts, spans by length or by runs,
prompts, activity). The update has a position for every rank: `Ops` counts the
collectives of a step, `Operate` moves all ranks that are in the same one,
`Raise` is an exception of one rank and its fallback, `CollectiveTimesOut` what
happens when ranks wait for different ones. Rows of the batch other than the
rollout count by their number of turns (`others`).

Two simplifications: `EndUpdate` moves all ranks at once, though each updates its
own teacher after its last collective (`_update_teacher`), which touches nothing
of the other ranks; and the fallback of the hook that builds the batch to the
library's own (`ppo_runtime_patch.py:502`) is left out: the library's batch
has no turn-level tensors, which the properties are about.

## Runs

| Run | Instance | Shows |
|---|---|---|
| `rft_crash` | 3 steps, keep 2, evaluation off, 1 orphan or one launch of SDPO | the commit protocol, the implementation of `CommitContract`, whose model rows come from, what SDPO starts from, and completion once failures stop |
| `rft_sessions` | 2 steps, limits 1 and 2, two stages, two pools or none, keep 1 | sessions with other arguments, and that the model of a running loop is not pruned |
| `rft_keep_one_resume` | 3 steps, keep 1 | violation of `RestartCanResume` |
| `server_groups` | 4 processes, a kill and an interrupt, lingering processes | who answers, who is on the GPUs, what is left behind |
| `probe_resume` | 4 tasks, window 2, 2 workers, two models | resume, mixing, termination |
| `data_caches` | 8 rows, 4 bandings, 3 splits, 2 preflights, 3 sessions or 2 preload jobs, 1 stop | held-out tasks, even batches, parquet pairs |
| `data_scope` | the same | violation of `ProbedTasksStayInThePool` |
| `slots_live` | 3 loops, 2 in flight, 2 threads, 1 slot, both kinds of slot wait | leases, containers, cancellation, no loop waits forever |
| `collect_step` | 2 tasks on 2 threads, 1 attempt, 2 turns, both stages, world of 2 | rows, selection, batch, containers, termination |
| `sft_ranks` | up to 3 rows of 5 kinds, 2 ranks, 2 epochs, 1 failing rank | loss masks, epochs, checkpoint, the implementation of `TrainingContract`, termination |
| `sdpo_turns` | 3 turns in 5 tokens, 2 ranks, 2 steps, 2 raises | tokens, supervision, update, termination |
| `sdpo_empty_turn` | the same | violation of `TurnsAreTaughtTheirOwn` |

`ManifestAgrees`, `RecordedOnce`, `NothingOutlivesTheLoop`, `SlotsComeBack`,
`ServedPairIsTheSplit`, `NothingLeftBehind` and `TrainedMeansSaved` have the type invariant of their
module as a first conjunct.

Bounds. Three steps with two kept trees are the least in which a tree is
pruned, its successor committed, and a tree of an earlier session found again
after a restart; the number of crashes and restarts is not bounded. `MaxOrphans` bounds the models that
servers of killed loops load at a time, not the kills: one, of whichever model,
competes with the loop's own server for the address; more are left to the proofs.
A behaviour of `rft_crash` has orphans that load or a launch at work
(`LaunchOrOrphans`): the launcher only reads the disk, where orphans show in
nothing that failures do not do without them. Four
processes are a server, a trainer, the server of the new model and one more: the
orphan of a killed loop next to the server that replaces it. One kill and one interrupt,
since either leaves the loop at a fresh start. Four tasks through
a window of two leave the window refilled twice and futures completing out of
order. The eight rows have a broken image with two tasks, two tasks of one
identity, invalid selectors next to valid ones on one image, an invalid row and
a long one, and one whose probe may time out; a behaviour of `data_caches` has
sessions or preload jobs (`OneKindOfReader`), since neither writes what the
other reads. Three loops with two in flight give a loop that holds the slot,
one that waits for it and one not launched, which is what the cancellation path
needs. In `collect_step` docker misbehaves for one task
(`FaultyDocker`) and the other has a patch, so that three tries meet two other
workers' steps and each kind of attempt is there; `LateBound` is one docker
command at a time that its client gave up on, which suffices for a late
container to meet a later try. More attempts, tasks and late commands are left
to the proofs. The five histories of `sft_ranks` have a tool that repeats the
model, a turn that says what another said, thoughts, a blank turn, a row over
the budget, one without an assistant turn, and a turn that thinks and says
nothing; `BucketFactor` is 1 so that there is more than one bucket. Five tokens hold two turns whole and cut the
third, or a tool message, at the limit. `MaxRaises` lets each rank raise once.
No other counter needs a bound.

Deadlock is checked in the runs of the outer loop, the probe, the slots and
the collector. The others stop where the system does, with
`CHECK_DEADLOCK FALSE`: when no process, session or preload job is left to
start (`server_groups`, `data_caches`), and when a step or an update is over
(`sft_ranks`, `sdpo_turns`); their liveness properties say that this end is reached,
where the code bounds its waits.

Fairness. `RftRuntimeLoop`: the loop's own steps, its server's load, a restart
of a stopped run and the operator freeing the address are weakly fair; what
orphans do, aborts, kills and the server's death are not, and `EventuallyDone`
assumes that they stop. What only looks like a failure (the refusal of an occupied
address, a server that cannot have it) may go on (`Failure`). It is
checked with evaluation off, since with a fixed pool a lost manifest is refused
for good (`resolve_fixed_eval_task_ids_for_run`). The launcher of `SdpoLaunch`
is not fair. `ProcessGroups`: the controller's start, its wait and its stop,
which poll to deadlines; what processes do, a collection and a training are
not. `DifficultyProbe`: main, the executor's workers and an operator who uses
`--force-refresh` sooner or later; without the last, a probe stopped before
its first record is refused for ever, because the progress file exists before
the records file. `TaskDataset` has no liveness. `AgentLoopSlots`: event loop,
threads and docker commands, each of which has its own timeout in the code; no
timeout of an attempt has to fire. `RolloutCollector`: the threads and main,
since every docker command, tool call and model call has a timeout; the daemon
is not. `SftTrainer`: the ranks and the end torchrun makes of the others when
one fails. `SdpoTurns`: the loop's awaits, which time out with the attempt, and
the update with its collectives' timeout; time itself, and exceptions, need not
happen.

## What the runs found

* `rft_keep_one_resume`: with `checkpoint_keep_last = 1`, the shipped default,
  pruning protects the new step and deletes the committed one before the
  pointer is rewritten. A stop after the deletion leaves a run no restart
  accepts; one in the middle of it leaves part of a checkpoint, whose paths may
  still exist and are then taken as whole. `ModelStaysOnDisk` is what holds with
  one kept tree: the model a running loop serves is not pruned under it.
* `data_scope`: the preflight keeps a failure of one task's selectors to that
  task, but the reader of its cache (`_load_bad_task_filter`) adds the image of
  every bad record, so the other tasks of that image leave the pool too.
* `sdpo_empty_turn`: a turn that decodes to blank text is dropped from the
  texts of a rollout but not from its token lengths and tool blocks, so each
  later turn is taught with the prompt, the feedback or the target of another.
  `SpokenTurnsAreTaughtTheirOwn` is what holds of rollouts without such a turn.

Exceptions that properties name are part of what the runs show: the server of a
killed loop that was still loading when the next one looked at the address
answers in place of that loop's own, with its own model
(`OnPolicyRollouts`, `CollectsFromItsModel`); a second timeout, an unkillable process or an
interrupt inside `stop` leaves processes behind (`NothingOutlivesTheLoop`); a
pair whose writer was stopped is served by every later job
(`ServedPairIsTheSplit`); a bad-task cache published while a session runs is
taken up without comparing the held-out tasks again, and before the first
commit there are none to compare with (`HeldOutStaysHeldOut`).

## Proofs

`RftRuntimeLoopProofs` proves, for any number of steps, any sets of sessions
and any number of failures:

| Theorem | States |
|---|---|
| `TypeCorrect` | `TypeOK` |
| `LoopInvariant` | the inductive invariant `LoopInv` |
| `OnPolicy` | `OnPolicyRollouts` |
| `CommitMonotone` | `CommitNeverMovesBack` |
| `ResumeTargetKept` | `ResumeTargetExists`, assuming every session keeps two |
| `Refinement` | `Contract!Spec`, under the same assumption |

Assumptions: those of the module on its constants (`StepsAssumption`,
`OrphansAssumption`, `KeepAssumption`, `SessionAssumption`), and `keep >= 2` where stated; without
it the two last are false, as `rft_keep_one_resume` shows.

The argument: none of the properties is inductive. That the server answering
during `collect` serves the committed model needs whose answer it can be:
nothing unseen having come, the endpoint is silent or has the loop's own model
from `Popen` to the stop, through training, restart and pruning (`ServerInv`), which
needs the memory to agree with the pointer (`CommitInv`). What orphans do
touches neither disk nor memory (`ServersApart`). That pruning spares the
committed tree needs every entry of the prune list to be at or before the
commit, except the one just trained, and that one to be complete
(`PruneListInv`): then with two trees kept, the committed tree is among the
last two. `LoopInv` is the conjunction of the three. The proof that a step
preserves it has one case an action; refinement maps `WritePointer` to
`Commit`, `TrainEnd` to `Save`, pruning and resetting to `Discard`, and the
rest to stuttering.

`RowSelectionProofs` proves facts about the operators for every size of step,
batch and world: `RowNumbersDistinct`, `BatchSizeFits` (which also shows that
the skip for batch constraints after the check of the minimum is never taken),
`UpsampleFills` and `PositiveAcceptsResolved`. Its lemmas are what the other
modules need of numbers and sequences: an `Induction` rule, as a statement about
sets of numbers that is proved from the well-foundedness of `<`; that a
recursive definition has a solution (`RecursionExists`); that `Picked` keeps
order and elements (`AscendingLists`, `PickedElements`); the two ways a batch is
filled up (`UpsampleWhole`, `UpsampleAtMostTwice`, `UpsampleDivides`).

`RolloutCollectorProofs` proves, for any number of tasks, attempts, turns,
workers and given-up docker commands, and any set of tasks with bad docker:

| Theorem | States |
|---|---|
| `CollectorTypeCorrect` | `TypeOK` |
| `PoolInvariant` | the inductive invariant `PoolInv` |
| `NeverDuplicates` | `TimedOutRunNeverDuplicates` |
| `RowsVerified` | `SelectedRowsAreVerified` |
| `NothingLeft` | `NothingLeftBehind` |
| `BatchInOrder` | `BatchIsTheStep` |
| `TrainerGetsWholeBatches` | `WholeBatches` |

They assume `PoolAssumption` and `CollectorAssumption` only: sizes are positive
and tasks are numbered by position. That a timed-out run cannot duplicate
rests on the pool keeping the name of that run for the attempt (`NameKept`), on
names being unique to the daemon (`NamesUnique`), on containers being made for
attempts that have begun (`MadeInTime`), and on the container in use being the
one under that name and not about to go (`HandleIsUp`). `RowsVerified` carries
soundness from the attempt's locals to rows, to the batch and to the selection
(`RowInv`). `NothingLeft` ties each answered container to the pool that holds
it, each pool to its worker's place and main's progress to the workers'
(`EndInv`); with one worker there is no executor to join, and the argument is
that no later task starts (`Serial`). `BatchInOrder` numbers the rows of a task
by its attempts (`RowsNumbered`) and the batch by blocks of tasks
(`BatchOrdered`); that a row number falls in its own step is arithmetic
(`QuotientOf`, from `BlockUnique` of `RowSelectionProofs`). `WholeBatches` says
of a sized step what `UpsampleWhole` says of its selected rows, which are in
ascending order because they are picked from the batch and the trainer's filter
picks from them.

`RftRuntimeLoopProofs` also proves `StartsFromTheCommit`, that is
`SdpoStartsFromTheCommit`, for any number of steps, any sessions and any number
of kills and restarts of both programs, under the assumption `KeepsTwo` (every
session keeps at least two trees) beside the assumptions of the module. The
launcher writes nothing the loop reads, so the loop's theorems `TypeCorrect`
and `ResumeTargetKept` hold beside it; to them `HandoverInv` adds that the
launcher goes to the manifest only when there was no commit to see.

From `LoopInv` it goes on to what the loop records, under the module's
assumptions only:

| Theorem | States |
|---|---|
| `RecordInvariant` | the inductive invariant `RecordInv` |
| `ManifestIsTrue` | `ManifestAgrees` |
| `CurveIsOne` | `OneCurve` |
| `TreesAreTrained` | `NoStaleTrees` |
| `Retained` | `RetentionBounded` |
| `ModelStays` | `ModelStaysOnDisk` |

Its argument: the list in memory is the summaries of the steps below the one at
work, and between its reset and its record the step at work has no summary
(`StepsInv`), so what is written next cannot disagree with what is committed
(`DiskInv`). A step's stage and pool pass the checks at the start of a session,
so entries old and new are of one curve (`CurveInv`). Every tree below the step
at work is of a step that trained and is on the list of the trees to prune
(`TreeInv`); that pruning leaves at most `keep` of them is a count over the
last entries of that list (`LastOnes`). `ModelStays` needs only `LoopInv`: the
step at work is reset and trained while the model is an earlier one's, and when
trees are pruned the model is the pending step's, which is never on the list of
those to go (`ModelKept`).

`ProcessGroupsProofs` proves, for any number of processes, kills and interrupts,
`CollectsFromItsOwn` (`CollectsFromItsModel`), `TrainerAlone`
(`TrainerHasTheGpus`) and `NothingOutlives` (`NothingOutlivesTheLoop`). The
invariant `GroupInv` says where a live process of the loop can be: in the
controller's handle, with the stop or the training at work, or on record as one
whose cleanup was cut short (`HeldInv`); and that a server which answers is the
loop's own, or was loading when the last start looked (`AnswerInv`).

`AgentLoopSlotsProofs` proves, for any number of workers, loops, slots, threads
and jobs, `Leased` (`ContainerUnderLease`) and `SlotsReturned`
(`SlotsComeBack`). `SlotInv` ties every slot held to where its loop stands and
to the job that took it (`LeaseInv`), and says that a thread may wait
for a slot its loop no longer wants only once the worker has failed
(`GateInv`). `BudgetSpared`
(`SlotWaitSparesBudget`) also assumes that a worker has at least as many
threads as loops in flight: each loop occupies one thread at most
(`InFlightInv`), so a loop that is not waiting finds one.

`TaskDatasetProofs` proves, for any dataset, bandings, splits and batch size,
any hash ranks, and any number of sessions, preflights, preload jobs
and stops:

| Theorem | States |
|---|---|
| `DataInvariant` | the inductive invariant `IInv` |
| `DataTypeCorrect` | `TypeOK` |
| `HeldOutIsNeverTrainedOn` | `HeldOutStaysHeldOut` |
| `DrawsAreEven` | `TasksAreDrawnEvenly` |
| `ServedPairsSplitTheRows` | `ServedPairIsTheSplit` |

They assume what the module does: ids of rows differ, sizes are positive, a
fraction is below the whole, and `Torn` and `None` are neither a list of rows
nor a set of ids. No property is inductive. That held-out tasks stay apart
needs that the pools a session holds are all of one filter, the one on disk, as
long as nothing is published under it (`OneFilter`): then what it evaluates on
is what it has in memory, and since a pool has one row of an identity (`IsPool`),
its train partition states none of those problems (`Holding`, with
`TrainApartFromEval`). The manifest on disk has those tasks when the step is about
to be committed, and from the first commit on whatever session there is; so
they are those of all committed steps (`Recorded`). That draws are even needs where they stand: what was
drawn is what one walk around the train partition draws from some step to the
step at work (`Drawn`). A walk of `n` draws passes a place `n \div size` times
or once more (`Visits`); that a batch adds its own draws, in batches that wrap
and batches longer than the partition, is `VisitsCount`, by induction on the
length of the walk, and that two places differ by one at most is `VisitsEven`.
That a served pair is the split needs what every job in between holds and
what every file holds unless its key is spoiled (`Pairs`): two jobs that build
the same pair from the filter in its name build the same rows, so it does not
matter which of them closes a file last. TLC checked the conjuncts of `IInv`
on the instance of `data_caches` too.

The module also proves of `DifficultyProbe`, for any number of tasks and workers,
any window and any set of models, `CacheIsTrue` (`CacheIsOfItsConfig`) and
`RecordedAtMostOnce` (`RecordedOnce`). The files hold records of one metadata
and one a task as long as the progress file names that metadata (`FilesInv`),
which is why the order of the two removals matters; a run knows exactly the
tasks that have a line (`KnownInv`), and a task it knows is neither to do nor
at work (`WorkInv`).

`SftTrainerProofs` proves, for any set of histories, any number of rows, ranks,
epochs and failing ranks, and any batch and bucket sizes:

| Theorem | States |
|---|---|
| `TrainerInvariant` | the inductive invariant `IInv` |
| `TrainerTypeCorrect` | `TypeOK` |
| `EveryEpochCoversTheRows` | `EpochsCoverTheRows` |
| `EveryTrainingIsSaved` | `TrainedMeansSaved` |
| `LossOnAssistantTurns` | `LossIsOnAssistantTurns`, when texts stand apart |
| `RanksTrainAsOne` | `TrainsAsOne`: the ranks implement `TrainingContract` |

It assumes `SftAssumption`, and `LossOnAssistantTurns` also `TextsStandApart`.
`IInv` has five parts: what was selected and
tokenized (`Inputs`), that the batch divides by the ranks and the cache has a
whole number of batches (`Sizing`), where each rank is (`Lockstep`), how the
training can end (`Ends`), and what was trained (`Lessons`). Ranks draw their
batches on their own, so that they step together is not a guard but a count: the
place of a rank in its epoch tells how many steps it has taken (`PlaceOfBatch`,
`BatchOfPlace`), and ranks in `step` wait for the slowest. `Lessons` says that
the rows trained in an epoch are the places of its shuffle up to the last step;
at the end of the epoch those are all places, and each is trained by one rank
(`BatchShare`: the shares of the ranks tile the batch). `TrainedMeansSaved` needs
one hypothesis, `NothingIsLost`: a turn that only thinks, under a template that
leaves thoughts out, renders to a text in which the message is not found, and
the code raises there (`rft_token_cache.py`) before anything is trained.

`RanksTrainAsOne` says at every step what `EveryEpochCoversTheRows` says at the
end, and of trainings that fail too. `TrainingStep` maps to `Train`,
`WriteTokenCache` to `Give`, the ends to `End`, and everything a rank does by
itself to stuttering. The shares of the ranks in a step are the places of one
batch of the shuffle (`NextLesson`), which are `batchSize` places in a row
(`PlacesInARow`) and, the shuffle being injective, as many records
(`BatchIsWhole`); two steps of one epoch have different places and so different
records (`LessonsApart`).

`LossOnAssistantTurns` is about a search: the code renders the messages and then
looks for their texts, one after another, to find where the loss is. The search
is not right for every text. One that begins with a symbol of the template
(`assistant`, a newline) is found in a header; one whose thought the template
leaves out, and which a tool then repeats whole, is found in the tool's answer;
so is one whose thought began with a tool's tag. `TextsStandApart` excludes these
and nothing else: texts may repeat each other, contain the template's marks
later on, or be empty. Its argument: only symbols of the template stand between the
cursor and the turn of the next message (`Reached`), so its text is not found
before that turn (`NotBefore`), and is found in it (`ContentFound`); of the texts
found there the longest is what the template kept (`TurnFound`), so the cursor
ends before the turn's end marker and the mask is the turn (`StepMasks`).
`LossOnTurns` carries this through the messages, with the rendered text taken
apart into its turns (`TextsSoFarFacts`, `FlattenUnfolds`, `RenderedTurns`); an assistant
text that is not found is reported (`lost`), and no row of which one was lost is
cached (`NoLossIsCached`). The run evaluates the hypothesis for its histories.

`SdpoTurnsProofs` proves, for any limit on tokens and turns, and any number of
ranks, steps, other rows and exceptions:

| Theorem | States |
|---|---|
| `SdpoInvariant` | the inductive invariant `IInv` |
| `SdpoTypeCorrect` | `TypeOK` |
| `UpdatesAreWhole` | `UpdateIsWhole` |
| `LossStaysOnModelTokens` | `LossIsOnModelTokens` |
| `SpokenTurnsTaughtTheirOwn` | `SpokenTurnsAreTaughtTheirOwn` |

It assumes `SdpoAssumption` only. Tokens lie turn after turn, and a tool's
answer stands between the tokens of two turns (`InTurns`); for that the
invariant says at which `pc` the last token is of which turn (`AtWork`): a loop
that generates has just had an answer. Each reported turn has the length of its
tokens (`Reported`). From these the two ways of finding a turn's span are
correct: by lengths, since the tokens before turn `k` are as many as the lengths
before it (`TokensBeforeCount`, by induction), and by runs of the mask, since the
runs and the turns begin at the same places (`SpanOfRuns`). When no turn is
blank, the kept turns are all turns (`AllKept`), and the k-th prompt has the k-th
text, block and span. For the update, ranks that raised stand at the first step
of the library's update until all have raised (`InUpdate`), since a collective
moves only ranks that wait for the same one; so the library's steps are taken by
all or by none.

Only model-checked, with the reason:

* Liveness (`EventuallyDone`, `StartAndStopEnd`, `EventuallyServed`,
  `EveryLoopEnds`, `CollectEnds`, `SftEnds`, `SdpoEnds`), which is out of the
  prover's reach; so is `ENABLED`.
* The three violations, which are about what does not hold.

Induction over data is done with the `Induction` rule of `RowSelectionProofs`;
the library's own induction theorems take operators, which the provers cannot
instantiate.

## Plan

Done: the outer loop and its contract, the controller's processes, the probe,
the slots, pool and collector, row selection, tasks and their caches, token
cache and trainer, turns and their supervision, the launch of SDPO. What would
come next, in order of importance:

1. An orphaned trainer and the tree it still writes to: `ProcessGroups` with the
   trees of `RftRuntimeLoop`.
2. `ProcessGroups` shown to implement the servers of `RftRuntimeLoop`, under
   the exceptions above.
3. Stragglers of tool calls that timed out, in the container of `RolloutCollector`.

## Not modelled

* Numerical work: losses, gradients, advantages, the merge of LoRA weights.
* The scripts run inside containers (`docker_executor.py`, the probes of the
  preflight): what they print and exit with is a choice, where a caller decides
  on it.
* Parsing of action formats and the wording of prompts, teacher prompts and
  feedback: text in, text out. Whether a turn parses is a choice.
* The turn generator: one HTTP request a turn, whose outcome is a choice.
* Configuration and command lines: validation of values without state.
* `small_swe_runtime_patches.py` and `main_ppo_entry.py`: they replace
  functions of particular versions of veRL, vLLM and transformers; what they
  wrap is not in the repository.
* `run_rft.sh`, the pilot scripts and the environment set-up of `run_sdpo.sh`.
* The gate's fallback to a semaphore when lock files cannot be created: within
  one process it is the same gate, and across processes it is no gate.

`PROJECT.json` gives each part its status.
