------------------------------ MODULE TaskPool ------------------------------
(***************************************************************************)
(* What env/task_dataset.py makes of a dataset: the filter of the cached   *)
(* bad tasks, the labels of a rollout probe, the pool of valid and         *)
(* logically distinct tasks, its train and eval partitions, the batch of   *)
(* an outer step and the SDPO prompt rows.                                 *)
(*                                                                         *)
(* A task is the index of its row in Dataset.  A row says whether it can   *)
(* be coerced, its id, its image, its logical identity (two rows of one    *)
(* identity state the same problem with the same tests), its family,       *)
(* whether its problem statement is too long for SDPO, what a probe of it  *)
(* finds, and where the hashes of the two splits rank it.                  *)
(***************************************************************************)
EXTENDS Integers, Sequences, FiniteSets, SequencesExt, Subsequences

CONSTANTS Dataset,    \* sequence of rows
          None        \* no file, no limit, no value

VARIABLE banding      \* the difficulty_banding settings of the run, and the
                      \* probe cache they name

Rows == DOMAIN Dataset

Ids == {Dataset[i].id : i \in Rows}

Images == {Dataset[i].image : i \in Rows}

-----------------------------------------------------------------------------
(* The bad-task cache: the sets it lists and the records of its probes.    *)

\* _load_bad_task_filter: what is listed, and id and image of every record
\* that is bad, whatever the reason.
LoadedFilter(file) ==
    IF file = None
    THEN [ids |-> {}, images |-> {}]
    ELSE LET bad == {r \in file.records : r.status = "bad"}
         IN  [ids    |-> file.ids \cup {r.id : r \in bad},
              images |-> file.images \cup {r.image : r \in bad}]

IsCachedBad(i, filter) ==
    Dataset[i].id \in filter.ids \/ Dataset[i].image \in filter.images

-----------------------------------------------------------------------------
(* The cache of a rollout probe (difficulty bands).                        *)

\* _load_rollout_probe_cache_records_cached: a cache covers part of the
\* pool when it is unfinished or was asked for part of it.
IsPartialCoverage(cache) ==
    \/ ~cache.complete
    \/ cache.partition # "all"
    \/ cache.start # 0
    \/ cache.limit # None
    \/ cache.expected # cache.poolSize

\* Reading the cache raises ("Difficulty-band ..."), which no reader skips.
ProbeCacheRaises ==
    /\ banding.strategy = "rollout_probe"
    /\ IF banding.cache = None
       THEN banding.required
       ELSE \/ banding.cache.damaged
            \/ ~banding.cache.complete /\ ~banding.acceptPartial

IsPartialProbe ==
    /\ banding.strategy = "rollout_probe"
    /\ banding.acceptPartial
    /\ banding.cache # None
    /\ IsPartialCoverage(banding.cache)

\* _resolve_partial_rollout_probe_cached_partition
CachedPartition == IF IsPartialProbe THEN banding.cache.partition ELSE None

ProbeBands ==
    IF banding.strategy = "rollout_probe" /\ banding.cache # None
    THEN banding.cache.bands ELSE <<>>

IsLabelled(i) == IsPartialProbe => Dataset[i].id \in DOMAIN ProbeBands

\* _coerce_task_row of a valid row raises, and _should_reraise_task_row_error
\* lets it through, when a required label is missing.
MissesRequiredLabel(i) ==
    /\ banding.strategy = "rollout_probe"
    /\ banding.required
    /\ Dataset[i].valid
    /\ Dataset[i].id \notin DOMAIN ProbeBands

\* _resolve_task_difficulty_metadata
TaskBand(i) ==
    LET row == Dataset[i]
    IN  CASE banding.strategy = "instance_id_family"
               /\ row.family \in DOMAIN banding.families ->
                  banding.families[row.family]
          [] banding.strategy = "rollout_probe"
               /\ row.id \in DOMAIN ProbeBands -> ProbeBands[row.id]
          [] OTHER -> banding.default

-----------------------------------------------------------------------------
(* The pool: labelled, valid, not known to be bad, and the first of its    *)
(* logical identity.                                                       *)

Eligible(filter) ==
    {i \in Rows : IsLabelled(i) /\ Dataset[i].valid /\ ~IsCachedBad(i, filter)}

TaskPool(filter) ==
    LET eligible == Eligible(filter)
    IN  Ascending({i \in eligible :
                      \A j \in eligible :
                          Dataset[j].identity = Dataset[i].identity => i <= j})

PoolRaises ==
    \/ Rows = {}
    \/ ProbeCacheRaises
    \/ \E i \in Rows : IsLabelled(i) /\ MissesRequiredLabel(i)

-----------------------------------------------------------------------------
(* Partitions.  A split reserves a count, or else a percentage and at      *)
(* least minRows, and always leaves a task to train on.                    *)

\* int(total * fraction), at least minRows, at most total - 1.
FractionTarget(total, split) ==
    LET wanted == (total * split.percent) \div 100
        atLeast == IF wanted >= split.minRows THEN wanted ELSE split.minRows
    IN  IF total < 2 \/ split.percent = 0 THEN 0
        ELSE IF atLeast <= total - 1 THEN atLeast ELSE total - 1

EvalTarget(total, split) ==
    IF split.count > 0 THEN split.count ELSE FractionTarget(total, split)

SplitRaises(total, split) == split.count > total - 1 /\ split.count > 0

RftRank(i) == Dataset[i].rftRank

SdpoRank(i) == Dataset[i].sdpoRank

\* The target tasks of lowest rank; equal ranks in the order of the pool.
EvalTasks(tasks, target, Rank(_)) ==
    LET all == ToSet(tasks)
        before(i) == {j \in all : Rank(j) < Rank(i)
                                  \/ (Rank(j) = Rank(i) /\ j < i)}
    IN  {i \in all : Cardinality(before(i)) < target}

\* split_task_samples_for_eval
RftEval(tasks, split) ==
    EvalTasks(tasks, EvalTarget(Len(tasks), split), RftRank)

Train(tasks, held) == Picked(tasks, {k \in DOMAIN tasks : tasks[k] \notin held})

Eval(tasks, held) == Picked(tasks, {k \in DOMAIN tasks : tasks[k] \in held})

\* A partial cache made for train or eval is itself that partition; one made
\* for all, or for the other partition, cannot be split deterministically.
PartitionRefused(partition) ==
    /\ CachedPartition # None
    /\ partition # "all"
    /\ CachedPartition # partition

\* load_task_samples raises.
SamplesRaise(tasks, partition, split) ==
    \/ tasks = <<>>
    \/ PartitionRefused(partition)
    \/ /\ partition # "all"
       /\ CachedPartition \notin {"train", "eval"}
       /\ SplitRaises(Len(tasks), split)

\* load_task_samples
Samples(tasks, partition, split) ==
    IF partition = "all" \/ CachedPartition \in {"train", "eval"} THEN tasks
    ELSE IF partition = "train" THEN Train(tasks, RftEval(tasks, split))
    ELSE Eval(tasks, RftEval(tasks, split))

-----------------------------------------------------------------------------
(* The batch of a step.                                                    *)

BandPriority(band) ==
    CASE band = "easy" -> 0
      [] band = "learnable" -> 1
      [] band = "near_impossible" -> 3
      [] OTHER -> 2

\* _order_tasks_for_stage: easy tasks first in positive_rft, except in an
\* eval partition.
StageOrder(tasks, stage, partition) ==
    IF \/ stage # "positive_rft"
       \/ partition = "eval"
       \/ partition = "all" /\ CachedPartition = "eval"
    THEN tasks
    ELSE LET OfPriority(n) ==
                 Picked(tasks, {k \in DOMAIN tasks :
                                   BandPriority(TaskBand(tasks[k])) = n})
         IN  OfPriority(0) \o OfPriority(1) \o OfPriority(2) \o OfPriority(3)

\* load_task_batch raises when the whole pool is smaller than a batch; a
\* partition, or a partial cache, wraps around.
BatchRaises(tasks, partition, size) ==
    partition = "all" /\ Len(tasks) < size /\ ~IsPartialProbe

\* Faulty variant: a batch begins one task after the one before it.
TaskBatchSliding(tasks, step, size) ==
    [k \in 1..size |-> tasks[((step + k - 1) % Len(tasks)) + 1]]

TaskBatch(tasks, step, size) ==
    LET start == (step * size) % Len(tasks)
    IN  [k \in 1..size |-> tasks[((start + k - 1) % Len(tasks)) + 1]]

-----------------------------------------------------------------------------
(* The SDPO prompt rows and their split.  Their rank is not that of the    *)
(* task they come from: the row of a parquet has no instance_id.           *)

SdpoRows(tasks) == Picked(tasks, {k \in DOMAIN tasks : ~Dataset[tasks[k]].long})

SdpoEval(rows, split) ==
    EvalTasks(rows, FractionTarget(Len(rows), split), SdpoRank)

SdpoTrainRows(rows, split) == Train(rows, SdpoEval(rows, split))

\* An empty eval split becomes a copy of the first train row.
SdpoEvalRows(rows, split) ==
    IF SdpoEval(rows, split) = {}
    THEN <<Head(SdpoTrainRows(rows, split))>>
    ELSE Eval(rows, SdpoEval(rows, split))
=============================================================================
