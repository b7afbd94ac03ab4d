---------------------------- MODULE TaskDataset ----------------------------
(***************************************************************************)
(* The on-policy dataset as its readers and writers meet on disk.          *)
(*                                                                         *)
(* A preflight (env/preflight_onpolicy_dataset.py) probes every task and   *)
(* writes the bad-task cache in place.  The RFT loop reads that cache at   *)
(* the start of a session, to reserve the fixed evaluation tasks, and      *)
(* again for each batch it collects.  Jobs that preload SDPO rows          *)
(* (env/preload_sdpo_dataset.py) read it to name the parquet pair they     *)
(* look for, and again to build the pair when it is not there.             *)
(*                                                                         *)
(* Every reader reads twice: once to name what it wants (the digest of the *)
(* filter), once to build it.                                              *)
(***************************************************************************)
EXTENDS TaskPool

CONSTANTS Bandings,       \* the difficulty_banding settings a run may have
          Splits,         \* what a run may hold out: eval_task_count, or else
                          \* eval_split_fraction (percent) and eval_min_rows
          BatchSize,      \* task_batch_size
          Stage,          \* the stage of the run
          Steps,          \* outer steps of the run
          MaxSessions,    \* sessions of the run, the resumed ones included
          MaxImages,      \* --max-images of the preflight, or None
          Transient,      \* the tasks whose probe may time out
          MaxPreflights,
          Preloaders,     \* the jobs that preload SDPO rows
          Chunk,          \* rows of a parquet row group
          MaxStops,       \* kills and failed writes, all together
          Torn            \* a file that was opened and not finished

ASSUME DatasetAssumption ==
    /\ Dataset \in Seq([valid : BOOLEAN, id : STRING, image : STRING,
                        identity : STRING, family : STRING, long : BOOLEAN,
                        fault : STRING, rftRank : Nat, sdpoRank : Nat])
    /\ \A i, j \in DOMAIN Dataset : Dataset[i].id = Dataset[j].id => i = j

ASSUME TaskDatasetAssumption ==
    /\ Splits \subseteq [count : Nat, percent : 0..99, minRows : Nat]
    /\ BatchSize \in Nat \ {0}
    /\ Stage \in {"format_rft", "positive_rft"}
    /\ Steps \in Nat
    /\ MaxSessions \in Nat
    /\ MaxPreflights \in Nat
    /\ Chunk \in Nat \ {0}
    /\ MaxStops \in Nat
    /\ Transient \subseteq DOMAIN Dataset
    /\ Torn \notin Seq(Rows)

\* What there is not is told from what there may be.
ASSUME NoneAssumption ==
    /\ None \notin {"train", "eval"}
    /\ \A ids \in SUBSET Ids : ids # None

VARIABLES
    split,       \* what this run holds out
    badFile,     \* the bad-task cache: None, Torn, or what it holds
    preflight,   \* [pc, payload] of the preflight
    preflights,  \* preflights started
    session,     \* the process of the RFT loop
    sessions,    \* sessions started
    manifest,    \* fixed_eval_task_ids of the manifest on disk, or None
    committed,   \* the last committed step
    job,         \* the preload job of each of Preloaders
    parquet,     \* the SDPO files, by key and kind
    stops,       \* kills and failed writes so far
    evaluated,   \* the sets of tasks committed steps were evaluated on
    trained,     \* the tasks committed steps were trained on
    drawn,       \* how often committed steps drew each task of the pool
    steady,      \* no cache was published while a session was running
    spoiled      \* the keys a writer left unfinished or built differently

settings == <<banding, split>>
diskVars == <<badFile, preflight, preflights>>
runVars == <<session, sessions, manifest, committed, evaluated, trained, drawn>>
sdpoVars == <<job, parquet, spoiled>>
vars == <<settings, diskVars, runVars, sdpoVars, stops, steady>>

Readable == badFile # Torn

Filter == LoadedFilter(badFile)

\* f with value under key, whether or not there was one.
Stored(f, key, value) ==
    [k \in DOMAIN f \cup {key} |-> IF k = key THEN value ELSE f[k]]

-----------------------------------------------------------------------------
(* The preflight.                                                          *)

TaskScoped == {"selector_invalid", "selector_probe_failed"}

\* _probe_task and _classify_probe_record: what a probe finds, unless it does
\* not end in time.  A container or an image probe that is late fails the
\* image, a late probe of the selectors the task.
Lateness == {"", "probe_command_failed", "selector_probe_failed"}

Reason(i, late) ==
    IF i \in DOMAIN late /\ late[i] # "" THEN late[i] ELSE Dataset[i].fault

\* The first --max-images images in the order of the dataset.
SelectedRows ==
    LET valid == {i \in Rows : Dataset[i].valid}
        earlier(i) == {Dataset[j].image : j \in {k \in valid : k < i}}
        first(i) == CHOOSE j \in valid :
                        /\ Dataset[j].image = Dataset[i].image
                        /\ Dataset[j].image \notin earlier(j)
    IN  IF MaxImages = None THEN valid
        ELSE {i \in valid : Cardinality(earlier(first(i))) < MaxImages}

ProbeRecord(i, reason) ==
    [id     |-> Dataset[i].id,
     image  |-> Dataset[i].image,
     status |-> IF reason = "" THEN "ok" ELSE "bad",
     reason |-> reason]

\* scan_dataset_for_bad_verifier_tasks: a failure of the task alone lists
\* the task, any other its image and every selected task on that image.
Payload(records) ==
    LET bad == {r \in records : r.status = "bad"}
        images == {r.image : r \in {b \in bad : b.reason \notin TaskScoped}}
    IN  [ids     |-> {r.id : r \in {b \in bad : b.reason \in TaskScoped}}
                     \cup {Dataset[i].id : i \in
                              {j \in SelectedRows : Dataset[j].image \in images}},
         images  |-> images,
         records |-> records]

\* An existing file is served as it is unless --force-refresh is given.
StartPreflight ==
    /\ preflight.pc = "off"
    /\ preflights < MaxPreflights
    /\ preflight' = [preflight EXCEPT !.pc = "scan"]
    /\ preflights' = preflights + 1
    /\ UNCHANGED <<settings, badFile, runVars, sdpoVars, stops, steady>>

Scan ==
    /\ preflight.pc = "scan"
    /\ \E late \in [SelectedRows \cap Transient -> Lateness] :
          preflight' = [pc |-> "open",
                        payload |-> Payload({ProbeRecord(i, Reason(i, late)) :
                                                i \in SelectedRows})]
    /\ UNCHANGED <<settings, badFile, preflights, runVars, sdpoVars, stops, steady>>

\* _write_cache: Path.write_text truncates the file ...
OpenCache ==
    /\ preflight.pc = "open"
    /\ badFile' = Torn
    /\ preflight' = [preflight EXCEPT !.pc = "write"]
    /\ UNCHANGED <<settings, preflights, runVars, sdpoVars, stops, steady>>

\* ... and writes it.
CloseCache ==
    /\ preflight.pc = "write"
    /\ badFile' = preflight.payload
    /\ preflight' = [pc |-> "off", payload |-> None]
    /\ steady' = (steady /\ session.pc = "off")
    /\ UNCHANGED <<settings, preflights, runVars, sdpoVars, stops>>

KillPreflight ==
    /\ preflight.pc # "off"
    /\ stops < MaxStops
    /\ preflight' = [pc |-> "off", payload |-> None]
    /\ stops' = stops + 1
    /\ UNCHANGED <<settings, badFile, preflights, runVars, sdpoVars, steady>>

-----------------------------------------------------------------------------
(* A session of the RFT loop.  pools is the lru_cache of                   *)
(* _load_hf_task_pool_cached: the pool built for each digest seen, by the  *)
(* process; name is the digest it is about to use.  fixed is what the      *)
(* manifest in its memory holds out, eval what this step was evaluated on. *)
(* Every step here trains; RftRuntimeLoop has those that do not.           *)

Idle == [pc |-> "off", step |-> 0, name |-> None, pools |-> <<>>,
         fixed |-> {}, batch |-> <<>>, eval |-> {}]

Reading == session.pc \in {"start", "train", "eval"}

HoldsOut == split.count > 0 \/ split.percent > 0

TrainPartition == IF HoldsOut THEN "train" ELSE "all"

IdsOf(tasks) == {Dataset[i].id : i \in ToSet(tasks)}

\* validate_fixed_eval_task_pool reads no pool when no count is configured.
StartSession ==
    /\ session.pc = "off"
    /\ sessions < MaxSessions
    /\ committed < Steps - 1
    /\ session' = [Idle EXCEPT !.pc = IF split.count > 0 THEN "start" ELSE "train",
                               !.step = committed + 1]
    /\ sessions' = sessions + 1
    /\ UNCHANGED <<settings, manifest, committed, evaluated, trained, drawn,
                   diskVars, sdpoVars, stops, steady>>

EndSession ==
    /\ session' = Idle
    /\ UNCHANGED <<settings, sessions, manifest, committed, evaluated, trained, drawn,
                   diskVars, sdpoVars, steady>>

\* _load_task_pool: the filter is read and its digest names the pool.
NamePool ==
    /\ Reading
    /\ session.name = None
    /\ Readable
    /\ session' = [session EXCEPT !.name = Filter]
    /\ UNCHANGED <<settings, sessions, manifest, committed, evaluated, trained, drawn,
                   diskVars, sdpoVars, stops, steady>>

Named == session.name # None /\ session.name \notin DOMAIN session.pools

\* A pool not built before is built from the filter as it is read now.
BuildPool ==
    /\ Reading
    /\ Named
    /\ Readable
    /\ ~PoolRaises
    /\ session' = [session EXCEPT
                      !.pools = Stored(@, session.name, TaskPool(Filter))]
    /\ UNCHANGED <<settings, sessions, manifest, committed, evaluated, trained, drawn,
                   diskVars, sdpoVars, stops, steady>>

\* A torn cache is no JSON, and a required label may be missing.
PoolUnavailable ==
    /\ Reading
    /\ \/ session.name = None /\ ~Readable
       \/ Named /\ (~Readable \/ PoolRaises)
    /\ UNCHANGED stops
    /\ EndSession

HasPool == session.name \in DOMAIN session.pools

Pool == session.pools[session.name]

\* _load_existing_runtime_manifest: the file is looked at only once a step is
\* committed.
StoredFixed == IF committed = -1 THEN None ELSE manifest

\* Faulty variant: the stored tasks are not compared with the ones resolved.
FixedPoolRefusedOnlyWithoutStore(fixed) == StoredFixed = None /\ committed >= 0

\* resolve_fixed_eval_task_ids_for_run: a resumed run must hold out the tasks
\* it held out before.
FixedPoolRefused(fixed) ==
    IF StoredFixed = None THEN committed >= 0 ELSE StoredFixed # fixed

\* The manifest in memory has the tasks; the file has them from the first
\* step on that writes it.
ReserveFixedPool ==
    /\ session.pc = "start"
    /\ HasPool
    /\ ~SamplesRaise(Pool, "eval", split)
    /\ LET fixed == IdsOf(Samples(Pool, "eval", split))
       IN  /\ Cardinality(fixed) = split.count
           /\ ~FixedPoolRefused(fixed)
           /\ session' = [session EXCEPT !.pc = "train", !.name = None,
                                          !.fixed = fixed]
    /\ UNCHANGED <<settings, sessions, manifest, committed, evaluated, trained, drawn,
                   diskVars, sdpoVars, stops, steady>>

RefuseFixedPool ==
    /\ session.pc = "start"
    /\ HasPool
    /\ \/ SamplesRaise(Pool, "eval", split)
       \/ LET fixed == IdsOf(Samples(Pool, "eval", split))
          IN  Cardinality(fixed) # split.count \/ FixedPoolRefused(fixed)
    /\ UNCHANGED stops
    /\ EndSession

CollectTrain ==
    /\ session.pc = "train"
    /\ HasPool
    /\ ~SamplesRaise(Pool, TrainPartition, split)
    /\ LET tasks == StageOrder(Samples(Pool, TrainPartition, split),
                               Stage, TrainPartition)
       IN  /\ ~BatchRaises(tasks, TrainPartition, BatchSize)
           /\ session' = [session EXCEPT
                             !.pc = IF HoldsOut THEN "eval" ELSE "commit",
                             !.name = None,
                             !.batch = TaskBatch(tasks, session.step, BatchSize)]
           /\ drawn' = IF DOMAIN drawn = ToSet(tasks) THEN drawn
                       ELSE [i \in ToSet(tasks) |-> 0]
    /\ UNCHANGED <<settings, sessions, manifest, committed, evaluated, trained,
                   diskVars, sdpoVars, stops, steady>>

\* The batch of the evaluation is the whole fixed set when there is one.
EvalBatchSize == IF split.count > 0 THEN split.count ELSE BatchSize

CollectEval ==
    /\ session.pc = "eval"
    /\ HasPool
    /\ ~SamplesRaise(Pool, "eval", split)
    /\ LET tasks == Samples(Pool, "eval", split)
       IN  session' = [session EXCEPT
              !.pc = "commit",
              !.name = None,
              !.eval = IF tasks = <<>> THEN {}
                       ELSE IdsOf(TaskBatch(tasks, session.step, EvalBatchSize))]
    /\ UNCHANGED <<settings, sessions, manifest, committed, evaluated, trained, drawn,
                   diskVars, sdpoVars, stops, steady>>

\* load_task_batch raises, and with it the session.
CollectRaises ==
    /\ HasPool
    /\ \/ /\ session.pc = "train"
          /\ \/ SamplesRaise(Pool, TrainPartition, split)
             \/ BatchRaises(Samples(Pool, TrainPartition, split),
                            TrainPartition, BatchSize)
       \/ /\ session.pc = "eval"
          /\ SamplesRaise(Pool, "eval", split)
    /\ UNCHANGED stops
    /\ EndSession

Occurrences(batch, i) == Cardinality({k \in DOMAIN batch : batch[k] = i})

\* The step is trained; its manifest is written ...
WriteManifest ==
    /\ session.pc = "commit"
    /\ manifest' = session.fixed
    /\ session' = [session EXCEPT !.pc = "pointer"]
    /\ UNCHANGED <<settings, sessions, committed, evaluated, trained, drawn,
                   diskVars, sdpoVars, stops, steady>>

\* ... and then the pointer commits it; the session goes on or is over.
CommitStep ==
    /\ session.pc = "pointer"
    /\ committed' = session.step
    /\ trained' = trained \cup ToSet(session.batch)
    /\ evaluated' = IF HoldsOut THEN evaluated \cup {session.eval} ELSE evaluated
    /\ drawn' = [i \in DOMAIN drawn |-> drawn[i] + Occurrences(session.batch, i)]
    /\ session' = IF session.step = Steps - 1 THEN Idle
                  ELSE [session EXCEPT !.pc = "train", !.step = @ + 1,
                                       !.batch = <<>>, !.eval = {}]
    /\ UNCHANGED <<settings, sessions, manifest, diskVars, sdpoVars, stops, steady>>

KillSession ==
    /\ session.pc # "off"
    /\ stops < MaxStops
    /\ stops' = stops + 1
    /\ EndSession

-----------------------------------------------------------------------------
(* A preload job of SDPO rows: names the pair by the filter, serves it when *)
(* both files are there, else builds the rows and writes train, then val,  *)
(* each in place.                                                          *)

Unstarted == [pc |-> "off", key |-> None, train |-> <<>>, val |-> <<>>]

PathOf(p, kind) == <<job[p].key, kind>>

Writers(key, kind) == {p \in Preloaders : job[p].key = key /\ job[p].pc = kind}

IsFile(key, kind) == <<key, kind>> \in DOMAIN parquet

\* Faulty variant: one file of the pair is enough.
PairIsThereByTrain(key) == IsFile(key, "train")

PairIsThere(key) == IsFile(key, "train") /\ IsFile(key, "val")

\* resolve_sdpo_task_split_cache_paths: the digest of everything the rows
\* depend on, of which only the filter changes.
PairKey(filter) == filter

NamePair(p) ==
    /\ job[p].pc = "off"
    /\ Readable
    /\ \E forceRefresh \in BOOLEAN :
          LET key == PairKey(Filter)
          IN  job' = [job EXCEPT ![p].key = key,
                                 ![p].pc = IF PairIsThere(key) /\ ~forceRefresh
                                           THEN "served" ELSE "build"]
    /\ UNCHANGED <<settings, parquet, spoiled, diskVars, runVars, stops, steady>>

\* The cache cannot be read, or no row remains.
PreloadRaises(p) ==
    /\ \/ job[p].pc = "off" /\ ~Readable
       \/ /\ job[p].pc = "build"
          /\ Readable => (PoolRaises \/ SdpoRows(TaskPool(Filter)) = <<>>)
    /\ job' = [job EXCEPT ![p].pc = "raised"]
    /\ UNCHANGED <<settings, parquet, spoiled, diskVars, runVars, stops, steady>>

BuildRows(p) ==
    /\ job[p].pc = "build"
    /\ Readable
    /\ ~PoolRaises
    /\ LET rows == SdpoRows(TaskPool(Filter))
       IN  /\ rows # <<>>
           /\ job' = [job EXCEPT ![p].pc = "split",
                                 ![p].train = SdpoTrainRows(rows, split),
                                 ![p].val = SdpoEvalRows(rows, split)]
    /\ spoiled' = IF PairKey(Filter) = job[p].key THEN spoiled
                  ELSE spoiled \cup {job[p].key}
    /\ UNCHANGED <<settings, parquet, diskVars, runVars, stops, steady>>

\* ParquetWriter(target) truncates the file; without its footer no reader
\* takes it.
OpenParquet(p, kind) ==
    /\ job' = [job EXCEPT ![p].pc = kind]
    /\ parquet' = Stored(parquet, PathOf(p, kind), Torn)
    /\ UNCHANGED <<settings, spoiled, diskVars, runVars, stops, steady>>

\* A file is whole when the last of its writers closes it.
CloseParquet(p, kind, rows, next) ==
    /\ job[p].pc = kind
    /\ job' = [job EXCEPT ![p].pc = next]
    /\ parquet' = IF Writers(job[p].key, kind) = {p}
                  THEN Stored(parquet, PathOf(p, kind), rows) ELSE parquet
    /\ UNCHANGED <<settings, spoiled, diskVars, runVars, stops, steady>>

WriteTrain(p) == job[p].pc = "split" /\ OpenParquet(p, "train")

CloseTrain(p) == CloseParquet(p, "train", job[p].train, "between")

WriteVal(p) == job[p].pc = "between" /\ OpenParquet(p, "val")

CloseVal(p) == CloseParquet(p, "val", job[p].val, "served")

\* An exception between two row groups: the finally clause closes the writer
\* and with it a file that holds the groups written so far.
WriteFails(p) ==
    /\ job[p].pc \in {"train", "val"}
    /\ stops < MaxStops
    /\ LET rows == IF job[p].pc = "train" THEN job[p].train ELSE job[p].val
       IN  \E groups \in 0..(Len(rows) - 1) :
              /\ groups * Chunk < Len(rows)
              /\ parquet' = Stored(parquet, PathOf(p, job[p].pc),
                                   SubSeq(rows, 1, groups * Chunk))
    /\ job' = [job EXCEPT ![p].pc = "raised"]
    /\ stops' = stops + 1
    /\ spoiled' = spoiled \cup {job[p].key}
    /\ UNCHANGED <<settings, diskVars, runVars, steady>>

KillPreload(p) ==
    /\ job[p].pc \in {"build", "split", "train", "between", "val"}
    /\ stops < MaxStops
    /\ job' = [job EXCEPT ![p].pc = "killed"]
    /\ stops' = stops + 1
    /\ spoiled' = IF job[p].pc \in {"train", "val"}
                  THEN spoiled \cup {job[p].key} ELSE spoiled
    /\ UNCHANGED <<settings, parquet, diskVars, runVars, steady>>

-----------------------------------------------------------------------------
Init ==
    /\ banding \in Bandings
    /\ split \in Splits
    /\ badFile = None
    /\ preflight = [pc |-> "off", payload |-> None]
    /\ preflights = 0
    /\ session = Idle
    /\ sessions = 0
    /\ manifest = None
    /\ committed = -1
    /\ evaluated = {}
    /\ trained = {}
    /\ drawn = <<>>
    /\ job = [p \in Preloaders |-> Unstarted]
    /\ parquet = <<>>
    /\ stops = 0
    /\ steady = TRUE
    /\ spoiled = {}

Preflight ==
    StartPreflight \/ Scan \/ OpenCache \/ CloseCache \/ KillPreflight

Session ==
    \/ StartSession \/ NamePool \/ BuildPool \/ PoolUnavailable
    \/ ReserveFixedPool \/ RefuseFixedPool
    \/ CollectTrain \/ CollectEval \/ CollectRaises
    \/ WriteManifest \/ CommitStep \/ KillSession

Preload(p) ==
    \/ NamePair(p) \/ PreloadRaises(p) \/ BuildRows(p)
    \/ WriteTrain(p) \/ CloseTrain(p) \/ WriteVal(p) \/ CloseVal(p)
    \/ WriteFails(p) \/ KillPreload(p)

Next == Preflight \/ Session \/ \E p \in Preloaders : Preload(p)

Spec == Init /\ [][Next]_vars

-----------------------------------------------------------------------------
Filters == [ids : SUBSET Ids, images : SUBSET Images]

\* Every variable has its type: the caches are what a scan or a preload
\* writes, a session holds pools it named, and the counters stay in bounds.
TypeOK ==
    /\ badFile \in {None, Torn} \/ Filter \in Filters
    /\ preflight.pc \in {"off", "scan", "open", "write"}
    /\ preflight.payload = None \/ LoadedFilter(preflight.payload) \in Filters
    /\ session.pc \in {"off", "start", "train", "eval", "commit", "pointer"}
    /\ session.name = None \/ session.name \in Filters
    /\ DOMAIN session.pools \subseteq Filters
    /\ session.step \in 0..Steps
    /\ session.batch \in Seq(Rows)
    /\ session.fixed \subseteq Ids /\ session.eval \subseteq Ids
    /\ manifest = None \/ manifest \subseteq Ids
    /\ committed \in -1..(Steps - 1)
    /\ \A e \in evaluated : e \subseteq Ids
    /\ trained \subseteq Rows
    /\ DOMAIN drawn \subseteq Rows
    /\ \A i \in DOMAIN drawn : drawn[i] \in Nat
    /\ \A p \in Preloaders :
          /\ job[p].pc \in {"off", "build", "split", "train", "between", "val",
                            "served", "raised", "killed"}
          /\ job[p].train \in Seq(Rows) /\ job[p].val \in Seq(Rows)
    /\ \A path \in DOMAIN parquet :
          parquet[path] = Torn \/ parquet[path] \in Seq(Rows)
    /\ preflights \in 0..MaxPreflights
    /\ sessions \in 0..MaxSessions
    /\ stops \in 0..MaxStops

Identities(tasks) == {Dataset[i].identity : i \in tasks}

\* Over all sessions of a run with a fixed evaluation count, every committed
\* step was evaluated on the same tasks, as many as were asked for, the ones
\* on disk, and no committed step trained on a task that states the same
\* problem as one of them: not after a crash, and not when the bad-task cache
\* changed between two sessions.  A run killed before its first commit leaves
\* a manifest that nobody reads, and starts over with the pool it finds.
\* The exception is a cache published while a session runs, which the
\* session takes up without comparing the fixed tasks again.
HeldOutStaysHeldOut ==
    split.count > 0 /\ steady =>
        \A e \in evaluated :
            /\ e = manifest
            /\ Cardinality(e) = split.count
            /\ Identities(trained)
                 \cap Identities({i \in Rows : Dataset[i].id \in e}) = {}

\* Whatever the batch size and wherever crashes fall, the steps committed
\* since the pool last changed drew every task of the train partition
\* equally often, give or take one.
TasksAreDrawnEvenly ==
    \A i, j \in DOMAIN drawn : drawn[i] - drawn[j] \in -1..1

\* A preload job that serves a pair serves files that are there; once nobody
\* writes them they are whole, and they split the rows of the filter in
\* their name: every row is in one of the two, and in both only the first
\* row, when the split reserves none.  The exceptions are a pair whose
\* writer was stopped, which every later job serves, and one built from
\* a cache that was published after the pair was named.  (With the types.)
ServedPairIsTheSplit ==
    TypeOK /\ \A p \in Preloaders :
        LET key  == job[p].key
            rows == SdpoRows(TaskPool(key))
        IN  job[p].pc = "served" =>
            /\ IsFile(key, "train") /\ IsFile(key, "val")
            /\ (Writers(key, "train") \cup Writers(key, "val") = {}
                  /\ key \notin spoiled) =>
                LET train == parquet[<<key, "train">>]
                    val   == parquet[<<key, "val">>]
                IN  /\ train # Torn /\ val # Torn
                    /\ ToSet(train) \cup ToSet(val) = ToSet(rows)
                    /\ \/ ToSet(train) \cap ToSet(val) = {}
                       \/ val = <<Head(train)>> /\ train = rows

\* The preflight keeps a failure of one task's selectors to that task: a
\* task all of whose probes passed stays in the pool
\* (tests/test_preflight_onpolicy_dataset.py:207-254).
ProbedTasksStayInThePool ==
    badFile \notin {None, Torn} =>
        \A r \in badFile.records :
            r.status = "ok" =>
                \E i \in Rows : Dataset[i].id = r.id /\ ~IsCachedBad(i, Filter)
=============================================================================
