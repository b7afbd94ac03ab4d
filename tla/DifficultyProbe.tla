--------------------------- MODULE DifficultyProbe ---------------------------
(***************************************************************************)
(* The difficulty probe, src/src/env/preload_onpolicy_difficulty_bands.py: *)
(* every task of a pool is probed by rollouts in a thread pool, one record *)
(* a task, and the records become a cache file.  Work survives an abort in *)
(* two files beside the cache: a progress file (metadata and a count,      *)
(* replaced atomically) and a records file (one appended line a task).     *)
(* The cache path does not depend on the whole metadata (the initial model *)
(* is missing), so runs of different metadata share the three files.       *)
(***************************************************************************)
EXTENDS Integers, Sequences, FiniteSets

CONSTANTS
    TaskCount,   \* the size of the selected pool
    Configs,     \* values of expected_cache_metadata
    Window,      \* submission_window
    Workers      \* max_workers of the executor

NoConfig == "none"
Tasks == 1 .. TaskCount    \* in pool order

ASSUME ProbeAssumption ==
    TaskCount \in Nat \ {0} /\ Window \in Nat \ {0} /\ Workers \in Nat \ {0}
ASSUME ConfigAssumption == NoConfig \notin Configs

\* A record, of its task and of the metadata it was really probed under.
Record == [task : Tasks, config : Configs]

VARIABLES
    cache,      \* the cache file: [config, made], config NoConfig when absent
    progress,   \* the .partial.json file: [config, count]
    records,    \* the .partial.records.jsonl file: [exists, lines, tail]
    pc, config,
    known,      \* records_by_task_id
    todo,       \* what task_iterator has left, ascending
    future,     \* the state of each submitted task's future
    batch,      \* the done set of wait, not yet processed
    current     \* the task being processed

disk == <<cache, progress, records>>
pool == <<todo, future, batch>>
probeVars == <<disk, pc, config, known, pool, current>>

StoppedPc == {"idle", "refused", "served"}
RunPc     == {"drop_progress", "drop_records", "open", "wait", "take", "append",
              "progress", "save", "clean_progress", "clean_records"}

Empty    == [t \in Tasks |-> NoConfig]
NoFuture == [t \in Tasks |-> "none"]
NoFile   == [exists |-> FALSE, lines |-> <<>>, tail |-> "clean"]

-----------------------------------------------------------------------------
(* Faulty variants of the definitions below *)

\* Resume skips the first task_count_completed tasks of the pool.
TodoByCount == {t \in Tasks : t > progress.count}

\* The leftovers of other metadata lose their progress file only.
DropRecordsSkipped ==
    /\ pc = "drop_records"
    /\ pc' = "open"
    /\ known' = Empty
    /\ todo' = Tasks
    /\ UNCHANGED <<disk, config, future, batch, current>>

\* Processed futures still count against the window.
RefillNeverFreed ==
    {t \in todo : Cardinality({u \in todo : u < t}) < Window - Cardinality(Tasks \ todo)}

-----------------------------------------------------------------------------
(* Helpers *)

Pending == {t \in Tasks : future[t] # "none"}

\* _cache_metadata_matches and _cache_payload_covers_tasks
CacheServes(c) == cache.config = c /\ \A t \in Tasks : cache.made[t] # NoConfig

\* _load_resumable_records accepts the records file.
RecordsLoad ==
    /\ records.exists
    /\ records.tail # "garbled"
    /\ \A i, j \in DOMAIN records.lines :
          records.lines[i].task = records.lines[j].task => i = j

LoadedRecords ==
    [t \in Tasks |->
        IF \E i \in DOMAIN records.lines : records.lines[i].task = t
        THEN LET i == CHOOSE i \in DOMAIN records.lines : records.lines[i].task = t
             IN  records.lines[i].config
        ELSE NoConfig]

\* remaining_indexed_tasks of a resumed run
Remaining == {t \in Tasks : LoadedRecords[t] = NoConfig}

\* What the submission loop takes next: the window is filled in pool order.
Refill ==
    {t \in todo : Cardinality({u \in todo : u < t}) < Window - Cardinality(Pending)}

\* _append_partial_record; a line without its newline swallows the next one.
AppendedRecords(t) ==
    [exists |-> TRUE,
     lines  |-> Append(records.lines, [task |-> t, config |-> config]),
     tail   |-> IF records.tail = "open" THEN "garbled" ELSE records.tail]

KnownCount == Cardinality({t \in Tasks : known[t] # NoConfig})

-----------------------------------------------------------------------------
ProbeInit ==
    /\ cache = [config |-> NoConfig, made |-> Empty]
    /\ progress = [config |-> NoConfig, count |-> 0]
    /\ records = NoFile
    /\ pc = "idle"
    /\ config = NoConfig
    /\ known = Empty
    /\ todo = {}
    /\ future = NoFuture
    /\ batch = {}
    /\ current = 0

\* The process ends: nothing of its memory remains.
Forget ==
    /\ config' = NoConfig
    /\ known' = Empty
    /\ todo' = {}
    /\ future' = NoFuture
    /\ batch' = {}
    /\ current' = 0

-----------------------------------------------------------------------------
(* main, up to the probe loop *)

Serve(c) ==
    /\ pc \in StoppedPc
    /\ CacheServes(c)
    /\ pc' = "served"
    /\ UNCHANGED <<disk, config, known, pool, current>>

\* The progress file matches but its records do not load: the run fails.
RefuseResume(c) ==
    /\ pc \in StoppedPc
    /\ ~CacheServes(c)
    /\ progress.config = c
    /\ ~RecordsLoad
    /\ pc' = "refused"
    /\ UNCHANGED <<disk, config, known, pool, current>>

Resume(c) ==
    /\ pc \in StoppedPc
    /\ ~CacheServes(c)
    /\ progress.config = c
    /\ RecordsLoad
    /\ config' = c
    /\ known' = LoadedRecords
    /\ todo' = Remaining
    /\ pc' = IF Remaining = {} THEN "save" ELSE "open"
    /\ UNCHANGED <<disk, future, batch, current>>

\* Nothing to resume: both files are dropped, the progress file first.
StartFresh(c) ==
    /\ pc \in StoppedPc
    /\ ~CacheServes(c)
    /\ progress.config # c
    /\ config' = c
    /\ pc' = "drop_progress"
    /\ UNCHANGED <<disk, known, pool, current>>

\* --force-refresh looks at neither the cache nor the progress.
ForceRefresh(c) ==
    /\ pc \in StoppedPc
    /\ config' = c
    /\ pc' = "drop_progress"
    /\ UNCHANGED <<disk, known, pool, current>>

DropProgress ==
    /\ pc = "drop_progress"
    /\ progress' = [config |-> NoConfig, count |-> 0]
    /\ pc' = "drop_records"
    /\ UNCHANGED <<cache, records, config, known, pool, current>>

DropRecords ==
    /\ pc = "drop_records"
    /\ records' = NoFile
    /\ known' = Empty
    /\ todo' = Tasks
    /\ pc' = "open"
    /\ UNCHANGED <<cache, progress, config, future, batch, current>>

-----------------------------------------------------------------------------
(* _probe_tasks_with_progress_writes *)

\* The progress file is written before the records file exists; then the
\* window is filled.
Open ==
    /\ pc = "open"
    /\ progress' = [config |-> config, count |-> KnownCount]
    /\ future' = [t \in Tasks |-> IF t \in Refill THEN "queued" ELSE future[t]]
    /\ todo' = todo \ Refill
    /\ pc' = "wait"
    /\ UNCHANGED <<cache, records, config, known, batch, current>>

\* A worker takes the oldest queued future.
WorkerStarts(t) ==
    /\ future[t] = "queued"
    /\ \A u \in Tasks : u < t => future[u] # "queued"
    /\ Cardinality({u \in Tasks : future[u] = "running"}) < Workers
    /\ future' = [future EXCEPT ![t] = "running"]
    /\ UNCHANGED <<disk, pc, config, known, todo, batch, current>>

WorkerEnds(t) ==
    /\ future[t] = "running"
    /\ future' = [future EXCEPT ![t] = "ok"]
    /\ UNCHANGED <<disk, pc, config, known, todo, batch, current>>

\* The collector raises, or every attempt is infra-invalid.
WorkerFails(t) ==
    /\ future[t] = "running"
    /\ future' = [future EXCEPT ![t] = "failed"]
    /\ UNCHANGED <<disk, pc, config, known, todo, batch, current>>

\* wait(FIRST_COMPLETED) returns every future done by then.
Wait ==
    /\ pc = "wait"
    /\ \E t \in Tasks : future[t] \in {"ok", "failed"}
    /\ batch' = {t \in Tasks : future[t] \in {"ok", "failed"}}
    /\ pc' = "take"
    /\ UNCHANGED <<disk, config, known, todo, future, current>>

Take ==
    /\ pc = "take"
    /\ \E t \in batch :
        /\ future[t] = "ok"
        /\ future' = [future EXCEPT ![t] = "none"]
        /\ batch' = batch \ {t}
        /\ current' = t
    /\ pc' = "append"
    /\ UNCHANGED <<disk, config, known, todo>>

\* The exception of a failed future ends the run: queued futures are
\* cancelled, results not yet processed are dropped.
TakeFailed ==
    /\ pc = "take"
    /\ \E t \in batch : future[t] = "failed"
    /\ pc' = "idle"
    /\ Forget
    /\ UNCHANGED disk

AppendRecord ==
    /\ pc = "append"
    /\ records' = AppendedRecords(current)
    /\ known' = [known EXCEPT ![current] = config]
    /\ pc' = "progress"
    /\ UNCHANGED <<cache, progress, config, pool, current>>

\* The progress file follows; the window is refilled.
WriteProgress ==
    /\ pc = "progress"
    /\ progress' = [config |-> config, count |-> KnownCount]
    /\ future' = [t \in Tasks |-> IF t \in Refill THEN "queued" ELSE future[t]]
    /\ todo' = todo \ Refill
    /\ \/ batch # {} /\ pc' = "take"
       \/ batch = {} /\ Pending \cup Refill # {} /\ pc' = "wait"
       \/ batch = {} /\ Pending \cup Refill = {} /\ pc' = "save"
    /\ UNCHANGED <<cache, records, config, known, batch, current>>

-----------------------------------------------------------------------------
(* main, after the probe loop *)

\* Every selected task has a record, or the run fails and writes nothing.
Save ==
    /\ pc = "save"
    /\ IF \A t \in Tasks : known[t] # NoConfig
       THEN /\ cache' = [config |-> config, made |-> known]
            /\ pc' = "clean_progress"
            /\ UNCHANGED <<config, known, pool, current>>
       ELSE pc' = "idle" /\ Forget /\ UNCHANGED cache
    /\ UNCHANGED <<progress, records>>

CleanProgress ==
    /\ pc = "clean_progress"
    /\ progress' = [config |-> NoConfig, count |-> 0]
    /\ pc' = "clean_records"
    /\ UNCHANGED <<cache, records, config, known, pool, current>>

CleanRecords ==
    /\ pc = "clean_records"
    /\ records' = NoFile
    /\ pc' = "served"
    /\ Forget
    /\ UNCHANGED <<cache, progress>>

-----------------------------------------------------------------------------
(* Failures *)

Crash ==
    /\ pc \in RunPc
    /\ pc' = "idle"
    /\ Forget
    /\ UNCHANGED disk

\* Power is lost or the disk is full during the append: the file is created
\* and empty, ends in half a line, or lacks the newline of its last line.
CrashInAppend ==
    /\ pc = "append"
    /\ records' \in
          {[records EXCEPT !.exists = TRUE],
           [records EXCEPT !.exists = TRUE, !.tail = "garbled"],
           [AppendedRecords(current) EXCEPT
                !.tail = IF @ = "garbled" THEN "garbled" ELSE "open"]}
    /\ pc' = "idle"
    /\ Forget
    /\ UNCHANGED <<cache, progress>>

Start(c) == Serve(c) \/ RefuseResume(c) \/ Resume(c) \/ StartFresh(c)

MainStep ==
    \/ DropProgress \/ DropRecords \/ Open \/ Wait \/ Take \/ TakeFailed
    \/ AppendRecord \/ WriteProgress \/ Save \/ CleanProgress \/ CleanRecords

Fault == Crash \/ CrashInAppend \/ \E t \in Tasks : WorkerFails(t)

ProbeNext ==
    \/ \E c \in Configs : Start(c) \/ ForceRefresh(c)
    \/ MainStep
    \/ \E t \in Tasks : WorkerStarts(t) \/ WorkerEnds(t)
    \/ Fault

ProbeSpec == ProbeInit /\ [][ProbeNext]_probeVars

\* The main thread and the workers run; rollouts end, each being bounded by
\* its timeouts; an operator uses --force-refresh sooner or later.
FairSpec ==
    /\ ProbeSpec
    /\ WF_probeVars(MainStep)
    /\ \A t \in Tasks : WF_probeVars(WorkerStarts(t)) /\ WF_probeVars(WorkerEnds(t))
    /\ WF_probeVars(\E c \in Configs : ForceRefresh(c))

-----------------------------------------------------------------------------
(* Properties *)

\* Every variable has its type.
ProbeTypeOK ==
    /\ cache \in [config : Configs \cup {NoConfig}, made : [Tasks -> Configs \cup {NoConfig}]]
    /\ progress \in [config : Configs \cup {NoConfig}, count : 0 .. TaskCount]
    /\ records \in [exists : BOOLEAN, lines : Seq(Record),
                    tail : {"clean", "open", "garbled"}]
    /\ pc \in StoppedPc \cup RunPc
    /\ config \in Configs \cup {NoConfig}
    /\ known \in [Tasks -> Configs \cup {NoConfig}]
    /\ todo \subseteq Tasks
    /\ future \in [Tasks -> {"none", "queued", "running", "ok", "failed"}]
    /\ batch \subseteq Tasks
    /\ current \in Tasks \cup {0}

\* Every band in the cache was probed under the metadata the cache states,
\* though runs of different metadata share the progress files and any of
\* them may have been aborted between two writes.
CacheIsOfItsConfig ==
    cache.config # NoConfig => \A t \in Tasks : cache.made[t] = cache.config

\* A task is recorded once: no task of a running probe that has a line in the
\* records file is queued, running or about to be appended again; nor does
\* the progress file count a record that is not there.  (With the types.)
RecordedOnce ==
    LET Lines(t) == {i \in DOMAIN records.lines : records.lines[i].task = t}
    IN  /\ ProbeTypeOK
        /\ progress.config # NoConfig => progress.count <= Len(records.lines)
        /\ \A t \in Tasks :
              /\ Cardinality(Lines(t)) <= 1
              /\ t \in Pending \/ (pc = "append" /\ t = current) => Lines(t) = {}

\* A step that is a failure and nothing else: a run that raises because tasks
\* are left over changes the same as one that is killed.
Failure == Fault /\ ~Save

\* When failures stop, runs keep ending with their cache written or found,
\* whatever the aborted ones left behind.
EventuallyServed == <>[][~Failure]_probeVars => []<>(pc = "served")
=============================================================================
