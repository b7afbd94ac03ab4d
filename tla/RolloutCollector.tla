--------------------------- MODULE RolloutCollector ---------------------------
(***************************************************************************)
(* One collect_step of the on-policy collector (onpolicy_collector.py),    *)
(* its container pools, the environment bridge and the verifier as it uses *)
(* them, and what the outer loop makes of the rows (rft_handoff.py,        *)
(* rft_runtime_loop.py).                                                   *)
(*                                                                         *)
(* Each task is run by one worker of a thread pool, attempt by attempt;    *)
(* main waits for the results, orders the rows and selects among them.     *)
(***************************************************************************)
EXTENDS ContainerPool, RowSelection, Subsequences

CONSTANTS Attempts,       \* attempts_per_task
          MaxTurns,       \* max_turns_per_attempt
          MaxInFlight,    \* max_in_flight_tasks
          PoolSize,       \* env_pool_size
          PatchedTasks,   \* the tasks with a patch to apply first
          StepStages,     \* the stages a step may be collected for
          StepIndex,      \* the outer step
          BatchSize,      \* task_batch_size, of which a split may have less
          WorldSize, MicroBatch, RequestedBatch

ASSUME CollectorAssumption ==
    /\ Tasks # {}
    /\ IsFiniteSet(Tasks)
    /\ Tasks = 1..Cardinality(Tasks)
    /\ \A n \in {Attempts, MaxTurns, MaxInFlight, PoolSize, BatchSize,
                 WorldSize, MicroBatch, RequestedBatch} : n \in Nat /\ n > 0
    /\ StepIndex \in Nat
    /\ Tasks \subseteq 1..BatchSize
    /\ PatchedTasks \subseteq Tasks
    /\ StepStages \subseteq Stages

VARIABLES stage,     \* the stage of this step
          pc,        \* where the worker of each task stands
          attempt,   \* attempt_index
          draft,     \* the locals of _collect_attempt
          patched,   \* does the tree in the container hold the task's patch
          rows,      \* the rows of each task so far
          main,      \* where collect_step and the loop stand
          taken,     \* the futures whose results main has
          batch,     \* the rows in task order
          position,  \* the tasks whose rows are in the batch
          handoff,   \* positions of the batch in selected_rows
          train      \* what the trainer is given, as positions of the batch

workVars == <<attempt, draft, patched, rows>>
mainVars == <<main, taken, batch, position, handoff, train>>
vars == <<poolVars, stage, pc, workVars, mainVars>>

TaskCount == Cardinality(Tasks)

InitTries == 2    \* _TASK_PATCH_INIT_MAX_ATTEMPTS

LeastOf(S) == CHOOSE m \in S : \A n \in S : m <= n

Workers == LeastOf({MaxInFlight, PoolSize, TaskCount})

Ended == {"over", "raised"}

Running == {t \in Tasks : pc[t] \notin {"queued"} \cup Ended}

FreshDraft ==
    [inits |-> 0, turn |-> 0, initialized |-> TRUE, answer |-> "none",
     formatValid |-> TRUE, submitSeen |-> FALSE, submitValid |-> FALSE,
     terminal |-> FALSE, errors |-> {}, resolved |-> FALSE,
     infraInvalid |-> FALSE, verdict |-> "none"]

Init ==
    /\ PoolInit
    /\ stage \in StepStages
    /\ pc = [t \in Tasks |-> "queued"]
    /\ attempt = [t \in Tasks |-> 0]
    /\ draft = [t \in Tasks |-> FreshDraft]
    /\ patched = [t \in Tasks |-> FALSE]
    /\ rows = [t \in Tasks |-> <<>>]
    /\ main = "waiting"
    /\ taken = {}
    /\ batch = <<>>
    /\ position = 0
    /\ handoff = {}
    /\ train = <<>>

Goto(t, label) == pc' = [pc EXCEPT ![t] = label]

-----------------------------------------------------------------------------
(* A worker *)

\* With one worker there is no executor: main runs the tasks one after the
\* other, and an exception keeps the rest from starting.
MayStart(t) ==
    /\ Cardinality(Running) < Workers
    /\ \A u \in Tasks : u < t => pc[u] # "queued"
    /\ Workers = 1 => \A u \in Tasks : u < t => u \in taken

TaskStarts(t) ==
    /\ pc[t] = "queued"
    /\ MayStart(t)
    /\ Goto(t, "acquire")
    /\ UNCHANGED <<poolVars, stage, workVars, mainVars>>

AttemptStarts(t) ==
    /\ pc[t] = "acquire"
    /\ Acquire(t, attempt[t])
    /\ Goto(t, "start")
    /\ UNCHANGED <<stage, workVars, mainVars>>

\* acquire returns: a fresh container, in which the tree has no patch yet.
ContainerStarts(t) ==
    /\ pc[t] = "start"
    /\ RunStarts(t)
    /\ patched' = [patched EXCEPT ![t] = FALSE]
    /\ draft' = [draft EXCEPT ![t] = FreshDraft]
    /\ Goto(t, IF t \in PatchedTasks THEN "init" ELSE "turn")
    /\ UNCHANGED <<stage, attempt, rows, mainVars>>

StartGoesWrong(t) ==
    /\ pc[t] = "start"
    /\ RunFails(t) \/ RunTimesOut(t) \/ RunRaises(t) \/ RunConflicts(t)
        \/ ClearName(t)
    /\ UNCHANGED <<stage, pc, workVars, mainVars>>

\* acquire raised: finally releases nothing, the exception ends the future.
AcquireRaised(t) ==
    /\ pc[t] = "start"
    /\ phase[t] = "failed"
    /\ ReleaseAll(t)
    /\ Goto(t, "raised")
    /\ UNCHANGED <<stage, workVars, mainVars>>

\* _initialize_task_environment.  The command succeeds when the patch went
\* in or is found to be in already; one that times out, or whose answer is
\* lost, may have applied it.
PatchApplies(t) ==
    /\ pc[t] = "init"
    /\ patched' = [patched EXCEPT ![t] = TRUE]
    /\ Goto(t, "turn")
    /\ UNCHANGED <<poolVars, stage, attempt, draft, rows, mainVars>>

\* Faulty variant: after the last try the turns begin all the same.
PatchFailsUnnoticed(t) ==
    /\ pc[t] = "init"
    /\ IF draft[t].inits + 1 < InitTries THEN pc' = pc ELSE Goto(t, "turn")
    /\ draft' = [draft EXCEPT ![t].inits = @ + 1]
    /\ UNCHANGED <<poolVars, stage, attempt, patched, rows, mainVars>>

PatchFails(t) ==
    /\ pc[t] = "init"
    /\ \E applied \in {patched[t], TRUE} :
          patched' = [patched EXCEPT ![t] = applied]
    /\ IF draft[t].inits + 1 < InitTries
       THEN /\ draft' = [draft EXCEPT ![t].inits = @ + 1]
            /\ pc' = pc
       ELSE /\ draft' = [draft EXCEPT ![t].inits = @ + 1,
                                      ![t].initialized = FALSE,
                                      ![t].infraInvalid = TRUE,
                                      ![t].errors = {"executor"}]
            /\ Goto(t, "row")
    /\ UNCHANGED <<poolVars, stage, attempt, rows, mainVars>>

\* After the turns the tests are run, once, where the stage asks for it;
\* the tree counts as it is then, submitted or not.
AfterTurns == IF StageVerifies(stage) THEN "verify" ELSE "row"

\* A turn that leaves the loop open: the next one, or the end of the budget.
Continue(t, d) ==
    IF d.turn + 1 < MaxTurns
    THEN /\ draft' = [draft EXCEPT ![t] = [d EXCEPT !.turn = @ + 1]]
         /\ pc' = pc
    ELSE /\ draft' = [draft EXCEPT ![t] =
                        [d EXCEPT !.errors = @ \cup {"ended"}]]
         /\ Goto(t, AfterTurns)

Break(t, d) ==
    /\ draft' = [draft EXCEPT ![t] = d]
    /\ Goto(t, AfterTurns)

\* What a turn with tool calls leaves in the draft: bad calls and text that
\* does not parse become a failed step with a validation error.
WithSteps(d, turn) ==
    [d EXCEPT !.answer = IF turn = "unparsable" THEN "junk" ELSE "action",
              !.formatValid = @ /\ turn \in {"passes", "fails"},
              !.submitSeen = (turn = "bad_submit"),
              !.submitValid = FALSE,
              !.errors = IF turn = "passes" THEN @ ELSE @ \cup {"executor"}]

\* A turn without a step keeps the response of the last turn that had one.
Spoken(d) == IF d.answer = "none" THEN "action" ELSE d.answer

TurnTaken(t) ==
    /\ pc[t] = "turn"
    /\ \E turn \in {"passes", "fails", "bad_call", "bad_submit", "unparsable"} :
          Continue(t, WithSteps(draft[t], turn))
    /\ UNCHANGED <<poolVars, stage, attempt, patched, rows, mainVars>>

\* A valid submit ends the attempt.  Without the tests the default resolver
\* calls it resolved when it had steps and every one of them exited with 0.
Submits(t) ==
    /\ pc[t] = "turn"
    /\ Break(t, [draft[t] EXCEPT
            !.terminal = TRUE, !.submitSeen = TRUE,
            !.submitValid = TRUE, !.answer = Spoken(draft[t]),
            !.resolved = ~StageVerifies(stage) /\ draft[t].answer # "none"
                            /\ "executor" \notin draft[t].errors])
    /\ UNCHANGED <<poolVars, stage, attempt, patched, rows, mainVars>>

\* The time is up before the turn, or the model does not answer: the loop
\* ends with a timeout_error or a collector_error.
NoMoreTurns(t) ==
    /\ pc[t] = "turn"
    /\ Break(t, [draft[t] EXCEPT !.errors = @ \cup {"ended"}])
    /\ UNCHANGED <<poolVars, stage, attempt, patched, rows, mainVars>>

\* The executor raises in the middle of the turn, whose text is kept.
BridgeRaises(t) ==
    /\ pc[t] = "turn"
    /\ Break(t, [draft[t] EXCEPT !.errors = @ \cup {"ended"},
                                 !.formatValid = FALSE,
                                 !.answer = Spoken(draft[t])])
    /\ UNCHANGED <<poolVars, stage, attempt, patched, rows, mainVars>>

\* run_submission_verifier: both groups of tests; a group that cannot be run
\* makes the row infra_invalid.
Verdict(failToPass, passToPass) ==
    IF "crash" \in {failToPass, passToPass} THEN "invalid"
    ELSE IF {failToPass, passToPass} = {"pass"} THEN "correct" ELSE "incorrect"

Verify(t) ==
    /\ pc[t] = "verify"
    /\ \E f, p \in {"pass", "fail", "crash"} :
          draft' = [draft EXCEPT ![t].verdict = Verdict(f, p),
                                 ![t].resolved = (Verdict(f, p) = "correct"),
                                 ![t].infraInvalid = (Verdict(f, p) = "invalid")]
    /\ Goto(t, "row")
    /\ UNCHANGED <<poolVars, stage, attempt, patched, rows, mainVars>>

\* tree is what the container held, which the row of the code does not say.
RowOf(t) ==
    [task |-> t, attempt |-> attempt[t],
     index |-> RowStepIndex(StepIndex, t - 1, attempt[t], BatchSize, Attempts),
     tree |-> IF patched[t] THEN "patched" ELSE "plain",
     initialized |-> draft[t].initialized, answer |-> draft[t].answer,
     formatValid |-> draft[t].formatValid, submitSeen |-> draft[t].submitSeen,
     submitValid |-> draft[t].submitValid, errors |-> draft[t].errors,
     resolved |-> draft[t].resolved, infraInvalid |-> draft[t].infraInvalid,
     verdict |-> draft[t].verdict]

\* The row is appended and, in finally, the container released.
EndAttempt(t) ==
    /\ pc[t] = "row"
    /\ rows' = [rows EXCEPT ![t] = Append(@, RowOf(t))]
    /\ ReleaseAll(t)
    /\ attempt' = [attempt EXCEPT ![t] = @ + 1]
    /\ draft' = [draft EXCEPT ![t] = FreshDraft]
    /\ patched' = [patched EXCEPT ![t] = FALSE]
    /\ Goto(t, IF attempt[t] + 1 < Attempts THEN "acquire" ELSE "over")
    /\ UNCHANGED <<stage, mainVars>>

-----------------------------------------------------------------------------
(* Main *)

\* Faulty variant: an exception counts as no rows.
TakeResultSwallowing ==
    /\ main = "waiting"
    /\ \E t \in Tasks \ taken :
          /\ pc[t] \in Ended
          /\ taken' = taken \cup {t}
    /\ UNCHANGED <<poolVars, stage, pc, workVars, main, batch, position, handoff, train>>

TakeResult ==
    /\ main = "waiting"
    /\ \E t \in Tasks \ taken :
          \/ /\ pc[t] = "over"
             /\ taken' = taken \cup {t}
             /\ main' = main
          \/ /\ pc[t] = "raised"
             /\ main' = "joining"
             /\ taken' = taken
    /\ UNCHANGED <<poolVars, stage, pc, workVars, batch, position, handoff, train>>

\* Faulty variant: the executor is shut down without waiting.
JoinedAtOnce == main = "joining"

\* Leaving the with block waits for every future, also the queued ones.
Joined ==
    Workers = 1 \/ \A t \in Tasks : pc[t] \in Ended

Raise ==
    /\ main = "joining"
    /\ Joined
    /\ main' = "raised"
    /\ UNCHANGED <<poolVars, stage, pc, workVars, taken, batch, position, handoff, train>>

\* rows.extend(task_rows), by task position.
ExtendRows ==
    /\ main = "waiting"
    /\ taken = Tasks
    /\ position' = position + 1
    /\ batch' = batch \o rows[position']
    /\ main' = IF position' = TaskCount THEN "returned" ELSE main
    /\ UNCHANGED <<poolVars, stage, pc, workVars, taken, handoff, train>>

\* build_rft_handoff_result_from_rollout_rows, then the part of the loop that
\* sizes the batch: kept are the rows that pass the trainer's length filter;
\* they are too few, or none, or repeated up to a multiple of the batch.
Handoff ==
    /\ main = "returned"
    /\ \E tooLong \in SUBSET DOMAIN batch :
          handoff' = HandoffPositions(batch, StagePolicy(stage), tooLong)
    /\ \E kept \in SUBSET handoff' :
          LET count == Cardinality(kept)
              size  == EffectiveTrainBatchSize(RequestedBatch, count,
                                               WorldSize * MicroBatch)
          IN  \/ /\ count = 0
                 /\ main' = "skipped"
                 /\ train' = train
              \/ /\ count \in 1..(MinSelectedRows(WorldSize, MicroBatch) - 1)
                 /\ main' = "refused"
                 /\ train' = train
              \/ /\ count > 0
                 /\ count >= MinSelectedRows(WorldSize, MicroBatch)
                 /\ main' = IF size = 0 THEN "skipped" ELSE "training"
                 /\ train' = IF size = 0 THEN train
                             ELSE Upsample(Ascending(kept), size)
    /\ UNCHANGED <<poolVars, stage, pc, workVars, taken, batch, position>>

-----------------------------------------------------------------------------
MainOver == {"raised", "skipped", "refused", "training"}

\* The loop goes on elsewhere.
Finished ==
    /\ main \in MainOver
    /\ UNCHANGED vars

Worker(t) ==
    \/ TaskStarts(t)
    \/ AttemptStarts(t)
    \/ ContainerStarts(t)
    \/ StartGoesWrong(t)
    \/ AcquireRaised(t)
    \/ PatchApplies(t)
    \/ PatchFails(t)
    \/ TurnTaken(t)
    \/ Submits(t)
    \/ NoMoreTurns(t)
    \/ BridgeRaises(t)
    \/ Verify(t)
    \/ EndAttempt(t)

Main == TakeResult \/ Raise \/ ExtendRows \/ Handoff

DaemonStep == Daemon /\ UNCHANGED <<stage, pc, workVars, mainVars>>

Next ==
    \/ \E t \in Tasks : Worker(t)
    \/ Main
    \/ DaemonStep
    \/ Finished

Spec == Init /\ [][Next]_vars

\* Threads are scheduled and every docker command, tool call and model call
\* has a timeout of its own, so each returns.
FairSpec ==
    /\ Spec
    /\ \A t \in Tasks : WF_vars(Worker(t))
    /\ WF_vars(Main)

-----------------------------------------------------------------------------
(* Properties *)

Verdicts == {"none", "correct", "incorrect", "invalid"}

Draft ==
    [inits : 0..InitTries, turn : 0..(MaxTurns - 1), initialized : BOOLEAN,
     answer : Answers, formatValid : BOOLEAN, submitSeen : BOOLEAN,
     submitValid : BOOLEAN, terminal : BOOLEAN, errors : SUBSET ErrorKinds,
     resolved : BOOLEAN, infraInvalid : BOOLEAN, verdict : Verdicts]

Row ==
    [task : Tasks, attempt : Nat, index : Nat, tree : {"patched", "plain"},
     initialized : BOOLEAN, answer : Answers, formatValid : BOOLEAN,
     submitSeen : BOOLEAN, submitValid : BOOLEAN, errors : SUBSET ErrorKinds,
     resolved : BOOLEAN, infraInvalid : BOOLEAN, verdict : Verdicts]

\* Every variable holds a value the code can give it.
TypeOK ==
    /\ PoolTypeOK
    /\ stage \in StepStages
    /\ pc \in [Tasks -> {"queued", "acquire", "start", "init", "turn",
                         "verify", "row", "over", "raised"}]
    /\ attempt \in [Tasks -> 0..Attempts]
    /\ draft \in [Tasks -> Draft]
    /\ patched \in [Tasks -> BOOLEAN]
    /\ rows \in [Tasks -> Seq(Row)]
    /\ main \in {"waiting", "joining", "returned"} \cup MainOver
    /\ taken \subseteq Tasks
    /\ batch \in Seq(Row)
    /\ position \in 0..TaskCount
    /\ handoff \subseteq DOMAIN batch

\* A selected row was made in the environment of its task: the patch was in
\* the tree; and in positive_rft the tests were run on it and passed
\* (docs/microcoder_transfer_plan.md:121, onpolicy_collector.py:349-472).
SelectedRowsAreVerified ==
    \A i \in handoff :
        /\ batch[i].task \in PatchedTasks => batch[i].tree = "patched"
        /\ stage = "positive_rft" => batch[i].verdict = "correct"

\* When collect_step returns, each attempt of each task is there once and
\* the row numbers ascend, whatever order the workers ended in
\* (onpolicy_collector.py:258-267).
BatchIsTheStep ==
    main \notin {"waiting", "joining", "raised"} =>
        /\ Len(batch) = TaskCount * Attempts
        /\ \A t \in Tasks, a \in 0..(Attempts - 1) :
              \E i \in DOMAIN batch : batch[i].task = t /\ batch[i].attempt = a
        /\ \A i, j \in DOMAIN batch : i < j => batch[i].index < batch[j].index
        /\ \A i \in DOMAIN batch :
              batch[i].index \div (BatchSize * Attempts) = StepIndex

\* Once collect_step is over, by its result or by an exception of one task,
\* no worker runs, and a container still there is one whose creation or
\* removal docker did not answer for in time (onpolicy_collector.py:245-305).
\* (With the types.)
NothingLeftBehind ==
    /\ TypeOK
    /\ main \in MainOver =>
          /\ Running = {}
          /\ \A c \in up : c.end = "ok" => c \in dying

\* The trainer gets whole batches for every worker, from selected rows only,
\* and no row more than twice an epoch (rft_runtime_loop.py:2690-2752).
WholeBatches ==
    main = "training" =>
        /\ Len(train) > 0
        /\ Len(train) % MinSelectedRows(WorldSize, MicroBatch) = 0
        /\ \A i \in DOMAIN train :
              /\ train[i] \in handoff
              /\ Cardinality({j \in DOMAIN train : train[j] = train[i]}) <= 2

\* Collecting comes to an end, in rows or in an exception.
CollectEnds == <>(main \in MainOver)
=============================================================================
