---------------------------- MODULE RowSelection ----------------------------
(***************************************************************************)
(* What the outer RFT loop decides about collected rows, as operators:     *)
(* the rejection policy (rft_rejection.py), its stage overrides, the       *)
(* partition by payload and length of the handoff (rft_handoff.py), and    *)
(* the sizing of the training batch (rft_runtime_loop.py).                 *)
(*                                                                         *)
(* A row is a record of the fields the decisions read.  answer is what     *)
(* assistant_response holds: no text at all, text that parses as an action *)
(* or text that does not; errors tells whether there is an executor_error, *)
(* and whether one of collector_error, bridge_error and timeout_error says *)
(* why the attempt ended without a submit.                                 *)
(***************************************************************************)
EXTENDS Integers, Sequences, FiniteSets

Stages == {"format_rft", "positive_rft"}

Answers == {"none", "action", "junk"}

ErrorKinds == {"executor", "ended"}

\* The policy of training_policy_defaults.v1.json with the overrides of the
\* stage: no check on the terminal turn and none on error texts.
StagePolicy(stage) ==
    [requireTerminal     |-> FALSE,
     requireFormatValid  |-> stage = "format_rft",
     requireResolved     |-> stage = "positive_rft",
     rejectInvalidSubmit |-> FALSE,
     rejectErrors        |-> {}]

\* resolve_rft_stage_verify_submissions: only positive_rft runs the tests.
StageVerifies(stage) == stage = "positive_rft"

\* evaluate_rft_rejection_reason, as the set of its reasons.
RejectionReasons(row, policy) ==
    (IF row.initialized THEN {} ELSE {"container_init_failed"})
    \cup (IF row.infraInvalid THEN {"infra_invalid"} ELSE {})
    \cup (IF policy.requireTerminal /\ ~row.submitSeen
          THEN {"non_terminal"} ELSE {})
    \cup (IF policy.requireFormatValid /\ ~row.formatValid
          THEN {"format_invalid"} ELSE {})
    \cup (IF policy.rejectInvalidSubmit /\ row.submitSeen /\ ~row.submitValid
          THEN {"final_submit_invalid"} ELSE {})
    \cup (IF policy.requireResolved /\ ~row.resolved
          THEN {"unresolved"} ELSE {})
    \cup (row.errors \cap policy.rejectErrors)

Accepted(row, policy) == RejectionReasons(row, policy) = {}

\* preprocess_trajectories gives input_ids only to a row whose response
\* parses; _partition_rows_by_handoff_length turns the others away.
HasPayload(row) == row.answer = "action"

\* The positions of batch that survive selection and partition; tooLong are
\* the positions whose token lists exceed rft_handoff.max_sequence_length.
HandoffPositions(batch, policy, tooLong) ==
    {i \in DOMAIN batch :
        Accepted(batch[i], policy) /\ HasPayload(batch[i]) /\ i \notin tooLong}

-----------------------------------------------------------------------------
\* The number given to a row: attempts of a task are adjacent, tasks of a
\* step are adjacent, steps follow each other.
RowStepIndex(step, position, attempt, batchSize, attempts) ==
    step * batchSize * attempts + position * attempts + attempt

\* resolve_min_selected_rows_for_sft
MinSelectedRows(worldSize, microBatch) == worldSize * microBatch

\* Faulty variant: not more than requested, but maybe more than there are.
EffectiveTrainBatchSizeUnclamped(requested, selectedCount, divisor) ==
    IF selectedCount < divisor THEN 0 ELSE (requested \div divisor) * divisor

\* resolve_effective_train_batch_size; 0 stands for None.
EffectiveTrainBatchSize(requested, selectedCount, divisor) ==
    LET larger    == IF requested >= divisor THEN requested ELSE divisor
        maxGlobal == IF larger <= selectedCount THEN larger ELSE selectedCount
    IN  IF selectedCount < divisor THEN 0
        ELSE (maxGlobal \div divisor) * divisor

\* Faulty variant: the rows are trained as they are.
UpsampleNeededNever(count, batchSize) == 0

\* upsample_selected_rows_to_batch_multiple: rows repeated from the front.
UpsampleNeeded(count, batchSize) ==
    IF count % batchSize = 0 THEN 0 ELSE batchSize - (count % batchSize)

Upsample(rows, batchSize) ==
    [i \in 1..(Len(rows) + UpsampleNeeded(Len(rows), batchSize)) |->
        IF i <= Len(rows) THEN rows[i]
        ELSE rows[((i - Len(rows) - 1) % Len(rows)) + 1]]
=============================================================================
