----------------------------- MODULE SdpoTurns -----------------------------
(***************************************************************************)
(* One SDPO sample from its rollout to the update it is part of: the turns *)
(* of the agent loop (swe_bridge_agent_loop.py), the teacher prompts of    *)
(* its turns (TurnTargets), and the ranks of the actor that step on them   *)
(* in lockstep (ppo_runtime_patch.py).                                     *)
(*                                                                         *)
(* A token is who wrote it and in which turn, a log-probability the turn   *)
(* of the token it was given for, or 0 for the 0.0 put in its place.  The  *)
(* sample is the row of rank 1; the rows of the other ranks are only the   *)
(* number of their turn prompts.                                           *)
(***************************************************************************)
EXTENDS TurnTargets, SequencesExt, FiniteSetsExt

CONSTANTS ResponseLength,     \* response_length
          MaxAssistantTurns,  \* 0 for no limit
          MaxUserTurns,       \* 0 for no limit
          MaxGenerated,       \* most tokens a generation returns
          MaxFeedback,        \* most tokens of a tool message
          Policy,             \* legacy_distillation_gating_policy
          VerifierFeedback,   \* is verifier_feedback_mode not "none"
          WorldSize,          \* ranks of the actor
          Steps,              \* mini-batches times ppo_epochs
          MaxRaises           \* ranks that may raise

ASSUME SdpoAssumption ==
    /\ \A n \in {ResponseLength, MaxGenerated, MaxFeedback, WorldSize, Steps} :
          n \in Nat /\ n > 0
    /\ MaxAssistantTurns \in Nat /\ MaxUserTurns \in Nat /\ MaxRaises \in Nat
    /\ Policy \in {"resolved_only", "feedback_present", "always"}
    /\ VerifierFeedback \in BOOLEAN

VARIABLES
    mode,       \* turn_supervision_mode
    pc,         \* stage of the sample
    spent,      \* is attempt_timeout_sec over
    ids,        \* response tokens, full_token_ids after the prompt
    mask,       \* response_mask
    logprobs,   \* response_logprobs
    pending,    \* length of the turn being decoded
    texts, lengths, blocks,   \* what the loop reports of its turns
    userTurns,
    submit,     \* [seen, valid] of the last turn
    verified,   \* "no", "passed" or "failed"
    targets,    \* the turn prompts of the sample
    rowActive,  \* its self_distillation_mask
    others,     \* turn prompts of the row of each other rank
    ranks,      \* [path, step, op] of each rank
    applied,    \* the optimizer steps taken, by path
    moved,      \* did_update: a step of the update had a finite gradient
    teacher,    \* times the teacher was updated
    raises      \* ranks that raised

tokens  == <<ids, mask, logprobs>>
reports == <<texts, lengths, blocks, userTurns>>
verdict == <<submit, verified>>
batch   == <<targets, rowActive, others>>
update  == <<batch, ranks, applied, moved, teacher, raises>>

vars == <<mode, pc, spent, tokens, pending, reports, verdict, update>>

Ranks == 1..WorldSize

Init ==
    /\ mode \in Modes
    /\ pc = "setup"
    /\ spent = FALSE
    /\ ids = <<>> /\ mask = <<>> /\ logprobs = <<>>
    /\ pending = 0
    /\ texts = <<>> /\ lengths = <<>> /\ blocks = <<>>
    /\ userTurns = 0
    /\ submit = [seen |-> FALSE, valid |-> FALSE]
    /\ verified = "no"
    /\ targets = <<>> /\ rowActive = FALSE
    /\ others \in [Ranks \ {1} -> 0..1]
    /\ ranks = [r \in Ranks |-> [path |-> "none", step |-> 1, op |-> 1]]
    /\ applied = <<>>
    /\ moved = FALSE
    /\ teacher = 0
    /\ raises = {}

-----------------------------------------------------------------------------
(* The turns of the rollout.                                               *)

Available == ResponseLength - Len(mask)

Turn == Len(texts) + 1

\* Faulty variant: a tool message is marked like a turn.
TokenMaskAllOnes(generated) == 1

TokenMask(generated) == IF generated THEN 1 ELSE 0

\* append_response_tokens: what does not fit is cut, what has no
\* log-probability gets 0.0.
AppendResponseTokens(count, known, generated) ==
    LET cut   == IF count <= Available THEN count ELSE Available
        token == [by |-> IF generated THEN "model" ELSE "tool",
                  turn |-> IF generated THEN Turn ELSE Turn - 1]
    IN  /\ ids' = ids \o [i \in 1..cut |-> token]
        /\ mask' = mask \o [i \in 1..cut |-> TokenMask(generated)]
        /\ logprobs' = logprobs \o
              [i \in 1..cut |-> IF i <= known THEN token.turn ELSE 0]

\* The slot, the container and the patch; they may fail, or time out.
SetUp ==
    /\ pc = "setup"
    /\ pc' \in IF spent THEN {"finish"} ELSE {"loop", "finish"}
    /\ UNCHANGED <<mode, spent, tokens, pending, reports, verdict, update>>

\* The head of the loop: the budgets of tokens, turns and time.
StartTurn ==
    /\ pc = "loop"
    /\ pc' = IF \/ Available <= 0
                \/ MaxAssistantTurns > 0 /\ Len(texts) >= MaxAssistantTurns
                \/ MaxUserTurns > 0 /\ userTurns >= MaxUserTurns
                \/ spent
             THEN "after" ELSE "generate"
    /\ UNCHANGED <<mode, spent, tokens, pending, reports, verdict, update>>

\* Faulty variant: the loop tries again.
AfterEmptyGenerationRetry == "loop"

AfterEmptyGeneration == "after"

\* The server returns count tokens, with log-probabilities for the first
\* known ones; what is beyond the budget is cut off.
Generate ==
    /\ pc = "generate" /\ ~spent
    /\ \E count \in 0..MaxGenerated : \E known \in {0, count} :
          IF count = 0
          THEN /\ pc' = AfterEmptyGeneration
               /\ UNCHANGED <<tokens, pending>>
          ELSE /\ AppendResponseTokens(count, known, TRUE)
               /\ pending' = IF count <= Available THEN count ELSE Available
               /\ pc' = "decode"
    /\ UNCHANGED <<mode, spent, reports, verdict, update>>

\* A turn of special tokens decodes to a blank text.
Decode ==
    /\ pc = "decode" /\ ~spent
    /\ \E blank \in BOOLEAN : texts' = Append(texts, [turn |-> Turn, blank |-> blank])
    /\ lengths' = Append(lengths, pending)
    /\ blocks' = Append(blocks, 0)
    /\ pc' = "bridge"
    /\ UNCHANGED <<mode, spent, tokens, pending, userTurns, verdict, update>>

\* run_env_bridge_step: tool calls, what does not parse and an invalid submit
\* are answered, a valid submit ends the rollout.  A blank text does not
\* parse.
Bridge ==
    /\ pc = "bridge" /\ ~spent
    /\ \E seen, valid \in BOOLEAN :
          /\ valid => seen
          /\ Last(texts).blank => ~seen
          /\ submit' = [seen |-> seen, valid |-> valid]
          /\ IF valid THEN pc' = "verify" /\ UNCHANGED blocks
             ELSE /\ blocks' = [blocks EXCEPT ![Len(blocks)] = Last(texts).turn]
                  /\ pc' = "feedback"
    /\ UNCHANGED <<mode, spent, tokens, pending, texts, lengths, userTurns, verified, update>>

\* The executor raises.
BridgeFails ==
    /\ pc = "bridge" /\ ~spent
    /\ pc' = "after"
    /\ UNCHANGED <<mode, spent, tokens, pending, reports, verdict, update>>

\* The tool message; a turn that reached the limit ends the loop.
Feedback ==
    /\ pc = "feedback" /\ ~spent
    /\ \E count \in 1..MaxFeedback :
          IF Available > 0 THEN AppendResponseTokens(count, 0, FALSE)
          ELSE UNCHANGED tokens
    /\ userTurns' = userTurns + 1
    /\ pc' = IF Available <= 0 THEN "after" ELSE "loop"
    /\ UNCHANGED <<mode, spent, pending, texts, lengths, blocks, verdict, update>>

\* _verify_terminal_submission after a valid submit, and after any other end
\* of the loop while there is time.
Verify ==
    /\ pc \in {"verify", "after"} /\ ~spent
    /\ verified' \in {"passed", "failed"}
    /\ pc' = "finish"
    /\ UNCHANGED <<mode, spent, tokens, pending, reports, submit, update>>

\* The server, the tokenizer or the chat template raises: what the loop calls
\* a setup failure, after which nothing is verified.
Fails ==
    /\ pc \in {"generate", "decode", "feedback"} /\ ~spent
    /\ pc' = "finish"
    /\ UNCHANGED <<mode, spent, tokens, pending, reports, verdict, update>>

\* Time passes; every wait of the attempt then raises TimeoutError.
TimePasses ==
    /\ ~spent
    /\ pc \in {"setup", "loop", "generate", "decode", "bridge", "feedback",
               "verify", "after"}
    /\ spent' = TRUE
    /\ UNCHANGED <<mode, pc, tokens, pending, reports, verdict, update>>

TimesOut ==
    /\ spent
    /\ pc \in {"generate", "decode", "bridge", "feedback", "verify", "after"}
    /\ pc' = "finish"
    /\ UNCHANGED <<mode, spent, tokens, pending, reports, verdict, update>>

\* Faulty variant: the fallback token is like any other.
FallbackMaskOne == 1

FallbackMask == 0

\* A rollout without tokens gets one that carries no loss.
Finish ==
    /\ pc = "finish"
    /\ IF mask = <<>>
       THEN /\ ids' = <<[by |-> "none", turn |-> 0]>>
            /\ mask' = <<FallbackMask>>
            /\ logprobs' = <<0>>
       ELSE UNCHANGED tokens
    /\ pc' = "rolled"
    /\ UNCHANGED <<mode, spent, pending, reports, verdict, update>>

-----------------------------------------------------------------------------
(* The supervision of the sample, and the update.                          *)

Rollout == [mask |-> mask, texts |-> texts, lengths |-> lengths, blocks |-> blocks]

\* _resolve_verifiable_resolution: both groups of tests were run and passed.
Verification == verified = "passed"

TerminalSubmission == submit.seen /\ submit.valid

\* reward_fn, in tenths: 1 for the tests, at best 0 when one group failed or
\* nothing was verified, and a penalty of 0.2 for another end than a valid
\* submit.
Reward ==
    (IF Verification THEN 10 ELSE 0) - (IF TerminalSubmission THEN 0 ELSE 2)

\* success_reward_threshold is 1.
Resolved == Reward >= 10

\* _patched_maybe_build_self_distillation_batch
BuildBatch ==
    /\ pc = "rolled"
    /\ targets' = Prompts(Rollout, mode)
    /\ rowActive' = RowActive(Rollout, mode, Policy, Resolved, VerifierFeedback)
    /\ pc' = "built"
    /\ UNCHANGED <<mode, spent, tokens, pending, reports, verdict, others, ranks,
                   applied, moved, teacher, raises>>

\* max_turn_pairs: the tensors of all rows are as wide as the most prompts.
TurnPairs == Max({Len(targets)} \cup Range(others))

\* Faulty variant: each rank goes over the prompts of its own row.
ForwardsOwn(r) == IF r = 1 THEN Len(targets) ELSE others[r]

\* _compute_turn_level_self_distillation_pg_loss goes over all columns, the
\* padded ones too.
Forwards(r) == TurnPairs

\* Operations of a step that all ranks take part in: the forward of the
\* student, those of the teacher, and the optimizer's.
Ops(r) == IF ranks[r].path = "turn" THEN Forwards(r) + 2 ELSE 3

Path == IF TurnPairs > 0 THEN "turn" ELSE "row"

\* _patched_update_policy takes the sequential update when the batch has the
\* tensors of the turns.
BeginUpdate ==
    /\ pc = "built"
    /\ pc' = "update"
    /\ ranks' = [r \in Ranks |-> [path |-> Path, step |-> 1, op |-> 1]]
    /\ UNCHANGED <<mode, spent, tokens, pending, reports, verdict, batch, applied,
                   moved, teacher, raises>>

InStep == \A r, q \in Ranks : ranks[r] = ranks[q] /\ (Ops(r) = ranks[r].op
                                                     <=> Ops(q) = ranks[q].op)

\* All ranks take part in one operation; the last one of a step applies it,
\* which changes nothing when the gradient is not finite.
Operate ==
    /\ pc = "update"
    /\ InStep
    /\ ranks[1].step <= Steps
    /\ IF ranks[1].op = Ops(1)
       THEN /\ applied' = Append(applied, ranks[1].path)
            /\ moved' \in {moved, TRUE}
            /\ ranks' = [r \in Ranks |-> [ranks[r] EXCEPT !.step = @ + 1, !.op = 1]]
       ELSE /\ ranks' = [r \in Ranks |-> [ranks[r] EXCEPT !.op = @ + 1]]
            /\ UNCHANGED <<applied, moved>>
    /\ UNCHANGED <<mode, pc, spent, tokens, pending, reports, verdict, batch,
                   teacher, raises>>

\* After the last step the teacher follows the student.
EndUpdate ==
    /\ pc = "update"
    /\ InStep
    /\ ranks[1].step > Steps
    /\ teacher' = IF moved THEN teacher + 1 ELSE teacher
    /\ pc' = "updated"
    /\ UNCHANGED <<mode, spent, tokens, pending, reports, verdict, batch, ranks,
                   applied, moved, raises>>

\* A rank raises in the sequential update and falls back to the one of the
\* library, from its first step; raised there, the worker dies.
Raise(r) ==
    /\ pc = "update"
    /\ r \notin raises
    /\ Cardinality(raises) < MaxRaises
    /\ raises' = raises \cup {r}
    /\ IF ranks[r].path = "turn"
       THEN /\ ranks' = [ranks EXCEPT ![r] = [path |-> "row", step |-> 1, op |-> 1]]
            /\ moved' = FALSE
            /\ UNCHANGED pc
       ELSE pc' = "died" /\ UNCHANGED <<ranks, moved>>
    /\ UNCHANGED <<mode, spent, tokens, pending, reports, verdict, batch, applied,
                   teacher>>

\* Ranks in different operations wait for each other until the process group
\* gives up.
CollectiveTimesOut ==
    /\ pc = "update"
    /\ ~InStep
    /\ pc' = "died"
    /\ UNCHANGED <<mode, spent, tokens, pending, reports, verdict, update>>

RolloutStep ==
    \/ SetUp \/ StartTurn \/ Generate \/ Decode \/ Bridge \/ BridgeFails
    \/ Feedback \/ Verify \/ Fails \/ TimesOut \/ Finish

UpdateStep == BuildBatch \/ BeginUpdate \/ Operate \/ EndUpdate \/ CollectiveTimesOut

Next ==
    \/ RolloutStep \/ UpdateStep \/ TimePasses
    \/ \E r \in Ranks : Raise(r)

Spec == Init /\ [][Next]_vars

\* The loop's awaits return or time out; the worker runs its update.
FairSpec == Spec /\ WF_vars(RolloutStep) /\ WF_vars(UpdateStep)

-----------------------------------------------------------------------------
(* Properties.                                                             *)

\* The three lists grow together and each turn reports its own tokens, also
\* when a wait times out between two of the appends; a log-probability is of
\* its token, and 1 in the mask is a token of the model.
TypeOK ==
    /\ Len(ids) = Len(mask) /\ Len(logprobs) = Len(mask)
    /\ Len(mask) <= ResponseLength
    /\ Len(texts) = Len(lengths) /\ Len(texts) = Len(blocks)
    /\ \A p \in DOMAIN mask :
          /\ mask[p] = IF ids[p].by = "model" THEN 1 ELSE 0
          /\ logprobs[p] \in {0, ids[p].turn}
    /\ \A k \in DOMAIN lengths :
          lengths[k] = Cardinality({p \in DOMAIN ids : ids[p] = [by |-> "model", turn |-> k]})
    /\ pc \in {"setup", "loop", "generate", "decode", "bridge", "feedback", "verify",
               "after", "finish", "rolled", "built", "update", "updated", "died"}
    /\ spent \in BOOLEAN
    /\ verified \in {"no", "passed", "failed"}
    /\ \A r \in Ranks : ranks[r].step \in 1..(Steps + 1)

TokensOf(turn) == {p \in DOMAIN ids : ids[p] = [by |-> "model", turn |-> turn]}

\* The turn a prompt supervises: the one it shows, or the one after.
Supervised(prompt) ==
    IF mode = "current_turn" THEN prompt.shows ELSE prompt.shows + 1

\* What the teacher is asked about and what the student is trained on are the
\* same turn: an active prompt has the feedback of the turn it shows, and
\* supervises all tokens of that turn (of the next one, in that mode) and no
\* other.
TurnsAreTaughtTheirOwn ==
    \A k \in DOMAIN targets :
        targets[k].active =>
            /\ targets[k].feedback = targets[k].shows
            /\ targets[k].target = TokensOf(Supervised(targets[k]))

\* The same, of the rollouts whose turns all say something: timeouts between
\* generation and report, cut turns and cut tool messages do not shift it.
SpokenTurnsAreTaughtTheirOwn ==
    (\A k \in DOMAIN texts : ~texts[k].blank) => TurnsAreTaughtTheirOwn

\* The tokens of the sample a step is trained on.
Trained(path) ==
    IF path = "turn"
    THEN UNION {targets[k].target : k \in {j \in DOMAIN targets : targets[j].active}}
    ELSE IF rowActive THEN Generated(mask) ELSE {}

\* No step, turn-level or fallen back to whole rows, trains a token the model
\* did not write: not a tool's answer, not the token put in for a rollout
\* without any.
LossIsOnModelTokens ==
    \A i \in DOMAIN applied : \A p \in Trained(applied[i]) : ids[p].by = "model"

\* Ranks lose step only after one of them raised; without that every step is
\* taken once, and a sequential update that all ranks leave for the other
\* one has all its steps taken again.  The teacher follows once at most, and
\* never before the last step.
UpdateIsWhole ==
    /\ pc = "died" => raises # {}
    /\ teacher > 0 => pc = "updated" /\ teacher = 1
    /\ pc = "updated" =>
          LET counted == {i \in DOMAIN applied : applied[i] = ranks[1].path}
          IN  /\ Cardinality(counted) = Steps
              /\ raises = {} => counted = DOMAIN applied /\ ranks[1].path = Path
              /\ raises # {} => ranks[1].path = "row"

\* Every rollout ends, and so does the update.
SdpoEnds == <>(pc \in {"updated", "died"})
=============================================================================
