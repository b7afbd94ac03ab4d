---------------------------- MODULE TurnTargets ----------------------------
(***************************************************************************)
(* Which tokens of a rollout each teacher prompt supervises                *)
(* (reprompt_adapter.py and the tensors of ppo_runtime_patch.py).          *)
(*                                                                         *)
(* A rollout is a record of what the agent loop reports: mask, 1 at each   *)
(* token the model generated; texts, for each turn its number and whether  *)
(* its text is blank; lengths, its number of tokens; blocks, the turn its  *)
(* tool responses are of, or 0 when it has none.                           *)
(***************************************************************************)
EXTENDS Integers, Sequences, FiniteSets, Subsequences

Modes == {"current_turn", "next_turn"}

\* _coerce_text_list leaves out blank texts; _normalize_turn_tool_blocks cuts
\* the lists of tool responses to as many, and _coerce_int_list keeps the
\* lengths of all.
KeptTurns(rollout) ==
    Picked(rollout.texts, {k \in DOMAIN rollout.texts : ~rollout.texts[k].blank})

KeptBlocks(rollout) ==
    [k \in DOMAIN KeptTurns(rollout) |->
        IF k \in DOMAIN rollout.blocks THEN rollout.blocks[k] ELSE 0]

-----------------------------------------------------------------------------
(* _build_assistant_turn_spans.  A span is the set of its positions, empty *)
(* for None.                                                               *)

Generated(mask) == {p \in DOMAIN mask : mask[p] = 1}

\* Faulty variant: the tool tokens between are counted.
PlaceOfAll(mask, p) == p

\* Place of position p among the generated ones.
Place(mask, p) == Cardinality({q \in Generated(mask) : q <= p})

\* The tokens of the turns before the k-th, turn after turn.
TokensBefore(lengths, k) ==
    LET sum[j \in 0..(k - 1)] == IF j = 0 THEN 0 ELSE sum[j - 1] + lengths[j]
    IN  sum[k - 1]

Contiguous(span) == \A p, q \in span : p..q \subseteq span

SpanByLength(mask, lengths, k) ==
    LET before == TokensBefore(lengths, k)
        span   == {p \in Generated(mask) :
                      Place(mask, p) \in (before + 1)..(before + lengths[k])}
    IN  IF Contiguous(span) THEN span ELSE {}

\* The lengths of the turns tell the spans when they account for every
\* generated token.
LengthsCover(mask, lengths, count) ==
    /\ Len(lengths) >= count
    /\ Generated(mask) # {}
    /\ TokensBefore(lengths, count + 1) >= Cardinality(Generated(mask))

\* The k-th run of generated tokens.
Run(mask, k) ==
    LET starts == {p \in Generated(mask) : p - 1 \notin Generated(mask)}
    IN  {p \in Generated(mask) : Cardinality({s \in starts : s <= p}) = k}

Span(rollout, k) ==
    IF LengthsCover(rollout.mask, rollout.lengths, Len(KeptTurns(rollout)))
    THEN SpanByLength(rollout.mask, rollout.lengths, k)
    ELSE Run(rollout.mask, k)

-----------------------------------------------------------------------------
\* The turn prompt k supervises.
TargetTurn(mode, k) == IF mode = "current_turn" THEN k ELSE k + 1

\* With the next turn supervised the last one has no prompt.
PromptCount(rollout, mode) ==
    LET count == Len(KeptTurns(rollout))
    IN  IF mode = "current_turn" THEN count
        ELSE IF count >= 2 THEN count - 1 ELSE 0

\* _build_turn_prompt: the turn whose text the prompt shows and the turn
\* whose tool responses are its feedback.
TurnPrompt(rollout, k) ==
    [shows |-> KeptTurns(rollout)[k].turn, feedback |-> KeptBlocks(rollout)[k]]

\* build_self_distillation_batch: each prompt with the tokens it supervises,
\* and whether it is active.
Prompts(rollout, mode) ==
    [k \in 1..PromptCount(rollout, mode) |->
        LET prompt == TurnPrompt(rollout, k)
            target == Span(rollout, TargetTurn(mode, k))
        IN  [shows    |-> prompt.shows,
             feedback |-> prompt.feedback,
             target   |-> target,
             active   |-> target # {} /\ prompt.feedback # 0]]

\* The legacy prompt of a row without turn prompts is active by policy; the
\* verifier always has something to say of a row.
LegacyActive(policy, resolved, hasFeedback) ==
    \/ policy = "always"
    \/ resolved
    \/ policy = "feedback_present" /\ hasFeedback

\* The supervision of a row as a whole.
RowActive(rollout, mode, policy, resolved, verifierFeedback) ==
    LET prompts == Prompts(rollout, mode)
    IN  IF prompts # <<>> THEN \E k \in DOMAIN prompts : prompts[k].active
        ELSE LegacyActive(policy, resolved,
                verifierFeedback \/ \E k \in DOMAIN rollout.blocks : rollout.blocks[k] # 0)
=============================================================================
