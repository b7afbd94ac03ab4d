----------------------------- MODULE SftTrainer -----------------------------
(***************************************************************************)
(* From the rows an outer step selected to the checkpoint of its inner     *)
(* SFT: the transcripts (rft_multiturn_dataset.py), the token cache with   *)
(* its loss masks and the bucketed sampler (rft_token_cache.py), and the   *)
(* ranks that train on it in lockstep (fsdp_sft_trainer_entry.py).         *)
(*                                                                         *)
(* A text is a sequence of symbols.  A row is its history: what the model  *)
(* wrote, a thought and what it says, and what its tools answered.         *)
(***************************************************************************)
EXTENDS RowSelection, Subsequences, SequencesExt, FiniteSetsExt

CONSTANTS Words,          \* the symbols of texts, besides the markers
          Histories,      \* sequence of the histories a row may have
          Prompt,         \* the text of the problem statement
          MaxSelected,    \* most rows a step selects
          LengthLimit,    \* effective_keep_budget
          WorldSize, MicroBatch, RequestedBatch,
          Epochs,         \* sft_num_epoch_per_batch
          BucketFactor,   \* global batches of a bucket (8 in the code)
          MaxFailures     \* ranks that may fail

ThinkEnd == "</think>"

ToolTag == "<tool_response>"

\* What the transcript and its chat template set apart, as symbols.
Markers ==
    {ThinkEnd, ToolTag, "<|im_start|>", "<|im_end|>", "nl", "user", "assistant"}

Symbol == Words \cup Markers

\* An entry of a history is [by, think, say]: by the model or a tool, with a
\* thought before what is said or none.
Entry == [by : {"model", "tool"}, think : Seq(Symbol), say : Seq(Symbol)]

ASSUME SftAssumption ==
    /\ Histories \in Seq(Seq(Entry))
    /\ Prompt \in Seq(Symbol)
    /\ \A n \in {WorldSize, MicroBatch, RequestedBatch, Epochs, BucketFactor} :
          n \in Nat /\ n > 0
    /\ MaxSelected \in Nat
    /\ LengthLimit \in Nat /\ LengthLimit > 1
    /\ MaxFailures \in Nat

-----------------------------------------------------------------------------
(* Transcripts.                                                            *)

Text(entry) ==
    IF entry.think = <<>> THEN entry.say
    ELSE entry.think \o <<ThinkEnd>> \o entry.say

\* build_multiturn_messages: blank entries are left out, and the tag a text
\* begins with, not its author, makes it a user message.
Role(entry) ==
    IF IsPrefix(<<ToolTag>>, Text(entry)) THEN "user" ELSE "assistant"

Messages(history) ==
    LET kept == Picked(history, {i \in DOMAIN history : Text(history[i]) # <<>>})
    IN  <<[role |-> "user", think |-> <<>>, say |-> Prompt]>>
        \o [i \in DOMAIN kept |->
              [role |-> Role(kept[i]), think |-> kept[i].think, say |-> kept[i].say]]

\* A history without an assistant turn cannot be serialized.
HasAssistantTurn(history) ==
    \E i \in DOMAIN Messages(history) : Messages(history)[i].role = "assistant"

-----------------------------------------------------------------------------
(* The chat template (of the model, external): a header, the text, an end  *)
(* marker.  It may leave the thoughts of the assistant out.                *)

Header(role) == <<"<|im_start|>", role, "nl">>

TurnEnd == <<"<|im_end|>", "nl">>

Content(message, keepsThoughts) ==
    IF keepsThoughts \/ message.role = "user" THEN Text(message) ELSE message.say

RenderTurn(message, keeps) ==
    Header(message.role) \o Content(message, keeps) \o TurnEnd

Render(messages, keeps) ==
    FlattenSeq([i \in DOMAIN messages |-> RenderTurn(messages[i], keeps)])

\* Where the content of message i stands in the rendered text: the first
\* position and the last one of its end marker.
ContentSpan(messages, i, keeps) ==
    LET before == Render(SubSeq(messages, 1, i - 1), keeps)
        first  == Len(before) + Len(Header(messages[i].role)) + 1
    IN  [first |-> first,
         last  |-> first + Len(Content(messages[i], keeps)) + Len(TurnEnd) - 1]

-----------------------------------------------------------------------------
(* The loss mask.                                                          *)

IsAt(text, part, k) ==
    k + Len(part) - 1 <= Len(text) /\ SubSeq(text, k, k + Len(part) - 1) = part

Found(text, part, from) ==
    {k \in from..Len(text) : IsAt(text, part, k)}

\* _rendered_message_content_candidates: an assistant text may have lost its
\* thought in the template.
Candidates(message) ==
    {Text(message)}
    \cup (IF message.role = "assistant" /\ message.think # <<>>
          THEN {message.say} \ {<<>>} ELSE {})

\* _rendered_message_content_candidate: the candidate found first after the
\* cursor, the longest of those found there; Len 0 stands for None.
FirstFound(text, message, cursor) ==
    LET places == {[at |-> Min(Found(text, c, cursor)), len |-> Len(c)] :
                      c \in {d \in Candidates(message) :
                                Found(text, d, cursor) # {}}}
    IN  IF places = {} THEN [at |-> 0, len |-> 0]
        ELSE CHOOSE p \in places :
                \A q \in places : p.at < q.at \/ (p.at = q.at /\ p.len >= q.len)

\* _assistant_turn_end: through the end marker after the content, or to the
\* end of the text.
EndOfTurn(text, from) ==
    IF Found(text, TurnEnd, from) = {} THEN Len(text)
    ELSE Min(Found(text, TurnEnd, from)) + Len(TurnEnd) - 1

\* Faulty variant: every message is looked for from the start.
NextCursorReset(cursor, found) == 1

NextCursor(cursor, found) ==
    IF found.at + found.len > cursor THEN found.at + found.len ELSE cursor

\* _assistant_loss_char_spans, message after message: the cursor, the masked
\* positions, and whether an assistant text was not found.
SpanStep(text, state, message) ==
    LET found == FirstFound(text, message, state.cursor)
    IN  IF found.at = 0
        THEN [state EXCEPT !.lost = @ \/ message.role = "assistant"]
        ELSE [cursor |-> NextCursor(state.cursor, found),
              mask   |-> state.mask \cup
                            (IF message.role = "assistant"
                             THEN found.at..EndOfTurn(text, found.at + found.len)
                             ELSE {}),
              lost   |-> state.lost]

LossSpans(messages, keeps) ==
    LET text == Render(messages, keeps)
        after[i \in 0..Len(messages)] ==
            IF i = 0 THEN [cursor |-> 1, mask |-> {}, lost |-> FALSE]
            ELSE SpanStep(text, after[i - 1], messages[i])
    IN  after[Len(messages)]

-----------------------------------------------------------------------------
(* The token cache.                                                        *)

\* What the tokenizer and the search for the loss give for history h.
Serialized(h, keeps) ==
    [length |-> Len(Render(Messages(Histories[h]), keeps)),
     loss   |-> LossSpans(Messages(Histories[h]), keeps)]

\* CachedRFTSFTDataset refuses too few rows, and rows whose fingerprint is of
\* another tokenizer, template or code.
DatasetRefuses(rows, sameFingerprint) ==
    Len(rows) < MinSelectedRows(WorldSize, MicroBatch) \/ ~sameFingerprint

-----------------------------------------------------------------------------
(* LengthBucketDistributedSampler.                                         *)

\* Place of record i when sorted by length, from 0.
SortedPlace(records, i) ==
    Cardinality({j \in DOMAIN records :
        \/ records[j].length < records[i].length
        \/ records[j].length = records[i].length /\ j < i})

BucketSize(globalBatch) == globalBatch * BucketFactor

Bucket(records, i, globalBatch) ==
    SortedPlace(records, i) \div BucketSize(globalBatch)

\* The shuffles a seed can give: the buckets in any order, each in any order.
\* All ranks seed alike, so they draw the same one in an epoch.
Shuffles(records, globalBatch) ==
    {o \in [DOMAIN records -> DOMAIN records] :
        /\ IsInjective(o)
        /\ \A i, k \in DOMAIN o : \A j \in i..k :
              Bucket(records, o[i], globalBatch) = Bucket(records, o[k], globalBatch)
                => Bucket(records, o[j], globalBatch) = Bucket(records, o[i], globalBatch)}

\* Faulty variant: the last place is missed.
RankSamplesShort(order, rank) ==
    LET places == (0..(Len(order) - 2))
    IN  [k \in 1..Cardinality({p \in places : p % WorldSize = rank}) |->
            (k - 1) * WorldSize + rank + 1]

\* Faulty variant: the shards of the ranks overlap.
RankSamplesOverlapping(order, rank) ==
    [k \in 1..(Len(order) \div WorldSize) |-> k + rank]

\* The places of the shuffle that are rank's: every WorldSize-th one of the
\* first total_size.
RankSamples(order, rank) ==
    LET numSamples == Len(order) \div WorldSize
    IN  [k \in 1..numSamples |-> (k - 1) * WorldSize + rank + 1]

\* Batches of the loader, which drops a last incomplete one.
RankBatches(order, rank, perRank) == Len(RankSamples(order, rank)) \div perRank

BatchOf(order, rank, perRank, k) ==
    {order[RankSamples(order, rank)[i]] : i \in (k * perRank + 1)..((k + 1) * perRank)}

-----------------------------------------------------------------------------
VARIABLES
    selected,    \* the selected rows, as indices of Histories
    keeps,       \* does the chat template keep thoughts
    tokenized,   \* what the tokenizer makes of each history
    sameCode,    \* is the trainer's fingerprint that of the cache
    phase,       \* "size", "cache", "ranks", "over"
    outcome,     \* how the step ended
    batchSize,   \* effective_train_batch_size
    records,     \* the rows of the token cache
    shuffles,    \* the shuffle of each epoch begun
    rank,        \* [pc, epoch, batch, step] of each rank
    trained,     \* the records each epoch trained, with the step and rank
    checkpoint,  \* the step a checkpoint was saved at, or 0
    failures     \* ranks that failed so far

vars == <<selected, keeps, tokenized, sameCode, phase, outcome, batchSize, records,
          shuffles, rank, trained, checkpoint, failures>>

inputs == <<selected, keeps, tokenized, sameCode>>

Ranks == 0..(WorldSize - 1)

PerRank == batchSize \div WorldSize

StepsPerEpoch == RankBatches(shuffles[1], 0, PerRank)

Init ==
    /\ selected \in BoundedSeq(DOMAIN Histories, MaxSelected)
    /\ keeps \in BOOLEAN
    /\ tokenized = [h \in DOMAIN Histories |-> Serialized(h, keeps)]
    /\ sameCode \in BOOLEAN
    /\ phase = "size"
    /\ outcome = "none"
    /\ batchSize = 0
    /\ records = <<>>
    /\ shuffles = <<>>
    /\ rank = [r \in Ranks |-> [pc |-> "load", epoch |-> 0, batch |-> 0, step |-> 0]]
    /\ trained = {}
    /\ checkpoint = 0
    /\ failures = 0

\* filter_selected_rows_by_token_length: rows are histories by their index.
FitsBudget(h) == tokenized[h].length <= LengthLimit

Fitting == Picked(selected, {i \in DOMAIN selected : FitsBudget(selected[i])})

\* build_token_cache_records
Record(h) ==
    [history     |-> h,
     length      |-> tokenized[h].length,
     mask        |-> tokenized[h].loss.mask]

\* _tokenize_multiturn_messages or build_token_cache_records raises.
RecordRaises(h) ==
    \/ ~HasAssistantTurn(Histories[h])
    \/ tokenized[h].loss.lost
    \/ ~FitsBudget(h)

End(how) ==
    /\ phase' = "over"
    /\ outcome' = how

\* The length filter raises when a row cannot be made a transcript; then the
\* step is skipped, refused, or sized and upsampled.
SizeBatch ==
    /\ phase = "size"
    /\ LET count   == Len(Fitting)
           divisor == MinSelectedRows(WorldSize, MicroBatch)
       IN  IF \E i \in DOMAIN selected : ~HasAssistantTurn(Histories[selected[i]])
           THEN End("raised") /\ UNCHANGED batchSize
           ELSE IF count = 0 THEN End("skipped") /\ UNCHANGED batchSize
           ELSE IF count < divisor THEN End("raised") /\ UNCHANGED batchSize
           ELSE /\ batchSize' = EffectiveTrainBatchSize(RequestedBatch, count, divisor)
                /\ phase' = "cache"
                /\ UNCHANGED outcome
    /\ UNCHANGED <<inputs, records, shuffles, rank, trained, checkpoint, failures>>

\* _write_selected_rows_token_cache_for_train of the upsampled rows.
WriteTokenCache ==
    /\ phase = "cache"
    /\ LET rows == Upsample(Fitting, batchSize)
       IN  IF \E i \in DOMAIN rows : RecordRaises(rows[i])
           THEN End("raised") /\ UNCHANGED records
           ELSE /\ records' = [i \in DOMAIN rows |-> Record(rows[i])]
                /\ phase' = "ranks"
                /\ UNCHANGED outcome
    /\ UNCHANGED <<inputs, batchSize, shuffles, rank, trained, checkpoint, failures>>

-----------------------------------------------------------------------------
(* The ranks.  step is global_step; a training step and the saving of a    *)
(* checkpoint are collective: a rank waits until all have come to it.      *)

LoadDataset(r) ==
    /\ phase = "ranks"
    /\ rank[r].pc = "load"
    /\ rank' = [rank EXCEPT ![r].pc =
                   IF DatasetRefuses(records, sameCode) THEN "failed" ELSE "epoch"]
    /\ UNCHANGED <<inputs, phase, outcome, batchSize, records, shuffles,
                   trained, checkpoint, failures>>

\* The seed and the epoch give all ranks one order: drawn by the first.
EpochDrawn(epoch) == epoch \in DOMAIN shuffles

\* set_epoch, and the order its seed gives; the loop over epochs is over
\* without a last step when there are none left.
BeginEpoch(r) ==
    /\ phase = "ranks"
    /\ rank[r].pc = "epoch"
    /\ IF rank[r].epoch = Epochs
       THEN /\ rank' = [rank EXCEPT ![r].pc = "done"]
            /\ UNCHANGED shuffles
       ELSE /\ rank' = [rank EXCEPT ![r].pc = "fetch", ![r].epoch = @ + 1,
                                    ![r].batch = 0]
            /\ IF EpochDrawn(rank[r].epoch + 1) THEN UNCHANGED shuffles
               ELSE \E order \in Shuffles(records, batchSize) :
                       shuffles' = Append(shuffles, order)
    /\ UNCHANGED <<inputs, phase, outcome, batchSize, records,
                   trained, checkpoint, failures>>

\* The next batch of the loader, or the next epoch.
FetchBatch(r) ==
    /\ phase = "ranks"
    /\ rank[r].pc = "fetch"
    /\ rank' = [rank EXCEPT ![r].pc =
                   IF rank[r].batch
                        < RankBatches(shuffles[rank[r].epoch], r, PerRank)
                   THEN "step" ELSE "epoch"]
    /\ UNCHANGED <<inputs, phase, outcome, batchSize, records, shuffles,
                   trained, checkpoint, failures>>

TotalSteps == StepsPerEpoch * Epochs

\* Faulty variant: the last step is taken for an ordinary one.
AfterStepUnsaved(step) == [pc |-> "fetch", saved |-> checkpoint]

\* The last step saves the checkpoint and ends the loop.
AfterStep(step) ==
    IF step >= TotalSteps THEN [pc |-> "done", saved |-> step]
    ELSE [pc |-> "fetch", saved |-> checkpoint]

\* training_step, in which the ranks reduce their gradients.
TrainingStep ==
    /\ phase = "ranks"
    /\ \A r \in Ranks : rank[r].pc = "step"
    /\ trained' = trained \cup
          UNION {{[epoch |-> rank[r].epoch, record |-> i, rank |-> r,
                   step |-> rank[r].step + 1] :
                     i \in BatchOf(shuffles[rank[r].epoch], r, PerRank, rank[r].batch)} :
                 r \in Ranks}
    /\ rank' = [r \in Ranks |->
                  [rank[r] EXCEPT !.pc = AfterStep(rank[r].step + 1).pc,
                                  !.batch = @ + 1, !.step = @ + 1]]
    /\ checkpoint' = AfterStep(rank[0].step + 1).saved
    /\ UNCHANGED <<inputs, phase, outcome, batchSize, records, shuffles, failures>>

\* A rank runs out of memory, or raises.
RankFails(r) ==
    /\ phase = "ranks"
    /\ rank[r].pc \notin {"failed", "done"}
    /\ failures < MaxFailures
    /\ failures' = failures + 1
    /\ rank' = [rank EXCEPT ![r].pc = "failed"]
    /\ UNCHANGED <<inputs, phase, outcome, batchSize, records, shuffles,
                   trained, checkpoint>>

\* torchrun ends the ranks that are left and fails.
TorchrunFails ==
    /\ phase = "ranks"
    /\ \E r \in Ranks : rank[r].pc = "failed"
    /\ End("raised")
    /\ UNCHANGED <<inputs, batchSize, records, shuffles, rank, trained,
                   checkpoint, failures>>

\* All ranks end; the loop then needs the checkpoint they saved.
TorchrunEnds ==
    /\ phase = "ranks"
    /\ \A r \in Ranks : rank[r].pc = "done"
    /\ End(IF checkpoint = 0 THEN "raised" ELSE "trained")
    /\ UNCHANGED <<inputs, batchSize, records, shuffles, rank, trained,
                   checkpoint, failures>>

RankSteps(r) == LoadDataset(r) \/ BeginEpoch(r) \/ FetchBatch(r)

Next ==
    \/ SizeBatch \/ WriteTokenCache
    \/ \E r \in Ranks : RankSteps(r) \/ RankFails(r)
    \/ TrainingStep \/ TorchrunFails \/ TorchrunEnds

Spec == Init /\ [][Next]_vars

\* The loop goes on, torchrun watches its processes and each rank runs.
FairSpec ==
    /\ Spec
    /\ WF_vars(SizeBatch \/ WriteTokenCache \/ TrainingStep
                 \/ TorchrunFails \/ TorchrunEnds)
    /\ \A r \in Ranks : WF_vars(RankSteps(r))

-----------------------------------------------------------------------------
(* Properties.                                                             *)

\* The ranks stand at most one collective step apart, and what was sized,
\* cached and saved has its type.
TypeOK ==
    /\ phase \in {"size", "cache", "ranks", "over"}
    /\ outcome \in {"none", "skipped", "raised", "trained"}
    /\ batchSize \in Nat
    /\ records \in Seq([history : DOMAIN Histories, length : Nat,
                        mask : SUBSET (1..LengthLimit)])
    /\ Len(shuffles) <= Epochs
    /\ \A r \in Ranks :
          /\ rank[r].pc \in {"load", "epoch", "fetch", "step", "done", "failed"}
          /\ rank[r].epoch \in 0..Epochs
          /\ rank[r].step = rank[0].step
    /\ checkpoint \in Nat
    /\ failures \in 0..MaxFailures

\* Where the assistant turns of a history are, each with its end marker.
AssistantText(h) ==
    LET messages == Messages(Histories[h])
        Span(i)  == ContentSpan(messages, i, keeps)
    IN  UNION {Span(i).first..Span(i).last :
                  i \in {j \in DOMAIN messages : messages[j].role = "assistant"}}

\* What the template itself puts into a text.
TemplateSymbols == {"<|im_start|>", "<|im_end|>", "nl", "user", "assistant"}

BeginsApart(text) == text # <<>> => text[1] \notin TemplateSymbols

HoldsNoThought(text) == \A p \in DOMAIN text : text[p] # ThinkEnd

\* What the search for the texts of a history relies on: no text begins with
\* a symbol of the template, what is said holds no end of a thought, and no
\* thought begins with the tag of a tool.
TextsStandApart ==
    /\ BeginsApart(Prompt) /\ HoldsNoThought(Prompt)
    /\ \A h \in DOMAIN Histories : \A i \in DOMAIN Histories[h] :
          LET entry == Histories[h][i]
          IN  /\ BeginsApart(entry.think)
              /\ BeginsApart(entry.say) /\ HoldsNoThought(entry.say)
              /\ ~IsPrefix(<<ToolTag>>, entry.think)

\* The loss is on what the model wrote and nowhere else: each record masks
\* every assistant turn with its end marker (its thought too, when the
\* template keeps it), and no prompt, header or tool response, even when
\* a tool repeats a turn or a turn repeats another.
LossIsOnAssistantTurns ==
    \A i \in DOMAIN records :
        records[i].mask = AssistantText(records[i].history)

\* When an inner training ends well, every selected row that fits was trained
\* in every epoch, no record was left out of an epoch or seen twice in it,
\* and no two ranks trained the same record.
EpochsCoverTheRows ==
    outcome = "trained" =>
        /\ {Fitting[i] : i \in DOMAIN Fitting}
             = {records[i].history : i \in DOMAIN records}
        /\ \A e \in 1..Epochs, i \in DOMAIN records :
              Cardinality({t \in trained : t.epoch = e /\ t.record = i}) = 1

\* The template keeps what every assistant turn of the rows says.
NothingIsLost == \A i \in DOMAIN Fitting : ~tokenized[Fitting[i]].loss.lost

\* A step that is sized and can be cached is trained to its last step and
\* saved there: the loop is never left without a checkpoint by a training
\* that did not fail.  (With the types.)
TrainedMeansSaved ==
    /\ TypeOK
    /\ phase = "over" /\ batchSize > 0 /\ sameCode /\ failures = 0 /\ NothingIsLost =>
          /\ outcome = "trained"
          /\ checkpoint = (Len(records) \div batchSize) * Epochs

\* The rows that were trained in step k, by whichever rank.
LessonOf(k) == {t.record : t \in {u \in trained : u.step = k}}

\* The ranks together are one trainer: the buckets, the shuffle, the shards
\* and the collectives show in nothing the outer loop relies on.
Training == INSTANCE TrainingContract WITH
                rows    <- Len(records),
                size    <- IF records = <<>> THEN 0 ELSE batchSize,
                lessons <- [k \in 1..rank[0].step |-> LessonOf(k)],
                saved   <- checkpoint,
                result  <- outcome
TrainsAsOne == Training!Spec

\* No rank waits for ever in a collective another rank does not come to.
SftEnds == <>(phase = "over")
=============================================================================
