-------------------------- MODULE SdpoTurnsProofs --------------------------
(***************************************************************************)
(* Proofs about one SDPO sample, for rollouts of any length, any limits    *)
(* and any number of ranks: which tokens its turns are of, what each of    *)
(* them is taught with, and that an update is whole.                       *)
(***************************************************************************)
EXTENDS SdpoTurns, RowSelectionProofs

-----------------------------------------------------------------------------
(* The inductive invariant                                                 *)

TokenType == [by : {"model", "tool", "none"}, turn : Nat]

TextType == [turn : Nat, blank : BOOLEAN]

PcBefore == {"setup", "loop", "generate", "decode", "bridge", "feedback", "verify",
             "after", "finish", "rolled"}

PcSupervised == {"built", "update", "updated", "died"}

\* The three lists of tokens grow together, within the budget.
Aligned ==
    /\ ids \in Seq(TokenType) /\ mask \in Seq({0, 1}) /\ logprobs \in Seq(Nat)
    /\ Len(ids) = Len(mask) /\ Len(logprobs) = Len(mask)
    /\ Len(mask) <= ResponseLength
    /\ \A p \in 1..Len(ids) :
          /\ mask[p] = IF ids[p].by = "model" THEN 1 ELSE 0
          /\ logprobs[p] \in {0, ids[p].turn}
          /\ ids[p].by = "none" => Len(ids) = 1

\* The tokens stand in the order of their turns, what the tools answer to a
\* turn after it, and turns that follow each other are kept apart by it.
InTurns ==
    /\ \A p, q \in 1..Len(ids) :
          p < q => \/ ids[p].turn < ids[q].turn
                   \/ /\ ids[p].turn = ids[q].turn
                      /\ ~(ids[p].by = "tool" /\ ids[q].by = "model")
    /\ \A p, q \in 1..Len(ids) :
          q = p + 1 /\ ids[p].by = "model" /\ ids[q].by = "model" =>
              ids[p].turn = ids[q].turn
    /\ \A p \in 1..Len(ids) :
          ids[p].by = "model" => ids[p].turn \in 1..(Len(texts) + 1)

\* Each turn that is reported has its tokens, and no other's tool responses.
Reported ==
    /\ texts \in Seq(TextType) /\ lengths \in Seq(Nat) /\ blocks \in Seq(Nat)
    /\ Len(texts) = Len(lengths) /\ Len(texts) = Len(blocks)
    /\ \A k \in 1..Len(texts) :
          /\ texts[k].turn = k
          /\ blocks[k] \in {0, k}
          /\ TokensOf(k) # {}
          /\ lengths[k] = Cardinality(TokensOf(k))

\* Where the loop stands says which turn the last tokens are of: a turn is
\* begun after a tool's answer, and reported before the next.
AtWork ==
    /\ pc = "setup" => ids = <<>> /\ texts = <<>>
    /\ pc \in {"setup", "loop", "generate"} /\ ids # <<>> => ids[Len(ids)].by = "tool"
    /\ pc = "generate" => Len(mask) < ResponseLength
    /\ pc \in {"setup", "loop", "generate", "bridge", "feedback"} =>
          \A p \in 1..Len(ids) : ids[p].turn <= Len(texts)
    /\ pc \in {"bridge", "feedback"} => texts # <<>>
    /\ pc \in PcBefore \ {"rolled"} => \A p \in 1..Len(ids) : ids[p].by # "none"
    /\ pc = "decode" =>
          /\ \A p \in 1..Len(ids) : ids[p].turn <= Len(texts) + 1
          /\ TokensOf(Len(texts) + 1) # {}
          /\ pending = Cardinality(TokensOf(Len(texts) + 1))

\* The supervision is that of the finished rollout.
Supervision ==
    /\ mode \in Modes /\ spent \in BOOLEAN /\ verified \in {"no", "passed", "failed"}
    /\ pc \in PcBefore \cup PcSupervised
    /\ pc \in PcBefore => targets = <<>>
    /\ pc \in PcSupervised => targets = Prompts(Rollout, mode)

Together == \A r \in Ranks : ranks[r] = ranks[1]

RowSteps == {i \in 1..Len(applied) : applied[i] = "row"}

\* As long as some ranks have raised and others have not, no step is taken
\* with the update of the library; all ranks step together before the first
\* has raised and after the last.
InUpdate ==
    /\ \A r \in Ranks : ranks[r].path = IF r \in raises THEN "row" ELSE Path
    /\ raises # {} => Path = "turn"
    /\ raises = {} =>
          /\ Together
          /\ Len(applied) = ranks[1].step - 1
          /\ \A i \in 1..Len(applied) : applied[i] = Path
    /\ raises = Ranks => Together /\ Cardinality(RowSteps) = ranks[1].step - 1
    /\ raises # {} /\ raises # Ranks =>
          /\ \A r \in raises : ranks[r].step = 1 /\ ranks[r].op = 1
          /\ \A i \in 1..Len(applied) : applied[i] = "turn"

Updating ==
    /\ raises \in SUBSET Ranks
    /\ ranks \in [Ranks -> [path : {"none", "turn", "row"}, step : 1..(Steps + 1),
                            op : Nat]]
    /\ applied \in Seq({"turn", "row"})
    /\ pc \notin {"update", "updated", "died"} =>
          /\ applied = <<>> /\ raises = {}
          /\ \A r \in Ranks : ranks[r].step = 1
    /\ pc \in {"update", "updated"} => InUpdate
    /\ pc = "updated" =>
          /\ raises \in {{}, Ranks}
          /\ ranks[1].step = Steps + 1
    /\ pc = "died" => raises # {}
    /\ teacher \in {0, 1}
    /\ teacher = 1 => pc = "updated"

IInv ==
    /\ Aligned /\ InTurns /\ Reported /\ AtWork /\ Supervision /\ Updating

-----------------------------------------------------------------------------
(* Facts about the lists                                                   *)

\* The numbers of the configuration are positive.
LEMMA SdpoNumbers ==
  /\ ResponseLength \in Nat /\ ResponseLength > 0
  /\ MaxGenerated \in Nat /\ MaxFeedback \in Nat
  /\ WorldSize \in Nat /\ WorldSize > 0 /\ Steps \in Nat /\ Steps > 0
BY SdpoAssumption

\* Rank 1 is a rank, and there are finitely many.
LEMMA RankOne == 1 \in Ranks /\ Ranks # {}
BY SdpoNumbers DEF Ranks

\* The number of places in the last part of a list.
LEMMA IntervalSize ==
  ASSUME NEW n \in Nat, NEW m \in Nat, m > 0
  PROVE  (n + 1)..(n + m) # {} /\ Cardinality((n + 1)..(n + m)) = m
<1>1. PICK a \in Int : a = n + 1
  OBVIOUS
<1>2. PICK b \in Int : b = n + m
  OBVIOUS
<1>3. Cardinality(a..b) = b - a + 1 /\ a <= b
  BY <1>1, <1>2, FS_Interval
<1>4. b - a + 1 = m
  BY <1>1, <1>2
<1>5. a \in a..b
  BY <1>3
<1>. QED
  BY <1>1, <1>2, <1>3, <1>4, <1>5, Zenon

\* The number of numbers up to n.
LEMMA FirstNumbers == ASSUME NEW n \in Nat PROVE Cardinality(1..n) = n
BY FS_Interval

\* The tokens of a turn are places of the list, finitely many.
LEMMA TokensFinite ==
  ASSUME Aligned, NEW k
  PROVE  /\ IsFiniteSet(TokensOf(k)) /\ Cardinality(TokensOf(k)) \in Nat
         /\ TokensOf(k) \in SUBSET (1..Len(ids))
<1>1. Len(ids) \in Nat /\ DOMAIN ids = 1..Len(ids)
  BY DEF Aligned
<1>2. TokensOf(k) \in SUBSET (1..Len(ids))
  BY <1>1 DEF TokensOf
<1>3. IsFiniteSet(1..Len(ids))
  BY <1>1, FS_Interval
<1>4. IsFiniteSet(TokensOf(k))
  BY <1>2, <1>3, FS_Subset, Zenon
<1>. QED
  BY <1>2, <1>4, FS_CardinalityType

\* The two parts of a list that is put together.
LEMMA JoinedParts ==
  ASSUME NEW T, NEW s \in Seq(T), NEW t \in Seq(T), NEW n, NEW m,
         n = Len(s), m = Len(t)
  PROVE  /\ s \o t \in Seq(T) /\ Len(s \o t) = n + m
         /\ \A p \in 1..n : (s \o t)[p] = s[p]
         /\ \A p \in (n + 1)..(n + m) : p - n \in 1..m /\ (s \o t)[p] = t[p - n]
OBVIOUS

\* The places of a list.
LEMMA ListDomain == ASSUME NEW T, NEW s \in Seq(T) PROVE DOMAIN s = 1..Len(s)
OBVIOUS

\* At least one token is appended, all of them after the others and alike.
LEMMA Appended ==
  ASSUME Aligned, Reported, NEW count \in Nat, count > 0, NEW known \in {0, count},
         NEW generated \in BOOLEAN, Len(mask) < ResponseLength,
         \A p \in 1..Len(ids) : ids[p].by # "none",
         generated = FALSE => texts # <<>>,
         AppendResponseTokens(count, known, generated)
  PROVE  LET cut   == IF count <= Available THEN count ELSE Available
             token == [by |-> IF generated THEN "model" ELSE "tool",
                       turn |-> IF generated THEN Turn ELSE Turn - 1]
         IN  /\ cut \in Nat /\ cut > 0 /\ token \in TokenType
             /\ Len(ids') = Len(ids) + cut
             /\ \A p \in 1..Len(ids) : ids'[p] = ids[p]
             /\ \A p \in (Len(ids) + 1)..(Len(ids) + cut) : ids'[p] = token
             /\ \A p \in 1..Len(ids') : ids'[p].by # "none"
             /\ Aligned'
<1>. DEFINE cut   == IF count <= Available THEN count ELSE Available
            token == [by |-> IF generated THEN "model" ELSE "tool",
                      turn |-> IF generated THEN Turn ELSE Turn - 1]
            n     == Len(ids)
            one   == TokenMask(generated)
            more  == [i \in 1..cut |-> token]
            ones  == [i \in 1..cut |-> one]
            logs  == [i \in 1..cut |-> IF i <= known THEN token.turn ELSE 0]
<1>1. /\ ids \in Seq(TokenType) /\ mask \in Seq({0, 1}) /\ logprobs \in Seq(Nat)
      /\ n \in Nat /\ Len(mask) = n /\ Len(logprobs) = n /\ n < ResponseLength
  BY DEF Aligned
<1>2. cut \in Nat /\ cut > 0 /\ n + cut <= ResponseLength
  BY <1>1, SdpoNumbers DEF Available
<1>3. token \in TokenType /\ token.by = (IF generated THEN "model" ELSE "tool")
      /\ token.turn \in Nat
  <2>1. Len(texts) \in Nat
    BY DEF Reported
  <2>2. generated = FALSE => Len(texts) > 0
    <3>1. texts \in Seq(TextType)
      BY DEF Reported
    <3>. QED
      BY <2>1, <3>1
  <2>3. CASE generated
    <3>1. token = [by |-> "model", turn |-> Len(texts) + 1]
      BY <2>3 DEF Turn
    <3>. QED
      BY <2>1, <2>3, <3>1 DEF TokenType
  <2>4. CASE ~generated
    <3>1. token = [by |-> "tool", turn |-> (Len(texts) + 1) - 1]
      BY <2>4 DEF Turn
    <3>2. (Len(texts) + 1) - 1 \in Nat
      BY <2>1
    <3>. QED
      BY <2>4, <3>1, <3>2 DEF TokenType
  <2>. QED
    BY <2>3, <2>4
<1>4. one \in {0, 1} /\ one = (IF token.by = "model" THEN 1 ELSE 0)
  BY <1>3 DEF TokenMask
<1>5. /\ ids' = ids \o more /\ mask' = mask \o ones /\ logprobs' = logprobs \o logs
  BY DEF AppendResponseTokens
<1>. HIDE DEF cut, token, one
<1>6. more \in Seq(TokenType) /\ ones \in Seq({0, 1}) /\ logs \in Seq(Nat)
      /\ Len(more) = cut /\ Len(ones) = cut /\ Len(logs) = cut
  BY <1>2, <1>3, <1>4
<1>7. /\ \A i \in 1..cut : more[i] = token /\ ones[i] = one /\ logs[i] \in {0, token.turn}
  OBVIOUS
<1>. HIDE DEF more, ones, logs
<1>. HIDE DEF n
<1>8. /\ ids' \in Seq(TokenType) /\ Len(ids') = n + cut
      /\ \A p \in 1..n : ids'[p] = ids[p]
      /\ \A p \in (n + 1)..(n + cut) : p - n \in 1..cut /\ ids'[p] = more[p - n]
  <2>1. /\ ids \in Seq(TokenType) /\ more \in Seq(TokenType) /\ n = Len(ids) /\ cut = Len(more)
        /\ ids' = ids \o more
    BY <1>1, <1>5, <1>6 DEF n
  <2>. QED
    BY <2>1, JoinedParts
<1>9. /\ mask' \in Seq({0, 1}) /\ Len(mask') = n + cut
      /\ \A p \in 1..n : mask'[p] = mask[p]
      /\ \A p \in (n + 1)..(n + cut) : p - n \in 1..cut /\ mask'[p] = ones[p - n]
  <2>1. /\ mask \in Seq({0, 1}) /\ ones \in Seq({0, 1}) /\ n = Len(mask) /\ cut = Len(ones)
        /\ mask' = mask \o ones
    BY <1>1, <1>5, <1>6 DEF n
  <2>. QED
    BY <2>1, JoinedParts
<1>10. /\ logprobs' \in Seq(Nat) /\ Len(logprobs') = n + cut
       /\ \A p \in 1..n : logprobs'[p] = logprobs[p]
       /\ \A p \in (n + 1)..(n + cut) : p - n \in 1..cut /\ logprobs'[p] = logs[p - n]
  <2>1. /\ logprobs \in Seq(Nat) /\ logs \in Seq(Nat) /\ n = Len(logprobs) /\ cut = Len(logs)
        /\ logprobs' = logprobs \o logs
    BY <1>1, <1>5, <1>6 DEF n
  <2>. QED
    BY <2>1, JoinedParts
<1>11. ASSUME NEW p \in 1..(n + cut)
       PROVE  /\ mask'[p] = (IF ids'[p].by = "model" THEN 1 ELSE 0)
              /\ logprobs'[p] \in {0, ids'[p].turn}
              /\ ids'[p].by # "none"
  <2>1. CASE p \in 1..n
    BY <1>8, <1>9, <1>10, <2>1 DEF Aligned, n
  <2>2. CASE p \in (n + 1)..(n + cut)
    <3>1. p - n \in 1..cut /\ ids'[p] = token /\ mask'[p] = one
          /\ logprobs'[p] \in {0, token.turn}
      BY <1>7, <1>8, <1>9, <1>10, <2>2
    <3>. QED
      BY <1>3, <1>4, <3>1
  <2>. QED
    BY <1>1, <1>2, <2>1, <2>2
<1>12. Aligned'
  BY <1>2, <1>8, <1>9, <1>10, <1>11 DEF Aligned
<1>13. \A p \in (n + 1)..(n + cut) : ids'[p] = token
  BY <1>7, <1>8
<1>. QED
  BY <1>2, <1>3, <1>8, <1>11, <1>12, <1>13 DEF cut, token, n

\* The list of tokens has n of them before and cut times token after them.
AddsAlike(token, n, cut) ==
    /\ token \in TokenType /\ cut \in Nat /\ cut > 0
    /\ n = Len(ids) /\ Len(ids') = n + cut
    /\ \A p \in 1..n : ids'[p] = ids[p]
    /\ \A p \in (n + 1)..(n + cut) : ids'[p] = token

\* A tool answers the last turn, or the model begins the next one after it.
Follows(token, n) ==
    /\ token.by \in {"model", "tool"}
    /\ \A p \in 1..n : ids[p].turn <= token.turn
    /\ token.by = "model" =>
          /\ token.turn = Len(texts) + 1
          /\ \A p \in 1..n : ids[p].turn < token.turn
          /\ n > 0 => ids[n].by = "tool"

\* The tokens of turn k after a step that adds cut times token.
JoinsTurn(k, token, n, cut) ==
    TokensOf(k)' = IF token = [by |-> "model", turn |-> k]
                   THEN TokensOf(k) \cup ((n + 1)..(n + cut)) ELSE TokensOf(k)

\* What the lists say after tokens of one kind are appended: they are in the
\* order of their turns, and join the tokens of their own turn only.
LEMMA AppendedTurns ==
  ASSUME Aligned, InTurns, Reported, Aligned', UNCHANGED texts,
         NEW token, NEW n, NEW cut, AddsAlike(token, n, cut), Follows(token, n)
  PROVE  InTurns' /\ \A k : JoinsTurn(k, token, n, cut)
<1>. USE DEF AddsAlike, Follows
<1>1. /\ n \in Nat /\ Len(texts) \in Nat /\ token.turn \in Nat
      /\ \A p \in 1..n : ids[p].turn \in Nat
  <2>1. n \in Nat /\ \A p \in 1..n : ids[p] \in TokenType
    BY DEF Aligned
  <2>2. Len(texts) \in Nat
    BY DEF Reported
  <2>. QED
    BY <2>1, <2>2 DEF TokenType
<1>2. ASSUME NEW p \in 1..(n + cut)
      PROVE  \/ p \in 1..n /\ ids'[p] = ids[p]
             \/ p \in (n + 1)..(n + cut) /\ ids'[p] = token
  BY <1>1
<1>3. ASSUME NEW p \in 1..(n + cut), NEW q \in 1..(n + cut), p < q
      PROVE  \/ ids'[p].turn < ids'[q].turn
             \/ /\ ids'[p].turn = ids'[q].turn
                /\ ~(ids'[p].by = "tool" /\ ids'[q].by = "model")
  <2>1. CASE q \in 1..n
    <3>1. p \in 1..n
      BY <1>1, <1>3, <2>1
    <3>. QED
      BY <1>3, <2>1, <3>1 DEF InTurns
  <2>2. CASE q \in (n + 1)..(n + cut) /\ p \in 1..n
    BY <1>1, <2>2
  <2>3. CASE q \in (n + 1)..(n + cut) /\ p \in (n + 1)..(n + cut)
    BY <2>3
  <2>. QED
    BY <1>2, <2>1, <2>2, <2>3
<1>4. ASSUME NEW p \in 1..(n + cut), NEW q \in 1..(n + cut), q = p + 1,
             ids'[p].by = "model", ids'[q].by = "model"
      PROVE  ids'[p].turn = ids'[q].turn
  <2>1. CASE q \in 1..n
    <3>1. p \in 1..n
      BY <1>1, <1>4, <2>1
    <3>. QED
      BY <1>4, <2>1, <3>1 DEF InTurns
  <2>2. CASE q \in (n + 1)..(n + cut) /\ p \in 1..n
    <3>1. p = n /\ n > 0
      BY <1>1, <1>4, <2>2
    <3>. QED
      BY <1>4, <2>2, <3>1
  <2>3. CASE q \in (n + 1)..(n + cut) /\ p \in (n + 1)..(n + cut)
    BY <2>3
  <2>. QED
    BY <1>2, <2>1, <2>2, <2>3
<1>5. ASSUME NEW p \in 1..(n + cut), ids'[p].by = "model"
      PROVE  ids'[p].turn \in 1..(Len(texts) + 1)
  <2>1. CASE p \in 1..n
    BY <1>5, <2>1 DEF InTurns
  <2>2. CASE p \in (n + 1)..(n + cut)
    BY <1>1, <1>5, <2>2
  <2>. QED
    BY <1>2, <2>1, <2>2
<1>6. InTurns'
  BY <1>3, <1>4, <1>5 DEF InTurns
<1>7. ASSUME NEW k
      PROVE  JoinsTurn(k, token, n, cut)
  <2>1. DOMAIN ids = 1..n /\ DOMAIN ids' = 1..(n + cut)
    BY <1>1 DEF Aligned
  <2>2. TokensOf(k)' = {p \in 1..(n + cut) : ids'[p] = [by |-> "model", turn |-> k]}
    BY <2>1 DEF TokensOf
  <2>3. TokensOf(k) = {p \in 1..n : ids[p] = [by |-> "model", turn |-> k]}
    BY <2>1 DEF TokensOf
  <2>4. 1..n \subseteq 1..(n + cut) /\ (n + 1)..(n + cut) \subseteq 1..(n + cut)
    BY <1>1
  <2>. DEFINE mine == [by |-> "model", turn |-> k]
  <2>. HIDE DEF mine
  <2>5. CASE token = mine
    BY <1>2, <2>2, <2>3, <2>4, <2>5 DEF mine, JoinsTurn
  <2>6. CASE token # mine
    BY <1>2, <2>2, <2>3, <2>4, <2>6 DEF mine, JoinsTurn
  <2>. QED
    BY <2>5, <2>6 DEF mine, JoinsTurn
<1>. QED
  BY <1>6, <1>7

-----------------------------------------------------------------------------
(* The rollout                                                             *)

\* The invariant holds at the start.
LEMMA SdpoInit == Init => IInv
<1>. SUFFICES ASSUME Init PROVE IInv
  OBVIOUS
<1>1. /\ Aligned /\ InTurns /\ Reported /\ AtWork
  BY SdpoNumbers DEF Init, Aligned, InTurns, Reported, AtWork, PcBefore
<1>2. Supervision
  BY DEF Init, Supervision, PcBefore, PcSupervised
<1>3. Updating
  BY SdpoNumbers DEF Init, Updating
<1>. QED
  BY <1>1, <1>2, <1>3 DEF IInv

\* What is said of the lists of tokens and reports goes for as long as they stay.
LEMMA ListsStay ==
  ASSUME Aligned, InTurns, Reported,
         UNCHANGED <<ids, mask, logprobs, texts, lengths, blocks>>
  PROVE  Aligned' /\ InTurns' /\ Reported'
<1>1. Aligned'
  BY DEF Aligned
<1>2. InTurns'
  <2>1. ids' = ids /\ texts' = texts
    OBVIOUS
  <2>. QED
    BY <2>1, SMTT(30) DEF InTurns
<1>3. Reported'
  BY DEF Reported, TokensOf
<1>. QED
  BY <1>1, <1>2, <1>3

\* A step of the rollout has nothing to do with the supervision or the update.
LEMMA RolloutMoves ==
  ASSUME IInv, pc \in PcBefore, pc' \in PcBefore, UNCHANGED <<mode, update>>,
         spent' \in BOOLEAN, verified' \in {"no", "passed", "failed"},
         Aligned', InTurns', Reported', AtWork'
  PROVE  IInv'
<1>1. UNCHANGED <<mode, targets, ranks, applied, teacher, raises>>
  BY DEF update, batch
<1>2. Supervision'
  BY <1>1 DEF IInv, Supervision, PcBefore, PcSupervised
<1>3. Updating'
  BY <1>1 DEF IInv, Updating, PcBefore
<1>. QED
  BY <1>2, <1>3 DEF IInv

\* Set-up, the head of the loop, failures and timeouts do so, and the
\* verification.
LEMMA PlainSteps ==
  ASSUME IInv,
         \/ SetUp \/ StartTurn \/ BridgeFails \/ Verify \/ Fails \/ TimesOut
         \/ TimePasses
  PROVE  IInv'
<1>1. /\ pc \in PcBefore /\ pc' \in PcBefore
      /\ UNCHANGED <<mode, tokens, pending, reports, update>>
      /\ spent' \in BOOLEAN /\ verified' \in {"no", "passed", "failed"}
  BY DEF IInv, Supervision, SetUp, StartTurn, BridgeFails, Verify, Fails, TimesOut,
         TimePasses, PcBefore, verdict
<1>2. UNCHANGED <<ids, mask, logprobs, pending, texts, lengths, blocks>>
  BY <1>1 DEF tokens, reports
<1>3. AtWork'
  <2>1. CASE SetUp
    BY <1>2, <2>1 DEF IInv, AtWork, SetUp, PcBefore
  <2>2. CASE StartTurn
    <3>1. pc' = "generate" => Len(mask) < ResponseLength
      <4>1. Len(mask) \in Nat
        BY DEF IInv, Aligned
      <4>. QED
        BY <2>2, <4>1, SdpoNumbers DEF StartTurn, Available
    <3>2. pc = "loop" /\ pc' \in {"after", "generate"}
      BY <2>2 DEF StartTurn
    <3>. QED
      BY <1>2, <3>1, <3>2 DEF IInv, AtWork, PcBefore
  <2>3. CASE BridgeFails \/ Verify \/ Fails \/ TimesOut
    <3>1. pc' \in {"after", "finish"} /\ pc # "rolled"
      BY <2>3 DEF BridgeFails, Verify, Fails, TimesOut
    <3>. QED
      BY <1>1, <1>2, <3>1 DEF IInv, AtWork, PcBefore
  <2>4. CASE TimePasses
    <3>1. UNCHANGED pc
      BY <2>4 DEF TimePasses
    <3>. QED
      BY <1>1, <1>2, <3>1 DEF IInv, AtWork, TokensOf
  <2>. QED
    BY <2>1, <2>2, <2>3, <2>4
<1>4. Aligned' /\ InTurns' /\ Reported'
  BY <1>2, ListsStay DEF IInv
<1>. QED
  BY <1>1, <1>3, <1>4, RolloutMoves

\* A generation begins a turn after a tool's answer, and its tokens are the
\* turn's only ones.
LEMMA GenerateStep == ASSUME IInv, Generate PROVE IInv'
<1>1. /\ pc = "generate" /\ UNCHANGED <<mode, spent, reports, verdict, update>>
      /\ pc \in PcBefore
  BY DEF Generate, PcBefore
<1>2. UNCHANGED <<mode, update, spent, verified, texts, lengths, blocks>>
  BY <1>1 DEF reports, verdict
<1>3. spent' \in BOOLEAN /\ verified' \in {"no", "passed", "failed"}
  BY <1>2 DEF IInv, Supervision
<1>4. PICK count \in 0..MaxGenerated :
         \E known \in {0, count} :
            IF count = 0
            THEN pc' = AfterEmptyGeneration /\ UNCHANGED <<tokens, pending>>
            ELSE /\ AppendResponseTokens(count, known, TRUE)
                 /\ pending' = IF count <= Available THEN count ELSE Available
                 /\ pc' = "decode"
  BY DEF Generate
<1>5. PICK known \in {0, count} :
          IF count = 0
          THEN pc' = AfterEmptyGeneration /\ UNCHANGED <<tokens, pending>>
          ELSE /\ AppendResponseTokens(count, known, TRUE)
               /\ pending' = IF count <= Available THEN count ELSE Available
               /\ pc' = "decode"
  BY <1>4
<1>6. CASE count = 0
  <2>1. pc' = "after" /\ UNCHANGED <<ids, mask, logprobs, pending>>
    BY <1>5, <1>6 DEF AfterEmptyGeneration, tokens
  <2>2. Aligned' /\ InTurns' /\ Reported'
    BY <1>2, <2>1, ListsStay DEF IInv
  <2>3. AtWork'
    BY <1>1, <1>2, <2>1 DEF IInv, AtWork, PcBefore
  <2>4. pc' \in PcBefore
    BY <2>1 DEF PcBefore
  <2>. QED
    BY <1>1, <1>2, <1>3, <2>2, <2>3, <2>4, RolloutMoves
<1>7. CASE count # 0
  <2>. PICK t : t = Len(texts) + 1
    OBVIOUS
  <2>. PICK n : n = Len(ids)
    OBVIOUS
  <2>. PICK cut : cut = IF count <= Available THEN count ELSE Available
    OBVIOUS
  <2>. PICK token : token = [by |-> "model", turn |-> t]
    OBVIOUS
  <2>1. /\ Aligned /\ InTurns /\ Reported
        /\ count \in Nat /\ count > 0
        /\ Len(mask) < ResponseLength
        /\ \A p \in 1..Len(ids) : ids[p].by # "none"
        /\ AppendResponseTokens(count, known, TRUE)
    <3>1. count \in Nat /\ count > 0
      BY <1>7, SdpoNumbers
    <3>2. Len(mask) < ResponseLength /\ \A p \in 1..Len(ids) : ids[p].by # "none"
      BY <1>1 DEF IInv, AtWork, PcBefore
    <3>. QED
      BY <1>5, <1>7, <3>1, <3>2 DEF IInv
  <2>2. /\ cut \in Nat /\ cut > 0 /\ token \in TokenType
        /\ Len(ids') = n + cut
        /\ \A p \in 1..n : ids'[p] = ids[p]
        /\ \A p \in (n + 1)..(n + cut) : ids'[p] = token
        /\ \A p \in 1..Len(ids') : ids'[p].by # "none"
        /\ Aligned'
    <3>1. TRUE \in BOOLEAN
      OBVIOUS
    <3>. QED
      BY <2>1, <3>1, Appended DEF Turn
  <2>3. pending' = cut /\ pc' = "decode" /\ pc' \in PcBefore
    BY <1>5, <1>7 DEF PcBefore
  <2>4. token.by = "model" /\ token.turn = t
    OBVIOUS
  <2>5. Len(texts) \in Nat /\ n \in Nat /\ ids \in Seq(TokenType)
    BY <2>1 DEF Reported, Aligned
  <2>6. /\ \A p \in 1..n : ids[p].turn \in Nat /\ ids[p].turn < t
        /\ n > 0 => ids[n].by = "tool"
    <3>1. \A p \in 1..n : ids[p].turn <= Len(texts)
      BY <1>1 DEF IInv, AtWork
    <3>2. n > 0 => ids # <<>>
      BY <2>5
    <3>3. n > 0 => ids[n].by = "tool"
      BY <1>1, <3>2 DEF IInv, AtWork
    <3>4. \A p \in 1..n : ids[p] \in TokenType
      BY <2>5
    <3>5. \A p \in 1..n : ids[p].turn \in Nat
      BY <3>4 DEF TokenType
    <3>. QED
      BY <2>5, <3>1, <3>3, <3>5
  <2>7. TokensOf(t) = {}
    <3>1. DOMAIN ids = 1..n
      BY <2>5
    <3>2. \A p \in 1..n : ids[p] # [by |-> "model", turn |-> t]
      BY <2>5, <2>6
    <3>. QED
      BY <3>1, <3>2 DEF TokensOf
  <2>8. InTurns' /\ \A k : JoinsTurn(k, token, n, cut)
    <3>1. AddsAlike(token, n, cut)
      BY <2>2 DEF AddsAlike
    <3>2. Follows(token, n)
      <4>1. t \in Nat
        BY <2>5
      <4>2. \A p \in 1..n : ids[p].turn <= t
        BY <2>6, <4>1
      <4>. QED
        BY <1>2, <2>4, <2>6, <4>1, <4>2 DEF Follows
    <3>. QED
      BY <1>2, <2>1, <2>2, <3>1, <3>2, AppendedTurns
  <2>9. Reported'
    <3>1. \A k \in 1..Len(texts) : TokensOf(k)' = TokensOf(k)
      <4>1. \A k \in 1..Len(texts) : token.turn # k
        BY <2>4, <2>5
      <4>. QED
        BY <2>8, <4>1 DEF JoinsTurn
    <3>. QED
      BY <1>2, <2>1, <3>1 DEF Reported
  <2>10. TokensOf(t)' = (n + 1)..(n + cut)
    BY <2>4, <2>7, <2>8 DEF JoinsTurn
  <2>11. (n + 1)..(n + cut) # {} /\ Cardinality((n + 1)..(n + cut)) = cut
    BY <2>2, <2>5, IntervalSize
  <2>12. \A p \in 1..Len(ids') : ids'[p].turn <= t
    <3>1. n \in Nat /\ t \in Nat
      BY <2>5
    <3>2. ASSUME NEW p \in 1..(n + cut) PROVE ids'[p].turn <= t
      <4>1. CASE p \in 1..n
        <5>1. ids'[p] = ids[p] /\ ids[p].turn < t /\ ids[p].turn \in Nat
          BY <2>2, <2>6, <4>1
        <5>. QED
          BY <3>1, <5>1
      <4>2. CASE p \in (n + 1)..(n + cut)
        <5>1. ids'[p] = token
          BY <2>2, <4>2
        <5>. QED
          BY <2>4, <3>1, <5>1
      <4>. QED
        BY <2>2, <3>1, <4>1, <4>2
    <3>. QED
      BY <2>2, <3>2
  <2>13. AtWork'
    <3>1. /\ \A p \in 1..Len(ids') : ids'[p].turn <= Len(texts') + 1
          /\ TokensOf(Len(texts) + 1)' # {}
          /\ pending' = Cardinality(TokensOf(Len(texts) + 1)')
      BY <1>2, <2>3, <2>10, <2>11, <2>12
    <3>. QED
      BY <1>2, <2>2, <2>3, <3>1 DEF AtWork, PcBefore, TokensOf
  <2>. QED
    BY <1>1, <1>2, <1>3, <2>2, <2>3, <2>8, <2>9, <2>13, RolloutMoves
<1>. QED
  BY <1>6, <1>7

\* A decoded generation is reported with the tokens that are there.
LEMMA DecodeStep == ASSUME IInv, Decode PROVE IInv'
<1>. PICK t : t = Len(texts) + 1
  OBVIOUS
<1>1. /\ pc = "decode" /\ pc \in PcBefore /\ pc' = "bridge" /\ pc' \in PcBefore
      /\ UNCHANGED <<mode, spent, ids, mask, logprobs, verified, update>>
  BY DEF Decode, PcBefore, tokens, verdict
<1>2. PICK blank \in BOOLEAN : texts' = Append(texts, [turn |-> t, blank |-> blank])
  BY DEF Decode, Turn
<1>3. lengths' = Append(lengths, pending) /\ blocks' = Append(blocks, 0)
  BY DEF Decode
<1>4. /\ texts \in Seq(TextType) /\ lengths \in Seq(Nat) /\ blocks \in Seq(Nat)
      /\ Len(texts) \in Nat /\ Len(lengths) = Len(texts) /\ Len(blocks) = Len(texts)
      /\ t \in Nat
  BY DEF IInv, Reported
<1>5. /\ \A p \in 1..Len(ids) : ids[p].turn <= t
      /\ \A p \in 1..Len(ids) : ids[p].by # "none"
      /\ TokensOf(t) # {} /\ pending = Cardinality(TokensOf(t))
  BY <1>1 DEF IInv, AtWork, PcBefore
<1>6. pending \in Nat
  BY <1>5, TokensFinite DEF IInv
<1>7. /\ texts' \in Seq(TextType) /\ lengths' \in Seq(Nat) /\ blocks' \in Seq(Nat)
      /\ Len(texts') = t /\ Len(lengths') = t /\ Len(blocks') = t
  <2>1. [turn |-> t, blank |-> blank] \in TextType
    BY <1>4 DEF TextType
  <2>. QED
    BY <1>2, <1>3, <1>4, <1>6, <2>1
<1>8. \A k : TokensOf(k)' = TokensOf(k)
  BY <1>1 DEF TokensOf
<1>9. ASSUME NEW k \in 1..t
      PROVE  /\ texts'[k].turn = k /\ blocks'[k] \in {0, k}
             /\ TokensOf(k) # {} /\ lengths'[k] = Cardinality(TokensOf(k))
  <2>1. CASE k \in 1..Len(texts)
    <3>1. texts'[k] = texts[k] /\ blocks'[k] = blocks[k] /\ lengths'[k] = lengths[k]
      BY <1>2, <1>3, <1>4, <2>1
    <3>. QED
      BY <2>1, <3>1 DEF IInv, Reported
  <2>2. CASE k = t
    <3>1. texts'[k] = [turn |-> t, blank |-> blank] /\ blocks'[k] = 0
          /\ lengths'[k] = pending
      BY <1>2, <1>3, <1>4, <2>2
    <3>. QED
      BY <1>5, <2>2, <3>1
  <2>. QED
    BY <1>4, <2>1, <2>2
<1>10. Reported'
  BY <1>7, <1>8, <1>9 DEF Reported
<1>11. Aligned'
  BY <1>1 DEF IInv, Aligned
<1>12. InTurns'
  <2>1. 1..(Len(texts) + 1) \subseteq 1..(Len(texts') + 1)
    BY <1>4, <1>7
  <2>. QED
    BY <1>1, <2>1 DEF IInv, InTurns
<1>13. AtWork'
  <2>1. texts' # <<>>
    BY <1>4, <1>7
  <2>. QED
    BY <1>1, <1>5, <1>7, <2>1 DEF AtWork, PcBefore
<1>14. spent' \in BOOLEAN /\ verified' \in {"no", "passed", "failed"}
  BY <1>1 DEF IInv, Supervision
<1>. QED
  BY <1>1, <1>10, <1>11, <1>12, <1>13, <1>14, RolloutMoves

\* The tool responses are put to the last turn, which they answer.
LEMMA BridgeStep == ASSUME IInv, Bridge PROVE IInv'
<1>1. /\ pc = "bridge" /\ pc \in PcBefore
      /\ pc' \in {"verify", "feedback"} /\ pc' \in PcBefore
      /\ UNCHANGED <<mode, spent, ids, mask, logprobs, pending, texts, lengths,
                     verified, update>>
  BY DEF Bridge, PcBefore, tokens
<1>2. /\ texts \in Seq(TextType) /\ lengths \in Seq(Nat) /\ blocks \in Seq(Nat)
      /\ Len(texts) \in Nat /\ Len(texts) = Len(blocks) /\ Len(texts) = Len(lengths)
      /\ Len(texts) > 0
  <2>1. texts # <<>>
    BY <1>1 DEF IInv, AtWork
  <2>. QED
    BY <2>1 DEF IInv, Reported
<1>3. Last(texts).turn = Len(texts)
  BY <1>2 DEF IInv, Reported, Last
<1>4. \/ blocks' = blocks
      \/ blocks' = [blocks EXCEPT ![Len(blocks)] = Len(texts)]
  BY <1>3 DEF Bridge
<1>5. /\ blocks' \in Seq(Nat) /\ Len(blocks') = Len(texts)
      /\ \A k \in 1..Len(texts) : blocks'[k] \in {0, k}
  <2>1. \A k \in 1..Len(texts) : blocks[k] \in {0, k}
    BY DEF IInv, Reported
  <2>2. CASE blocks' = blocks
    BY <1>2, <2>1, <2>2
  <2>3. CASE blocks' = [blocks EXCEPT ![Len(blocks)] = Len(texts)]
    <3>. PICK m : m = Len(texts)
      OBVIOUS
    <3>1. m \in Nat /\ m \in 1..m /\ Len(blocks) = m /\ blocks \in Seq(Nat)
      BY <1>2
    <3>2. blocks' = [blocks EXCEPT ![m] = m]
      BY <2>3, <3>1
    <3>3. blocks' \in Seq(Nat) /\ Len(blocks') = m
      BY <3>1, <3>2
    <3>4. \A k \in 1..m : blocks'[k] = IF k = m THEN m ELSE blocks[k]
      BY <3>1, <3>2
    <3>. QED
      BY <2>1, <3>3, <3>4
  <2>. QED
    BY <1>4, <2>2, <2>3
<1>6. \A k : TokensOf(k)' = TokensOf(k)
  BY <1>1 DEF TokensOf
<1>7. Reported'
  <2>1. \A k \in 1..Len(texts) : /\ texts[k].turn = k /\ TokensOf(k) # {}
                                 /\ lengths[k] = Cardinality(TokensOf(k))
    BY DEF IInv, Reported
  <2>. QED
    BY <1>1, <1>2, <1>5, <1>6, <2>1 DEF Reported
<1>8. Aligned' /\ InTurns'
  <2>1. Aligned'
    BY <1>1 DEF IInv, Aligned
  <2>2. InTurns'
    BY <1>1 DEF IInv, InTurns
  <2>. QED
    BY <2>1, <2>2
<1>9. AtWork'
  BY <1>1 DEF IInv, AtWork, PcBefore
<1>10. spent' \in BOOLEAN /\ verified' \in {"no", "passed", "failed"}
  BY <1>1 DEF IInv, Supervision
<1>. QED
  BY <1>1, <1>7, <1>8, <1>9, <1>10, RolloutMoves

\* A tool message follows the turn it answers, unless no room is left.
LEMMA FeedbackStep == ASSUME IInv, Feedback PROVE IInv'
<1>. PICK n : n = Len(ids)
  OBVIOUS
<1>1. /\ pc = "feedback" /\ pc \in PcBefore
      /\ pc' = (IF Available <= 0 THEN "after" ELSE "loop") /\ pc' \in PcBefore
      /\ UNCHANGED <<mode, spent, pending, texts, lengths, blocks, verified, update>>
  BY DEF Feedback, PcBefore, verdict
<1>2. PICK count \in 1..MaxFeedback :
         IF Available > 0 THEN AppendResponseTokens(count, 0, FALSE)
         ELSE UNCHANGED tokens
  BY DEF Feedback
<1>3. spent' \in BOOLEAN /\ verified' \in {"no", "passed", "failed"}
  BY <1>1 DEF IInv, Supervision
<1>4. Len(mask) \in Nat /\ n \in Nat /\ ids \in Seq(TokenType)
  BY DEF IInv, Aligned
<1>5. /\ \A p \in 1..n : ids[p].turn <= Len(texts)
      /\ \A p \in 1..n : ids[p].by # "none"
      /\ texts # <<>>
  BY <1>1 DEF IInv, AtWork, PcBefore
<1>6. CASE Available <= 0
  <2>1. ~(Available > 0)
    BY <1>4, <1>6, SdpoNumbers DEF Available
  <2>2. UNCHANGED <<ids, mask, logprobs>>
    BY <1>2, <2>1 DEF tokens
  <2>3. Aligned' /\ InTurns' /\ Reported'
    BY <1>1, <2>2, ListsStay DEF IInv
  <2>4. AtWork'
    BY <1>1, <1>6, <2>2 DEF IInv, AtWork, PcBefore
  <2>. QED
    BY <1>1, <1>3, <2>3, <2>4, RolloutMoves
<1>7. CASE ~(Available <= 0)
  <2>. PICK token : token = [by |-> "tool", turn |-> Turn - 1]
    OBVIOUS
  <2>. PICK cut : cut = IF count <= Available THEN count ELSE Available
    OBVIOUS
  <2>1. /\ Aligned /\ InTurns /\ Reported
        /\ count \in Nat /\ count > 0 /\ 0 \in {0, count}
        /\ Len(mask) < ResponseLength /\ FALSE \in BOOLEAN
        /\ \A p \in 1..Len(ids) : ids[p].by # "none"
        /\ AppendResponseTokens(count, 0, FALSE)
    <3>1. Available > 0 /\ Len(mask) < ResponseLength
      BY <1>4, <1>7, SdpoNumbers DEF Available
    <3>2. count \in Nat /\ count > 0
      BY SdpoNumbers
    <3>3. \A p \in 1..Len(ids) : ids[p].by # "none"
      BY <1>5
    <3>. QED
      BY <1>2, <3>1, <3>2, <3>3 DEF IInv
  <2>2. /\ cut \in Nat /\ cut > 0 /\ token \in TokenType
        /\ Len(ids') = n + cut
        /\ \A p \in 1..n : ids'[p] = ids[p]
        /\ \A p \in (n + 1)..(n + cut) : ids'[p] = token
        /\ \A p \in 1..Len(ids') : ids'[p].by # "none"
        /\ Aligned'
    BY <1>5, <2>1, Appended
  <2>3. token.by = "tool" /\ token.turn = Len(texts) /\ Len(texts) \in Nat
    BY <2>1 DEF Turn, Reported
  <2>4. InTurns' /\ \A k : JoinsTurn(k, token, n, cut)
    <3>1. AddsAlike(token, n, cut)
      BY <2>2 DEF AddsAlike
    <3>2. Follows(token, n)
      BY <1>5, <2>3 DEF Follows
    <3>. QED
      BY <1>1, <2>1, <2>2, <3>1, <3>2, AppendedTurns
  <2>5. \A k : TokensOf(k)' = TokensOf(k)
    <3>1. \A k : token # [by |-> "model", turn |-> k]
      BY <2>3
    <3>. QED
      BY <2>4, <3>1 DEF JoinsTurn
  <2>6. Reported'
    BY <1>1, <2>1, <2>5 DEF Reported
  <2>7. ASSUME NEW p \in 1..Len(ids') PROVE ids'[p].turn <= Len(texts)
    <3>1. CASE p \in 1..n
      BY <1>5, <2>2, <3>1
    <3>2. CASE p \in (n + 1)..(n + cut)
      BY <2>2, <2>3, <3>2
    <3>. QED
      BY <1>4, <2>2, <3>1, <3>2
  <2>8. ids'[Len(ids')].by = "tool"
    <3>1. n + cut \in (n + 1)..(n + cut)
      BY <1>4, <2>2
    <3>. QED
      BY <2>2, <2>3, <3>1
  <2>9. pc' = "loop"
    BY <1>1, <1>7
  <2>10. AtWork'
    BY <1>1, <2>2, <2>7, <2>8, <2>9 DEF AtWork, PcBefore
  <2>. QED
    BY <1>1, <1>3, <2>2, <2>4, <2>6, <2>10, RolloutMoves
<1>. QED
  BY <1>6, <1>7

\* The token put in for a rollout without any is of no turn.
LEMMA FinishStep == ASSUME IInv, Finish PROVE IInv'
<1>1. /\ pc = "finish" /\ pc \in PcBefore /\ pc' = "rolled" /\ pc' \in PcBefore
      /\ UNCHANGED <<mode, spent, pending, texts, lengths, blocks, verified, update>>
  BY DEF Finish, PcBefore, reports, verdict
<1>2. spent' \in BOOLEAN /\ verified' \in {"no", "passed", "failed"}
  BY <1>1 DEF IInv, Supervision
<1>3. CASE mask = <<>>
  <2>1. /\ ids' = <<[by |-> "none", turn |-> 0]>> /\ mask' = <<0>> /\ logprobs' = <<0>>
    BY <1>3 DEF Finish, FallbackMask
  <2>2. ids = <<>>
    BY <1>3 DEF IInv, Aligned
  <2>3. texts = <<>>
    <3>1. \A k : TokensOf(k) = {}
      BY <2>2 DEF TokensOf
    <3>2. texts \in Seq(TextType) /\ \A k \in 1..Len(texts) : TokensOf(k) # {}
      BY DEF IInv, Reported
    <3>3. 1 \notin 1..Len(texts) /\ Len(texts) \in Nat
      BY <3>1, <3>2
    <3>. QED
      BY <3>2, <3>3
  <2>4. Aligned'
    <3>1. [by |-> "none", turn |-> 0] \in TokenType
      BY DEF TokenType
    <3>. QED
      BY <2>1, <3>1, SdpoNumbers DEF Aligned
  <2>5. InTurns'
    BY <1>1, <2>1, <2>3 DEF InTurns
  <2>6. Reported'
    <3>1. 1..Len(texts) = {}
      BY <2>3
    <3>2. /\ texts \in Seq(TextType) /\ lengths \in Seq(Nat) /\ blocks \in Seq(Nat)
          /\ Len(texts) = Len(lengths) /\ Len(texts) = Len(blocks)
      BY DEF IInv, Reported
    <3>. QED
      BY <1>1, <3>1, <3>2 DEF Reported
  <2>7. AtWork'
    BY <1>1 DEF AtWork, PcBefore
  <2>. QED
    BY <1>1, <1>2, <2>4, <2>5, <2>6, <2>7, RolloutMoves
<1>4. CASE mask # <<>>
  <2>1. UNCHANGED <<ids, mask, logprobs>>
    BY <1>4 DEF Finish, tokens
  <2>2. Aligned' /\ InTurns' /\ Reported'
    BY <1>1, <2>1, ListsStay DEF IInv
  <2>3. AtWork'
    BY <1>1 DEF AtWork, PcBefore
  <2>. QED
    BY <1>1, <1>2, <2>2, <2>3, RolloutMoves
<1>. QED
  BY <1>3, <1>4

-----------------------------------------------------------------------------
(* The update                                                              *)

\* A step of the update leaves the rollout and its supervision alone.
LEMMA UpdateMoves ==
  ASSUME IInv, pc' \in PcSupervised, targets' = Prompts(Rollout, mode),
         UNCHANGED <<mode, spent, tokens, pending, reports, verdict>>, Updating'
  PROVE  IInv'
<1>1. UNCHANGED <<mode, spent, ids, mask, logprobs, texts, lengths, blocks, verified>>
  BY DEF tokens, reports, verdict
<1>2. Aligned' /\ InTurns' /\ Reported'
  BY <1>1, ListsStay DEF IInv
<1>3. AtWork'
  BY DEF AtWork, PcBefore, PcSupervised
<1>4. Rollout' = Rollout
  BY <1>1 DEF Rollout
<1>5. Supervision'
  BY <1>1, <1>4 DEF IInv, Supervision, PcBefore, PcSupervised
<1>. QED
  BY <1>2, <1>3, <1>5 DEF IInv

\* The batch of the finished rollout.
LEMMA BuildBatchStep == ASSUME IInv, BuildBatch PROVE IInv'
<1>1. /\ pc = "rolled" /\ pc' = "built" /\ pc' \in PcSupervised
      /\ targets' = Prompts(Rollout, mode)
      /\ UNCHANGED <<mode, spent, tokens, pending, reports, verdict>>
      /\ UNCHANGED <<ranks, applied, teacher, raises>>
  BY DEF BuildBatch, PcSupervised
<1>2. Updating'
  BY <1>1 DEF IInv, Updating
<1>. QED
  BY <1>1, <1>2, UpdateMoves

\* While the update runs the batch stays.
LEMMA BatchStays ==
  ASSUME IInv, pc \in PcSupervised, UNCHANGED batch
  PROVE  targets' = Prompts(Rollout, mode) /\ Path' = Path
<1>1. UNCHANGED <<targets, others>>
  BY DEF batch
<1>2. TurnPairs' = TurnPairs
  BY <1>1 DEF TurnPairs
<1>. QED
  BY <1>1, <1>2 DEF IInv, Supervision, Path

\* All ranks begin alike.
LEMMA BeginUpdateStep == ASSUME IInv, BeginUpdate PROVE IInv'
<1>1. /\ pc = "built" /\ pc \in PcSupervised /\ pc' = "update" /\ pc' \in PcSupervised
      /\ ranks' = [r \in Ranks |-> [path |-> Path, step |-> 1, op |-> 1]]
      /\ UNCHANGED <<mode, spent, tokens, pending, reports, verdict>>
      /\ UNCHANGED <<batch, applied, teacher, raises>>
  BY DEF BeginUpdate, PcSupervised
<1>2. targets' = Prompts(Rollout, mode) /\ Path' = Path
  BY <1>1, BatchStays
<1>3. Path \in {"turn", "row"}
  BY DEF Path
<1>. HIDE DEF Path
<1>4. applied = <<>> /\ raises = {} /\ teacher \in {0, 1} /\ teacher # 1
  BY <1>1 DEF IInv, Updating
<1>5. \A r \in Ranks : ranks'[r] = [path |-> Path, step |-> 1, op |-> 1]
  BY <1>1
<1>6. InUpdate'
  BY <1>1, <1>2, <1>3, <1>4, <1>5, RankOne DEF InUpdate, Together
<1>7. ranks' \in [Ranks -> [path : {"none", "turn", "row"}, step : 1..(Steps + 1), op : Nat]]
  BY <1>1, <1>3, SdpoNumbers
<1>8. Updating'
  BY <1>1, <1>4, <1>6, <1>7 DEF Updating
<1>. QED
  BY <1>1, <1>2, <1>8, UpdateMoves

\* Ranks that have raised and ranks that have not are never in one operation.
LEMMA InStepMeansAlike ==
  ASSUME Updating, InUpdate, InStep
  PROVE  raises = {} \/ raises = Ranks
<1>1. SUFFICES ASSUME raises # {}, raises # Ranks PROVE FALSE
  OBVIOUS
<1>2. PICK r \in raises : TRUE
  BY <1>1
<1>3. PICK q \in Ranks : q \notin raises
  BY <1>1 DEF Updating
<1>4. r \in Ranks /\ ranks[r] = ranks[q]
  BY <1>2, <1>3 DEF Updating, InStep
<1>5. ranks[r].path = "row" /\ ranks[q].path = Path /\ Path = "turn"
  BY <1>1, <1>2, <1>3, <1>4 DEF InUpdate
<1>. QED
  BY <1>4, <1>5

\* Ranks at the same place take part in the same operation.
LEMMA TogetherInStep == ASSUME Together PROVE InStep
BY DEF Together, InStep, Ops, Forwards

\* The steps taken with the update of the library, after one more step.
LEMMA RowStepsGrow ==
  ASSUME NEW path \in {"turn", "row"}, applied \in Seq({"turn", "row"}),
         applied' = Append(applied, path)
  PROVE  /\ Cardinality(RowSteps) \in Nat
         /\ path = "row" => Cardinality(RowSteps)' = Cardinality(RowSteps) + 1
<1>. PICK n : n = Len(applied)
  OBVIOUS
<1>1. n \in Nat
  OBVIOUS
<1>2. RowSteps \in SUBSET (1..n) /\ IsFiniteSet(1..n)
  BY <1>1, FS_Interval DEF RowSteps
<1>3. IsFiniteSet(RowSteps)
  BY <1>2, FS_Subset, Zenon
<1>4. n + 1 \notin RowSteps
  BY <1>1 DEF RowSteps
<1>5. ASSUME path = "row" PROVE RowSteps' = RowSteps \cup {n + 1}
  <2>1. Len(applied') = n + 1 /\ applied'[n + 1] = "row"
        /\ \A i \in 1..n : applied'[i] = applied[i]
    BY <1>5
  <2>2. RowSteps' = {i \in 1..(n + 1) : applied'[i] = "row"}
    BY <2>1 DEF RowSteps
  <2>3. RowSteps = {i \in 1..n : applied[i] = "row"}
    BY DEF RowSteps
  <2>4. \A i \in 1..(n + 1) : i \in 1..n \/ i = n + 1
    BY <1>1
  <2>5. 1..n \subseteq 1..(n + 1) /\ n + 1 \in 1..(n + 1)
    BY <1>1
  <2>. QED
    BY <2>1, <2>2, <2>3, <2>4, <2>5
<1>6. Cardinality(RowSteps \cup {n + 1}) = Cardinality(RowSteps) + 1
  BY <1>3, <1>4, FS_AddElement
<1>. QED
  BY <1>3, <1>5, <1>6, FS_CardinalityType

\* All ranks take the operation, and the last one of a step takes the step.
LEMMA OperateStep == ASSUME IInv, Operate PROVE IInv'
<1>. DEFINE Ranking == [path : {"none", "turn", "row"}, step : 1..(Steps + 1), op : Nat]
            lead    == ranks[1]
<1>1. /\ pc = "update" /\ pc \in PcSupervised /\ pc' = "update" /\ pc' \in PcSupervised
      /\ UNCHANGED <<mode, spent, tokens, pending, reports, verdict>>
      /\ UNCHANGED <<batch, teacher, raises>>
      /\ InStep /\ lead.step <= Steps
  BY DEF Operate, PcSupervised
<1>2. targets' = Prompts(Rollout, mode) /\ Path' = Path
  BY <1>1, BatchStays
<1>3. /\ InUpdate /\ raises \in SUBSET Ranks /\ ranks \in [Ranks -> Ranking]
      /\ applied \in Seq({"turn", "row"}) /\ teacher \in {0, 1} /\ teacher # 1
  BY <1>1 DEF IInv, Updating
<1>4. raises = {} \/ raises = Ranks
  BY <1>1, <1>3, InStepMeansAlike DEF IInv
<1>5. Together /\ \A r \in Ranks : ranks[r] = lead
  BY <1>3, <1>4 DEF InUpdate, Together
<1>6. lead \in Ranking /\ lead.step \in 1..Steps /\ lead.op \in Nat
  BY <1>1, <1>3, RankOne, SdpoNumbers
<1>7. lead.path = IF raises = Ranks THEN "row" ELSE Path
  BY <1>3, <1>4, RankOne DEF InUpdate
<1>8. lead.path \in {"turn", "row"}
  BY <1>7 DEF Path
<1>9. CASE lead.op = Ops(1)
  <2>. DEFINE next == [lead EXCEPT !.step = @ + 1, !.op = 1]
  <2>1. /\ applied' = Append(applied, lead.path)
        /\ ranks' = [r \in Ranks |-> [ranks[r] EXCEPT !.step = @ + 1, !.op = 1]]
    BY <1>9 DEF Operate
  <2>2. ranks' = [r \in Ranks |-> next]
    BY <1>5, <2>1
  <2>3. next \in Ranking /\ next.path = lead.path /\ next.step = lead.step + 1
    <3>. DEFINE stepped == [lead EXCEPT !.step = @ + 1]
    <3>1. lead.step + 1 \in 1..(Steps + 1)
      <4>. HIDE DEF lead
      <4>. QED
        BY <1>6, SdpoNumbers
    <3>2. stepped \in Ranking /\ stepped.path = lead.path /\ stepped.step = lead.step + 1
      BY <1>6, <3>1
    <3>3. next = [stepped EXCEPT !.op = 1]
      OBVIOUS
    <3>. HIDE DEF stepped, next
    <3>4. next \in Ranking /\ next.path = stepped.path /\ next.step = stepped.step
      BY <3>2, <3>3
    <3>. QED
      BY <3>2, <3>4
  <2>. HIDE DEF next
  <2>4. ranks' \in [Ranks -> Ranking] /\ \A r \in Ranks : ranks'[r] = next
    BY <2>2, <2>3
  <2>5. Together'
    BY <2>4, RankOne DEF Together
  <2>. HIDE DEF lead, Ranking
  <2>6. /\ applied' \in Seq({"turn", "row"}) /\ Len(applied') = Len(applied) + 1
        /\ applied'[Len(applied) + 1] = lead.path
        /\ \A i \in 1..Len(applied) : applied'[i] = applied[i]
        /\ Len(applied) \in Nat
    <3>1. /\ applied \in Seq({"turn", "row"}) /\ lead.path \in {"turn", "row"}
          /\ applied' = Append(applied, lead.path)
      BY <1>3, <1>8, <2>1
    <3>. QED
      BY <3>1
  <2>7. \A r \in Ranks : ranks'[r].path = IF r \in raises THEN "row" ELSE Path
    BY <1>4, <1>7, <2>3, <2>4
  <2>8. ASSUME raises = {}
        PROVE  /\ Len(applied') = ranks'[1].step - 1
               /\ \A i \in 1..Len(applied') : applied'[i] = Path
    <3>1. Len(applied) = lead.step - 1 /\ \A i \in 1..Len(applied) : applied[i] = Path
      BY <1>3, <2>8 DEF InUpdate, lead
    <3>2. lead.path = Path
      BY <1>7, <2>8, RankOne
    <3>3. ranks'[1].step = lead.step + 1 /\ lead.step \in Nat
      BY <1>6, <2>3, <2>4, RankOne
    <3>4. ASSUME NEW i \in 1..Len(applied') PROVE applied'[i] = Path
      <4>1. i \in 1..Len(applied) \/ i = Len(applied) + 1
        BY <2>6
      <4>. QED
        BY <2>6, <3>1, <3>2, <4>1
    <3>. QED
      BY <2>6, <3>1, <3>3, <3>4
  <2>9. ASSUME raises = Ranks PROVE Cardinality(RowSteps)' = ranks'[1].step - 1
    <3>1. Cardinality(RowSteps) = lead.step - 1
      BY <1>3, <2>9 DEF InUpdate, lead
    <3>2. lead.path = "row"
      BY <1>7, <2>9
    <3>3. Cardinality(RowSteps)' = Cardinality(RowSteps) + 1
      BY <1>3, <1>8, <2>1, <3>2, RowStepsGrow
    <3>4. ranks'[1].step = lead.step + 1 /\ lead.step \in Nat
      BY <1>6, <2>3, <2>4, RankOne
    <3>. QED
      BY <3>1, <3>3, <3>4
  <2>10. InUpdate'
    <3>1. raises # {} => Path = "turn"
      BY <1>3 DEF InUpdate
    <3>. QED
      BY <1>1, <1>2, <1>4, <2>5, <2>7, <2>8, <2>9, <3>1 DEF InUpdate
  <2>11. Updating'
    BY <1>1, <1>3, <2>4, <2>6, <2>10 DEF Updating, Ranking
  <2>. QED
    BY <1>1, <1>2, <2>11, UpdateMoves
<1>10. CASE lead.op # Ops(1)
  <2>. DEFINE next == [lead EXCEPT !.op = @ + 1]
  <2>1. /\ UNCHANGED applied
        /\ ranks' = [r \in Ranks |-> [ranks[r] EXCEPT !.op = @ + 1]]
    BY <1>10 DEF Operate
  <2>2. ranks' = [r \in Ranks |-> next]
    BY <1>5, <2>1
  <2>3. next \in Ranking /\ next.path = lead.path /\ next.step = lead.step
    BY <1>6
  <2>. HIDE DEF next
  <2>4. ranks' \in [Ranks -> Ranking] /\ \A r \in Ranks : ranks'[r] = next
    BY <2>2, <2>3
  <2>5. Together'
    BY <2>4, RankOne DEF Together
  <2>6. ranks'[1].step = lead.step
    BY <2>3, <2>4, RankOne
  <2>7. \A r \in Ranks : ranks'[r].path = IF r \in raises THEN "row" ELSE Path
    BY <1>4, <1>7, <2>3, <2>4
  <2>8. RowSteps' = RowSteps
    BY <2>1 DEF RowSteps
  <2>9. InUpdate'
    BY <1>1, <1>2, <1>3, <1>4, <2>1, <2>5, <2>6, <2>7, <2>8 DEF InUpdate
  <2>. HIDE DEF lead, Ranking
  <2>10. Updating'
    BY <1>1, <1>3, <2>1, <2>4, <2>9 DEF Updating, Ranking
  <2>. QED
    BY <1>1, <1>2, <2>10, UpdateMoves
<1>. QED
  BY <1>9, <1>10

\* The update ends for all ranks at once, and the teacher follows once.
LEMMA EndUpdateStep == ASSUME IInv, EndUpdate PROVE IInv'
<1>1. /\ pc = "update" /\ pc \in PcSupervised /\ pc' = "updated" /\ pc' \in PcSupervised
      /\ UNCHANGED <<mode, spent, tokens, pending, reports, verdict>>
      /\ UNCHANGED <<batch, ranks, applied, raises>>
      /\ InStep /\ ranks[1].step > Steps
      /\ teacher' = IF moved THEN teacher + 1 ELSE teacher
  BY DEF EndUpdate, PcSupervised
<1>2. targets' = Prompts(Rollout, mode) /\ Path' = Path
  BY <1>1, BatchStays
<1>3. InUpdate /\ teacher = 0 /\ ranks[1].step \in 1..(Steps + 1)
  BY <1>1, RankOne DEF IInv, Updating
<1>4. raises = {} \/ raises = Ranks
  BY <1>1, <1>3, InStepMeansAlike DEF IInv
<1>5. ranks[1].step = Steps + 1
  BY <1>1, <1>3, SdpoNumbers
<1>6. InUpdate'
  <2>1. Together' <=> Together
    BY <1>1 DEF Together
  <2>2. RowSteps' = RowSteps
    BY <1>1 DEF RowSteps
  <2>. QED
    BY <1>1, <1>2, <1>3, <2>1, <2>2 DEF InUpdate
<1>7. teacher' \in {0, 1}
  BY <1>1, <1>3
<1>8. Updating'
  BY <1>1, <1>4, <1>5, <1>6, <1>7 DEF IInv, Updating
<1>. QED
  BY <1>1, <1>2, <1>8, UpdateMoves

\* A rank that raises begins again while no step of the library's update is
\* taken; the last one to raise finds all others waiting for it.
LEMMA RaiseStep == ASSUME IInv, NEW r \in Ranks, Raise(r) PROVE IInv'
<1>. DEFINE again == [path |-> "row", step |-> 1, op |-> 1]
<1>1. /\ pc = "update" /\ pc \in PcSupervised /\ r \notin raises
      /\ raises' = raises \cup {r}
      /\ UNCHANGED <<mode, spent, tokens, pending, reports, verdict>>
      /\ UNCHANGED <<batch, applied, teacher>>
  BY DEF Raise, PcSupervised
<1>2. targets' = Prompts(Rollout, mode) /\ Path' = Path
  BY <1>1, BatchStays
<1>3. /\ InUpdate /\ raises \in SUBSET Ranks
      /\ ranks \in [Ranks -> [path : {"none", "turn", "row"}, step : 1..(Steps + 1),
                              op : Nat]]
      /\ applied \in Seq({"turn", "row"}) /\ teacher \in {0, 1} /\ teacher # 1
  BY <1>1 DEF IInv, Updating
<1>4. raises' # {} /\ raises' \in SUBSET Ranks /\ raises # Ranks
  BY <1>1, <1>3
<1>5. CASE ranks[r].path = "turn"
  <2>1. ranks' = [ranks EXCEPT ![r] = again] /\ UNCHANGED pc
    BY <1>5 DEF Raise
  <2>2. Path = "turn"
    BY <1>1, <1>3, <1>5 DEF InUpdate
  <2>3. \A i \in 1..Len(applied) : applied[i] = "turn"
    BY <1>3, <1>4, <2>2 DEF InUpdate
  <2>4. again \in [path : {"none", "turn", "row"}, step : 1..(Steps + 1), op : Nat]
    BY SdpoNumbers
  <2>5. /\ ranks' \in [Ranks -> [path : {"none", "turn", "row"}, step : 1..(Steps + 1),
                                 op : Nat]]
        /\ ranks'[r] = again
        /\ \A q \in Ranks : q # r => ranks'[q] = ranks[q]
    BY <1>3, <2>1, <2>4
  <2>6. \A q \in raises' : ranks'[q] = again
    <3>1. ASSUME NEW q \in raises PROVE ranks[q] = again
      <4>1. /\ ranks[q].path = "row" /\ ranks[q].step = 1 /\ ranks[q].op = 1
            /\ q \in Ranks
        BY <1>3, <1>4, <3>1 DEF InUpdate
      <4>2. ranks[q] \in [path : {"none", "turn", "row"}, step : 1..(Steps + 1), op : Nat]
        BY <1>3, <4>1
      <4>3. ranks[q] = [path |-> ranks[q].path, step |-> ranks[q].step,
                        op |-> ranks[q].op]
        BY <4>2
      <4>. QED
        BY <4>1, <4>3
    <3>. QED
      BY <1>1, <1>3, <2>5, <3>1
  <2>. HIDE DEF again
  <2>7. again.path = "row" /\ again.step = 1 /\ again.op = 1
    BY DEF again
  <2>8. \A q \in Ranks : ranks'[q].path = IF q \in raises' THEN "row" ELSE Path
    BY <1>1, <1>3, <2>5, <2>6, <2>7 DEF InUpdate
  <2>9. RowSteps' = {} /\ Cardinality({}) = 0
    BY <1>1, <2>3, FS_EmptySet DEF RowSteps
  <2>10. ASSUME raises' = Ranks
         PROVE  Together' /\ Cardinality(RowSteps)' = ranks'[1].step - 1
    BY <2>6, <2>7, <2>9, <2>10, RankOne DEF Together
  <2>11. InUpdate'
    BY <1>1, <1>2, <1>4, <2>2, <2>3, <2>6, <2>7, <2>8, <2>10 DEF InUpdate
  <2>12. Updating'
    BY <1>1, <1>3, <1>4, <2>1, <2>5, <2>11 DEF Updating
  <2>. QED
    BY <1>1, <1>2, <2>1, <2>12, UpdateMoves
<1>6. CASE ranks[r].path # "turn"
  <2>1. pc' = "died" /\ pc' \in PcSupervised /\ UNCHANGED ranks
    BY <1>6 DEF Raise, PcSupervised
  <2>2. Updating'
    BY <1>1, <1>3, <1>4, <2>1 DEF Updating
  <2>. QED
    BY <1>1, <1>2, <2>1, <2>2, UpdateMoves
<1>. QED
  BY <1>5, <1>6

\* Ranks are out of step only after one of them has raised.
LEMMA TimeoutStep == ASSUME IInv, CollectiveTimesOut PROVE IInv'
<1>1. /\ pc = "update" /\ pc \in PcSupervised /\ pc' = "died" /\ pc' \in PcSupervised
      /\ UNCHANGED <<mode, spent, tokens, pending, reports, verdict, update>>
      /\ ~InStep
  BY DEF CollectiveTimesOut, PcSupervised
<1>2. UNCHANGED <<batch, ranks, applied, teacher, raises>>
  BY <1>1 DEF update
<1>3. targets' = Prompts(Rollout, mode)
  BY <1>1, <1>2, BatchStays
<1>4. raises # {}
  BY <1>1, TogetherInStep DEF IInv, Updating, InUpdate
<1>5. Updating'
  BY <1>1, <1>2, <1>4 DEF IInv, Updating
<1>. QED
  BY <1>1, <1>3, <1>5, UpdateMoves

\* Nothing changes what the invariant says in a step without change.
LEMMA SdpoStutters == ASSUME IInv, UNCHANGED vars PROVE IInv'
<1>1. UNCHANGED <<mode, pc, spent, ids, mask, logprobs, pending, texts, lengths, blocks,
                  verified, targets, others, ranks, applied, teacher, raises>>
  BY DEF vars, tokens, reports, verdict, update, batch
<1>2. Aligned' /\ InTurns' /\ Reported'
  BY <1>1, ListsStay DEF IInv
<1>3. AtWork'
  BY <1>1 DEF IInv, AtWork, TokensOf
<1>4. Rollout' = Rollout /\ TurnPairs' = TurnPairs
  BY <1>1 DEF Rollout, TurnPairs
<1>5. Supervision'
  BY <1>1, <1>4 DEF IInv, Supervision
<1>6. InUpdate' <=> InUpdate
  <2>1. Path' = Path /\ RowSteps' = RowSteps /\ (Together' <=> Together)
    BY <1>1, <1>4 DEF Path, RowSteps, Together
  <2>. QED
    BY <1>1, <2>1 DEF InUpdate
<1>7. Updating'
  BY <1>1, <1>6 DEF IInv, Updating
<1>. QED
  BY <1>2, <1>3, <1>5, <1>7 DEF IInv

\* The strengthened invariant of a sample and its update.
THEOREM SdpoInvariant == Spec => []IInv
<1>1. ASSUME IInv, [Next]_vars PROVE IInv'
  <2>1. CASE RolloutStep \/ TimePasses
    BY <1>1, <2>1, PlainSteps, GenerateStep, DecodeStep, BridgeStep, FeedbackStep,
       FinishStep DEF RolloutStep
  <2>2. CASE UpdateStep
    BY <1>1, <2>2, BuildBatchStep, BeginUpdateStep, OperateStep, EndUpdateStep,
       TimeoutStep DEF UpdateStep
  <2>3. CASE \E r \in Ranks : Raise(r)
    BY <1>1, <2>3, RaiseStep
  <2>4. CASE UNCHANGED vars
    BY <1>1, <2>4, SdpoStutters
  <2>. QED
    BY <1>1, <2>1, <2>2, <2>3, <2>4 DEF Next
<1>. QED
  BY <1>1, SdpoInit, PTL DEF Spec

-----------------------------------------------------------------------------
(* What follows                                                            *)

\* The lists grow together, each turn reports its own tokens and a token is
\* marked by who wrote it: agent loops add to all three lists, and to the reports
\* only once a turn is decoded.
THEOREM SdpoTypeCorrect == Spec => []TypeOK
<1>1. ASSUME IInv PROVE TypeOK
  <2>1. /\ Len(ids) = Len(mask) /\ Len(logprobs) = Len(mask) /\ Len(mask) <= ResponseLength
        /\ DOMAIN mask = 1..Len(ids)
        /\ \A p \in 1..Len(ids) : /\ mask[p] = IF ids[p].by = "model" THEN 1 ELSE 0
                                  /\ logprobs[p] \in {0, ids[p].turn}
    BY <1>1 DEF IInv, Aligned
  <2>2. /\ Len(texts) = Len(lengths) /\ Len(texts) = Len(blocks)
        /\ DOMAIN lengths = 1..Len(texts)
        /\ \A k \in 1..Len(texts) : lengths[k] = Cardinality(TokensOf(k))
    <3>1. Reported
      BY <1>1 DEF IInv
    <3>2. lengths \in Seq(Nat) /\ Len(texts) = Len(lengths) /\ Len(texts) = Len(blocks)
      BY <3>1 DEF Reported
    <3>3. \A k \in 1..Len(texts) : lengths[k] = Cardinality(TokensOf(k))
      BY <3>1 DEF Reported
    <3>4. DOMAIN lengths = 1..Len(lengths)
      BY <3>2, ListDomain, Zenon
    <3>. QED
      BY <3>2, <3>3, <3>4
  <2>3. \A r \in Ranks : ranks[r].step \in 1..(Steps + 1)
    BY <1>1 DEF IInv, Updating
  <2>4. /\ pc \in PcBefore \cup PcSupervised
        /\ spent \in BOOLEAN /\ verified \in {"no", "passed", "failed"}
    BY <1>1 DEF IInv, Supervision
  <2>. QED
    BY <2>1, <2>2, <2>3, <2>4 DEF TypeOK, TokensOf, PcBefore, PcSupervised
<1>. QED
  BY <1>1, SdpoInvariant, PTL

\* A rank that raises, in any number and at any operation, leaves an update that is
\* whole, or one that died: the steps that count are those of one path, all of
\* them, and the teacher follows once, at the end.
THEOREM UpdatesAreWhole == Spec => []UpdateIsWhole
<1>1. ASSUME IInv PROVE UpdateIsWhole
  <2>1. /\ pc = "died" => raises # {}
        /\ teacher > 0 => pc = "updated" /\ teacher = 1
    BY <1>1 DEF IInv, Updating
  <2>2. ASSUME pc = "updated"
        PROVE  LET counted == {i \in DOMAIN applied : applied[i] = ranks[1].path}
               IN  /\ Cardinality(counted) = Steps
                   /\ raises = {} => counted = DOMAIN applied /\ ranks[1].path = Path
                   /\ raises # {} => ranks[1].path = "row"
    <3>. DEFINE counted == {i \in DOMAIN applied : applied[i] = ranks[1].path}
    <3>1. /\ InUpdate /\ raises \in {{}, Ranks} /\ ranks[1].step = Steps + 1
          /\ applied \in Seq({"turn", "row"})
      BY <1>1, <2>2 DEF IInv, Updating
    <3>2. DOMAIN applied = 1..Len(applied) /\ Len(applied) \in Nat
      BY <3>1
    <3>3. CASE raises = {}
      <4>1. ranks[1].path = Path /\ Len(applied) = Steps
            /\ \A i \in 1..Len(applied) : applied[i] = Path
        BY <3>1, <3>3, RankOne, SdpoNumbers DEF InUpdate
      <4>2. counted = 1..Len(applied)
        BY <3>2, <4>1
      <4>3. Cardinality(1..Steps) = Steps
        BY SdpoNumbers, FS_Interval
      <4>. QED
        BY <3>2, <3>3, <4>1, <4>2, <4>3
    <3>4. CASE raises = Ranks
      <4>1. ranks[1].path = "row" /\ Cardinality(RowSteps) = Steps
        BY <3>1, <3>4, RankOne, SdpoNumbers DEF InUpdate
      <4>2. counted = RowSteps
        BY <3>2, <4>1 DEF RowSteps
      <4>. QED
        BY <3>4, <4>1, <4>2, RankOne
    <3>. QED
      BY <3>1, <3>3, <3>4
  <2>. QED
    BY <2>1, <2>2 DEF UpdateIsWhole
<1>. QED
  BY <1>1, SdpoInvariant, PTL

\* The generated tokens are those of the model, each in a turn of its own.
LEMMA ModelTokens ==
  ASSUME Aligned, InTurns
  PROVE  /\ Generated(mask) = {p \in 1..Len(ids) : ids[p].by = "model"}
         /\ Generated(mask) \in SUBSET Nat /\ IsFiniteSet(Generated(mask))
         /\ \A p \in Generated(mask) : /\ ids[p].turn \in 1..(Len(texts) + 1)
                                       /\ p \in TokensOf(ids[p].turn)
         /\ \A k : \A p \in TokensOf(k) : p \in Generated(mask) /\ ids[p].turn = k
<1>. PICK n : n = Len(ids)
  OBVIOUS
<1>1. /\ n \in Nat /\ DOMAIN mask = 1..n /\ DOMAIN ids = 1..n
      /\ \A p \in 1..n : ids[p] \in TokenType
      /\ \A p \in 1..n : mask[p] = IF ids[p].by = "model" THEN 1 ELSE 0
  BY DEF Aligned
<1>2. Generated(mask) = {p \in 1..n : ids[p].by = "model"}
  BY <1>1 DEF Generated
<1>3. Generated(mask) \in SUBSET (1..n) /\ IsFiniteSet(1..n)
  BY <1>1, <1>2, FS_Interval
<1>4. IsFiniteSet(Generated(mask))
  BY <1>3, FS_Subset, Zenon
<1>5. ASSUME NEW p \in Generated(mask)
      PROVE  ids[p].turn \in 1..(Len(texts) + 1) /\ p \in TokensOf(ids[p].turn)
  <2>1. p \in 1..n /\ ids[p].by = "model" /\ ids[p] \in TokenType
    BY <1>1, <1>2, <1>5
  <2>2. ids[p] = [by |-> ids[p].by, turn |-> ids[p].turn]
    BY <2>1 DEF TokenType
  <2>. QED
    BY <1>1, <2>1, <2>2 DEF InTurns, TokensOf
<1>6. ASSUME NEW k, NEW p \in TokensOf(k) PROVE p \in Generated(mask) /\ ids[p].turn = k
  BY <1>1, <1>2, <1>6 DEF TokensOf
<1>. QED
  BY <1>1, <1>2, <1>3, <1>4, <1>5, <1>6

\* What a prompt supervises are generated tokens.
LEMMA TargetsAreGenerated ==
  ASSUME NEW rollout, NEW supervised, NEW k \in DOMAIN Prompts(rollout, supervised)
  PROVE  Prompts(rollout, supervised)[k].target \in SUBSET Generated(rollout.mask)
<1>1. Prompts(rollout, supervised)[k].target = Span(rollout, TargetTurn(supervised, k))
  BY DEF Prompts
<1>2. Span(rollout, TargetTurn(supervised, k)) \in SUBSET Generated(rollout.mask)
  BY DEF Span, SpanByLength, Run
<1>. QED
  BY <1>1, <1>2

\* No step trains a token that the model did not write, whatever the lengths of the
\* turns, of the tool messages and of the budget: the mask says who wrote a
\* token, and a span takes only what the mask marks.
THEOREM LossStaysOnModelTokens == Spec => []LossIsOnModelTokens
<1>1. ASSUME IInv PROVE LossIsOnModelTokens
  <2>1. SUFFICES ASSUME NEW i \in DOMAIN applied, NEW p \in Trained(applied[i])
                 PROVE  ids[p].by = "model"
    BY DEF LossIsOnModelTokens
  <2>2. Trained(applied[i]) \in SUBSET Generated(mask)
    <3>1. CASE pc \in PcBefore
      <4>1. targets = <<>>
        BY <1>1, <3>1 DEF IInv, Supervision
      <4>. QED
        BY <4>1 DEF Trained
    <3>2. CASE pc \in PcSupervised
      <4>1. targets = Prompts(Rollout, mode) /\ Rollout.mask = mask
        BY <1>1, <3>2 DEF IInv, Supervision, Rollout
      <4>2. \A k \in DOMAIN targets : targets[k].target \in SUBSET Generated(mask)
        BY <4>1, TargetsAreGenerated
      <4>. QED
        BY <4>2 DEF Trained
    <3>. QED
      BY <1>1, <3>1, <3>2 DEF IInv, Supervision
  <2>3. p \in Generated(mask)
    BY <2>1, <2>2
  <2>. QED
    BY <1>1, <2>3, ModelTokens DEF IInv
<1>. QED
  BY <1>1, SdpoInvariant, PTL

-----------------------------------------------------------------------------
(* Spans                                                                   *)

\* The generated tokens of the first k turns.
UpTo(k) == {p \in Generated(mask) : ids[p].turn <= k}

\* Generated tokens stand in the order of their turns.
LEMMA TurnOrder ==
  ASSUME Aligned, InTurns, NEW p \in Generated(mask), NEW q \in Generated(mask)
  PROVE  /\ ids[p].turn \in Nat /\ ids[q].turn \in Nat
         /\ p <= q => ids[p].turn <= ids[q].turn
         /\ ids[p].turn < ids[q].turn => p < q
<1>1. p \in 1..Len(ids) /\ q \in 1..Len(ids) /\ Len(ids) \in Nat
  BY ModelTokens DEF Aligned
<1>2. ids[p].turn \in Nat /\ ids[q].turn \in Nat
  BY ModelTokens DEF InTurns
<1>3. p < q => ids[p].turn <= ids[q].turn
  BY <1>1, <1>2 DEF InTurns
<1>4. q < p => ids[q].turn <= ids[p].turn
  BY <1>1, <1>2 DEF InTurns
<1>. QED
  BY <1>1, <1>2, <1>3, <1>4

\* The tokens between two of a turn are the turn's too.
LEMMA TurnsContiguous ==
  ASSUME Aligned, InTurns, NEW k, NEW p \in TokensOf(k), NEW q \in TokensOf(k),
         NEW x \in p..q
  PROVE  x \in TokensOf(k)
<1>. PICK n : n = Len(ids)
  OBVIOUS
<1>1. /\ n \in Nat /\ DOMAIN ids = 1..n /\ \A y \in 1..n : ids[y] \in TokenType
  BY DEF Aligned
<1>2. /\ p \in 1..n /\ q \in 1..n /\ k \in Nat
      /\ ids[p] = [by |-> "model", turn |-> k] /\ ids[q] = [by |-> "model", turn |-> k]
  <2>1. /\ p \in 1..n /\ q \in 1..n
        /\ ids[p] = [by |-> "model", turn |-> k] /\ ids[q] = [by |-> "model", turn |-> k]
    BY <1>1 DEF TokensOf
  <2>2. ids[p].turn \in Nat /\ ids[p].turn = k
    BY <1>1, <2>1 DEF TokenType
  <2>. QED
    BY <2>1, <2>2
<1>3. x \in 1..n /\ p <= x /\ x <= q
  BY <1>1, <1>2
<1>4. CASE x = p \/ x = q
  BY <1>4
<1>5. CASE p < x /\ x < q
  <2>1. ids[x].turn \in Nat /\ ids[x].by \in {"model", "tool", "none"}
        /\ ids[x] = [by |-> ids[x].by, turn |-> ids[x].turn]
    BY <1>1, <1>3 DEF TokenType
  <2>2. ids[p].turn <= ids[x].turn /\ ids[x].turn <= ids[q].turn
    BY <1>1, <1>2, <1>3, <1>5, <2>1 DEF InTurns
  <2>3. ids[x].turn = k
    BY <1>2, <2>1, <2>2
  <2>4. ids[x].by # "tool"
    BY <1>1, <1>2, <1>3, <1>5, <2>3 DEF InTurns
  <2>5. ids[x].by # "none"
    <3>1. n # 1
      BY <1>2, <1>3, <1>5
    <3>. QED
      BY <1>3, <3>1 DEF Aligned
  <2>. QED
    BY <1>1, <1>3, <2>1, <2>3, <2>4, <2>5 DEF TokensOf
<1>. QED
  BY <1>2, <1>3, <1>4, <1>5

\* One turn more has its tokens more.
LEMMA UpToGrows ==
  ASSUME Aligned, InTurns, NEW k \in Nat
  PROVE  /\ Cardinality(UpTo(k)) \in Nat
         /\ Cardinality(UpTo(k + 1)) = Cardinality(UpTo(k)) + Cardinality(TokensOf(k + 1))
<1>. PICK j : j = k + 1
  OBVIOUS
<1>1. \A p \in Generated(mask) : ids[p].turn \in Nat
  BY ModelTokens
<1>2. IsFiniteSet(Generated(mask))
  BY ModelTokens
<1>3. UpTo(k) \in SUBSET Generated(mask) /\ TokensOf(j) \in SUBSET Generated(mask)
  BY ModelTokens DEF UpTo
<1>4. IsFiniteSet(UpTo(k)) /\ IsFiniteSet(TokensOf(j))
  BY <1>2, <1>3, FS_Subset, Zenon
<1>5. UpTo(j) = UpTo(k) \cup TokensOf(j)
  <2>1. ASSUME NEW p \in UpTo(j) PROVE p \in UpTo(k) \cup TokensOf(j)
    <3>1. p \in Generated(mask) /\ (ids[p].turn <= k \/ ids[p].turn = j)
      BY <1>1, <2>1 DEF UpTo
    <3>. QED
      BY <3>1, ModelTokens DEF UpTo
  <2>2. ASSUME NEW p \in UpTo(k) PROVE p \in UpTo(j)
    BY <1>1, <2>2 DEF UpTo
  <2>3. ASSUME NEW p \in TokensOf(j) PROVE p \in UpTo(j)
    <3>1. p \in Generated(mask) /\ ids[p].turn = j
      BY <2>3, ModelTokens
    <3>. QED
      BY <3>1 DEF UpTo
  <2>. QED
    BY <2>1, <2>2, <2>3
<1>6. UpTo(k) \cap TokensOf(j) = {}
  <2>1. ASSUME NEW p \in UpTo(k), p \in TokensOf(j) PROVE FALSE
    <3>1. ids[p].turn <= k /\ ids[p].turn = j
      BY <2>1, ModelTokens DEF UpTo
    <3>. QED
      BY <3>1
  <2>. QED
    BY <2>1
<1>7. Cardinality(UpTo(j)) = Cardinality(UpTo(k)) + Cardinality(TokensOf(j)) - Cardinality({})
  BY <1>4, <1>5, <1>6, FS_Union
<1>8. /\ Cardinality(UpTo(k)) \in Nat /\ Cardinality(TokensOf(j)) \in Nat
      /\ Cardinality({}) = 0
  BY <1>4, FS_CardinalityType, FS_EmptySet
<1>. QED
  BY <1>7, <1>8

\* The lengths of the turns before the k-th add up to their tokens.
LEMMA TokensBeforeCount ==
  ASSUME Aligned, InTurns, Reported, NEW N \in 0..Len(texts)
  PROVE  TokensBefore(lengths, N + 1) = Cardinality(UpTo(N))
<1>. DEFINE Sums(f) == [j \in 0..N |-> IF j = 0 THEN 0 ELSE f[j - 1] + lengths[j]]
            sum == CHOOSE f : f = Sums(f)
<1>1. /\ N \in Nat /\ Len(texts) \in Nat /\ (N + 1) - 1 = N
      /\ \A j \in 1..N : lengths[j] \in Nat /\ lengths[j] = Cardinality(TokensOf(j))
  <2>1. /\ Len(texts) \in Nat /\ Len(lengths) = Len(texts) /\ lengths \in Seq(Nat)
        /\ \A j \in 1..Len(texts) : lengths[j] = Cardinality(TokensOf(j))
    BY DEF Reported
  <2>2. N \in Nat /\ (N + 1) - 1 = N /\ \A j \in 1..N : j \in 1..Len(texts)
    BY <2>1
  <2>. QED
    BY <2>1, <2>2
<1>2. TokensBefore(lengths, N + 1) = sum[N]
  BY <1>1 DEF TokensBefore
<1>3. \E f : f = Sums(f)
  <2>. DEFINE step == [j \in 1..N |-> [x \in Nat |-> x + lengths[j]]]
  <2>1. step \in [1..N -> [Nat -> Nat]]
    BY <1>1
  <2>. HIDE DEF step
  <2>2. PICK f \in [0..N -> Nat] : Unfolds(f, 0, step, N)
    BY <1>1, <2>1, RecursionExists
  <2>3. ASSUME NEW j \in 1..N PROVE f[j] = f[j - 1] + lengths[j]
    <3>1. f[j - 1] \in Nat
      BY <1>1
    <3>2. f[j] = step[j][f[j - 1]]
      BY <2>2 DEF Unfolds
    <3>. QED
      BY <3>1, <3>2 DEF step
  <2>4. ASSUME NEW j \in 0..N
        PROVE  f[j] = IF j = 0 THEN 0 ELSE f[j - 1] + lengths[j]
    <3>1. CASE j = 0
      BY <2>2, <3>1 DEF Unfolds
    <3>2. CASE j # 0
      <4>1. j \in 1..N
        BY <1>1, <3>2
      <4>. QED
        BY <2>3, <3>2, <4>1
    <3>. QED
      BY <3>1, <3>2
  <2>5. f = Sums(f)
    BY <2>4
  <2>. QED
    BY <2>5
<1>4. sum = Sums(sum)
  BY <1>3
<1>. HIDE DEF sum
<1>5. sum[0] = 0 /\ \A j \in 1..N : sum[j] = sum[j - 1] + lengths[j]
  BY <1>1, <1>4
<1>. DEFINE T == {k \in Nat : k <= N => sum[k] = Cardinality(UpTo(k))}
<1>6. 0 \in T
  <2>1. UpTo(0) = {}
    <3>1. \A p \in Generated(mask) : ids[p].turn \in Nat /\ ids[p].turn > 0
      BY <1>1, ModelTokens
    <3>. QED
      BY <3>1 DEF UpTo
  <2>. QED
    BY <1>5, <2>1, FS_EmptySet
<1>7. ASSUME NEW k \in Nat, k \in T PROVE k + 1 \in T
  <2>1. SUFFICES ASSUME k + 1 <= N PROVE sum[k + 1] = Cardinality(UpTo(k + 1))
    OBVIOUS
  <2>2. k + 1 \in 1..N /\ (k + 1) - 1 = k /\ sum[k] = Cardinality(UpTo(k))
    BY <1>1, <1>7, <2>1
  <2>3. sum[k + 1] = sum[k] + Cardinality(TokensOf(k + 1))
    BY <1>1, <1>5, <2>2
  <2>. QED
    BY <2>2, <2>3, UpToGrows
<1>8. sum[N] = Cardinality(UpTo(N))
  <2>. HIDE DEF T
  <2>1. N \in T
    BY <1>1, <1>6, <1>7, Induction
  <2>. QED
    BY <1>1, <2>1 DEF T
<1>. QED
  BY <1>2, <1>8

\* Read off the lengths, the span of a turn is its tokens.
LEMMA SpanOfLengths ==
  ASSUME Aligned, InTurns, Reported, NEW t \in 1..Len(texts)
  PROVE  SpanByLength(mask, lengths, t) = TokensOf(t)
<1>. DEFINE G      == Generated(mask)
            before == TokensBefore(lengths, t)
            span   == {p \in G : Place(mask, p) \in (before + 1)..(before + lengths[t])}
            upTo(p) == {q \in G : q <= p}
<1>1. Len(texts) \in Nat /\ t \in Nat /\ t - 1 \in Nat /\ t - 1 \in 0..Len(texts)
      /\ (t - 1) + 1 = t
  BY DEF Reported
<1>2. /\ before = Cardinality(UpTo(t - 1)) /\ before \in Nat
      /\ Cardinality(UpTo(t)) = before + lengths[t]
      /\ Cardinality(UpTo(t)) \in Nat /\ lengths[t] \in Nat
  <2>1. lengths[t] = Cardinality(TokensOf(t)) /\ lengths[t] \in Nat
    <3>1. lengths \in Seq(Nat) /\ t \in 1..Len(lengths)
      BY DEF Reported
    <3>2. lengths[t] = Cardinality(TokensOf(t))
      BY DEF Reported
    <3>. QED
      BY <3>1, <3>2
  <2>2. before = Cardinality(UpTo(t - 1))
    BY <1>1, TokensBeforeCount
  <2>3. /\ Cardinality(UpTo(t - 1)) \in Nat /\ Cardinality(UpTo(t)) \in Nat
        /\ Cardinality(UpTo(t)) = Cardinality(UpTo(t - 1)) + Cardinality(TokensOf(t))
    BY <1>1, UpToGrows
  <2>. QED
    BY <2>1, <2>2, <2>3
<1>. HIDE DEF before
<1>3. IsFiniteSet(G) /\ G \in SUBSET Nat /\ \A p \in G : ids[p].turn \in Nat
  BY ModelTokens
<1>4. ASSUME NEW p \in G
      PROVE  /\ IsFiniteSet(upTo(p)) /\ Place(mask, p) = Cardinality(upTo(p))
             /\ Place(mask, p) \in Nat
  <2>1. upTo(p) \in SUBSET G
    OBVIOUS
  <2>2. IsFiniteSet(upTo(p))
    BY <1>3, <2>1, FS_Subset, Zenon
  <2>. QED
    BY <2>2, FS_CardinalityType DEF Place
<1>5. \A k : IsFiniteSet(UpTo(k))
  <2>1. \A k : UpTo(k) \in SUBSET G
    BY DEF UpTo
  <2>. QED
    BY <1>3, <2>1, FS_Subset, Zenon
<1>6. ASSUME NEW p \in G, ids[p].turn <= t PROVE Place(mask, p) <= before + lengths[t]
  <2>1. upTo(p) \in SUBSET UpTo(t)
    <3>1. ASSUME NEW q \in upTo(p) PROVE q \in UpTo(t)
      <4>1. q \in G /\ q <= p
        BY <3>1
      <4>2. ids[q].turn <= ids[p].turn /\ ids[q].turn \in Nat /\ ids[p].turn \in Nat
        BY <4>1, TurnOrder
      <4>. QED
        BY <1>1, <1>6, <4>1, <4>2 DEF UpTo
    <3>. QED
      BY <3>1
  <2>2. Cardinality(upTo(p)) <= Cardinality(UpTo(t))
    BY <1>5, <2>1, FS_Subset, Zenon
  <2>. QED
    BY <1>2, <1>4, <2>2
<1>7. ASSUME NEW k \in Nat, NEW p \in G, ids[p].turn > k
      PROVE  Place(mask, p) > Cardinality(UpTo(k))
  <2>1. UpTo(k) \in SUBSET upTo(p)
    <3>1. ASSUME NEW q \in UpTo(k) PROVE q \in upTo(p)
      <4>1. q \in G /\ ids[q].turn <= k
        BY <3>1 DEF UpTo
      <4>2. ids[q].turn \in Nat /\ ids[p].turn \in Nat
        BY <1>3, <4>1
      <4>3. ids[q].turn < ids[p].turn
        BY <1>7, <4>1, <4>2
      <4>4. q < p
        BY <4>1, <4>3, TurnOrder
      <4>. QED
        BY <1>3, <4>1, <4>4
    <3>. QED
      BY <3>1
  <2>2. p \in upTo(p) /\ p \notin UpTo(k)
    BY <1>3, <1>7 DEF UpTo
  <2>3. /\ Cardinality(UpTo(k)) <= Cardinality(upTo(p))
        /\ Cardinality(upTo(p)) = Cardinality(UpTo(k)) => upTo(p) = UpTo(k)
    BY <1>4, <2>1, FS_Subset, Zenon
  <2>4. Cardinality(UpTo(k)) \in Nat
    BY UpToGrows
  <2>5. upTo(p) # UpTo(k)
    BY <2>2
  <2>6. Place(mask, p) = Cardinality(upTo(p)) /\ Place(mask, p) \in Nat
    BY <1>4
  <2>. HIDE DEF upTo
  <2>7. Cardinality(UpTo(k)) <= Place(mask, p) /\ Cardinality(UpTo(k)) # Place(mask, p)
    BY <2>3, <2>5, <2>6, Zenon
  <2>. QED
    BY <2>4, <2>6, <2>7
<1>8. ASSUME NEW p \in G PROVE p \in span <=> ids[p].turn = t
  <2>1. CASE ids[p].turn = t
    <3>1. Place(mask, p) <= before + lengths[t] /\ Place(mask, p) > before
      <4>1. Place(mask, p) <= before + lengths[t]
        BY <1>1, <1>6, <2>1
      <4>2. ids[p].turn > t - 1
        BY <1>1, <2>1
      <4>3. Place(mask, p) > Cardinality(UpTo(t - 1))
        BY <1>1, <1>7, <4>2
      <4>. QED
        BY <1>2, <4>1, <4>3
    <3>2. Place(mask, p) \in Nat
      BY <1>4
    <3>3. Place(mask, p) \in (before + 1)..(before + lengths[t])
      BY <1>2, <3>1, <3>2
    <3>. QED
      BY <2>1, <3>3
  <2>2. CASE ids[p].turn < t
    <3>1. Place(mask, p) <= before
      <4>1. upTo(p) \in SUBSET UpTo(t - 1)
        <5>1. ASSUME NEW q \in upTo(p) PROVE q \in UpTo(t - 1)
          <6>1. q \in G /\ q <= p
            BY <5>1
          <6>2. ids[q].turn <= ids[p].turn /\ ids[q].turn \in Nat /\ ids[p].turn \in Nat
            BY <6>1, TurnOrder
          <6>. QED
            BY <1>1, <2>2, <6>1, <6>2 DEF UpTo
        <5>. QED
          BY <5>1
      <4>2. Cardinality(upTo(p)) <= Cardinality(UpTo(t - 1))
        BY <1>5, <4>1, FS_Subset, Zenon
      <4>. QED
        BY <1>2, <1>4, <4>2
    <3>. QED
      BY <1>1, <1>2, <1>3, <1>4, <2>2, <3>1
  <2>3. CASE ids[p].turn > t
    <3>1. Place(mask, p) > before + lengths[t]
      BY <1>1, <1>2, <1>7, <2>3
    <3>. QED
      BY <1>1, <1>2, <1>3, <1>4, <2>3, <3>1
  <2>. QED
    BY <1>1, <1>3, <2>1, <2>2, <2>3
<1>9. span = TokensOf(t)
  <2>1. \A p \in G : p \in TokensOf(t) <=> ids[p].turn = t
    BY ModelTokens
  <2>2. TokensOf(t) \in SUBSET G
    BY ModelTokens
  <2>. HIDE DEF span
  <2>3. span \in SUBSET G
    BY DEF span
  <2>. QED
    BY <1>8, <2>1, <2>2, <2>3
<1>10. Contiguous(span)
  BY <1>9, TurnsContiguous DEF Contiguous
<1>. QED
  BY <1>9, <1>10 DEF SpanByLength, before

\* Read off the runs of generated tokens, the span of a turn is its tokens: each
\* turn begins one run, since a tool's answer is before it.
LEMMA SpanOfRuns ==
  ASSUME Aligned, InTurns, Reported, NEW t \in 1..Len(texts)
  PROVE  Run(mask, t) = TokensOf(t)
<1>. DEFINE G         == Generated(mask)
            starts    == {p \in G : p - 1 \notin G}
            begun(p)  == {s \in starts : s <= p}
<1>1. /\ G \in SUBSET Nat /\ IsFiniteSet(G)
      /\ \A p \in G : /\ ids[p].turn \in 1..(Len(texts) + 1)
                      /\ p \in TokensOf(ids[p].turn)
      /\ \A k : \A p \in TokensOf(k) : p \in G /\ ids[p].turn = k
      /\ Len(texts) \in Nat
  BY ModelTokens DEF Reported
<1>2. ASSUME NEW p \in G PROVE Cardinality(begun(p)) = ids[p].turn
  <2>. PICK k : k = ids[p].turn
    OBVIOUS
  <2>. DEFINE f == [s \in begun(p) |-> ids[s].turn]
  <2>1. k \in 1..(Len(texts) + 1) /\ k \in Nat
    BY <1>1
  <2>2. ASSUME NEW s \in begun(p) PROVE f[s] = ids[s].turn /\ f[s] \in 1..k /\ s \in G
    <3>1. s \in G /\ s <= p
      BY <2>2
    <3>2. ids[s].turn <= ids[p].turn /\ ids[s].turn \in 1..(Len(texts) + 1)
      BY <1>1, <3>1, TurnOrder
    <3>. QED
      BY <1>1, <2>1, <3>1, <3>2
  <2>3. ASSUME NEW a \in begun(p), NEW b \in begun(p), a < b PROVE f[a] # f[b]
    <3>1. SUFFICES ASSUME f[a] = f[b] PROVE FALSE
      OBVIOUS
    <3>2. /\ a \in G /\ b \in G /\ b - 1 \notin G
          /\ ids[a].turn = ids[b].turn
      BY <2>2, <2>3, <3>1
    <3>. PICK j : j = ids[a].turn
      OBVIOUS
    <3>3. a \in TokensOf(j) /\ b \in TokensOf(j)
      BY <1>1, <3>2
    <3>4. b - 1 \in a..b
      BY <1>1, <2>3, <3>2
    <3>5. b - 1 \in TokensOf(j)
      BY <3>3, <3>4, TurnsContiguous
    <3>. QED
      BY <1>1, <3>2, <3>5
  <2>4. ASSUME NEW a \in begun(p), NEW b \in begun(p), f[a] = f[b] PROVE a = b
    <3>1. a \in Nat /\ b \in Nat
      BY <1>1, <2>2
    <3>2. ~(a < b) /\ ~(b < a)
      BY <2>3, <2>4
    <3>. QED
      BY <3>1, <3>2
  <2>5. ASSUME NEW j \in 1..k PROVE \E s \in begun(p) : f[s] = j
    <3>1. TokensOf(j) # {}
      <4>1. CASE j \in 1..Len(texts)
        BY <4>1 DEF Reported
      <4>2. CASE j = k
        BY <1>1, <4>2
      <4>. QED
        BY <1>1, <2>1, <4>1, <4>2
    <3>2. TokensOf(j) \in SUBSET Nat
      BY <1>1
    <3>3. PICK m \in TokensOf(j) : \A q \in TokensOf(j) : m <= q
      BY <3>1, <3>2, LeastNumber
    <3>4. m \in G /\ ids[m].turn = j /\ m \in Nat
      BY <1>1, <3>3
    <3>5. m - 1 \notin G
      <4>1. SUFFICES ASSUME m - 1 \in G PROVE FALSE
        OBVIOUS
      <4>2. /\ m \in 1..Len(ids) /\ m - 1 \in 1..Len(ids) /\ m = (m - 1) + 1
            /\ ids[m].by = "model" /\ ids[m - 1].by = "model"
        BY <3>4, <4>1, ModelTokens
      <4>3. ids[m - 1].turn = ids[m].turn
        BY <4>2 DEF InTurns
      <4>4. m - 1 \in TokensOf(j)
        BY <1>1, <3>4, <4>1, <4>3
      <4>. QED
        BY <3>3, <3>4, <4>4
    <3>6. m <= p
      <4>1. CASE j = k
        BY <1>1, <3>3, <4>1
      <4>2. CASE j < k
        <5>1. m < p
          BY <3>4, <4>2, TurnOrder
        <5>. QED
          BY <1>1, <3>4, <5>1
      <4>. QED
        BY <2>1, <4>1, <4>2
    <3>7. m \in begun(p)
      BY <3>4, <3>5, <3>6
    <3>. QED
      BY <2>2, <3>4, <3>7
  <2>6. begun(p) \in SUBSET G
    OBVIOUS
  <2>7. IsFiniteSet(begun(p))
    BY <1>1, <2>6, FS_Subset, Zenon
  <2>. DEFINE B == begun(p)
  <2>8. f \in [B -> 1..k]
    BY <2>2
  <2>9. f \in Bijection(B, 1..k)
    <3>. HIDE DEF f, B
    <3>1. f \in Injection(B, 1..k)
      <4>1. \A a, b \in B : f[a] = f[b] => a = b
        BY <2>4 DEF B
      <4>. QED
        BY <2>8, <4>1 DEF Injection, IsInjective
    <3>2. f \in Surjection(B, 1..k)
      <4>1. \A j \in 1..k : \E s \in B : f[s] = j
        BY <2>5 DEF B
      <4>. QED
        BY <2>8, <4>1 DEF Surjection
    <3>. QED
      BY <3>1, <3>2 DEF Bijection
  <2>10. ExistsBijection(B, 1..k)
    BY <2>9 DEF ExistsBijection
  <2>11. Cardinality(1..k) = Cardinality(B)
    <3>. HIDE DEF B
    <3>1. IsFiniteSet(B)
      BY <2>7 DEF B
    <3>. QED
      BY <2>10, <3>1, FS_Bijection, Zenon
  <2>12. Cardinality(1..k) = k
    BY <2>1, FirstNumbers
  <2>. QED
    BY <2>11, <2>12
<1>3. Run(mask, t) = {p \in G : Cardinality(begun(p)) = t}
  BY DEF Run
<1>4. Run(mask, t) = {p \in G : ids[p].turn = t}
  <2>. HIDE DEF begun
  <2>. QED
    BY <1>2, <1>3
<1>. QED
  BY <1>1, <1>4

-----------------------------------------------------------------------------
(* Turns that all say something                                            *)

\* No turn is left out, and each keeps its tool responses.
LEMMA AllKept ==
  ASSUME Reported, \A k \in DOMAIN texts : ~texts[k].blank
  PROVE  /\ Len(KeptTurns(Rollout)) = Len(texts)
         /\ \A k \in 1..Len(texts) : TurnPrompt(Rollout, k) = [shows |-> k,
                                                               feedback |-> blocks[k]]
<1>. PICK n : n = Len(texts)
  OBVIOUS
<1>1. /\ n \in Nat /\ DOMAIN texts = 1..n /\ DOMAIN blocks = 1..n
      /\ \A k \in 1..n : texts[k].turn = k
  BY DEF Reported
<1>2. Rollout.texts = texts /\ Rollout.blocks = blocks
  BY DEF Rollout
<1>3. KeptTurns(Rollout) = Picked(texts, 1..n)
  <2>1. {k \in DOMAIN texts : ~texts[k].blank} = 1..n
    BY <1>1
  <2>. QED
    BY <1>2, <2>1 DEF KeptTurns
<1>4. Cardinality(1..n) = n /\ \A k \in 1..n : Ascending(1..n)[k] = k
  BY <1>1, AscendingOfAll
<1>5. KeptTurns(Rollout) = [k \in 1..n |-> texts[k]]
  BY <1>3, <1>4 DEF Picked
<1>6. Len(KeptTurns(Rollout)) = n /\ DOMAIN KeptTurns(Rollout) = 1..n
  BY <1>1, <1>5
<1>7. ASSUME NEW k \in 1..n
      PROVE  TurnPrompt(Rollout, k) = [shows |-> k, feedback |-> blocks[k]]
  <2>1. KeptTurns(Rollout)[k].turn = k
    BY <1>1, <1>5
  <2>2. KeptBlocks(Rollout)[k] = blocks[k]
    BY <1>1, <1>2, <1>6 DEF KeptBlocks
  <2>. QED
    BY <2>1, <2>2 DEF TurnPrompt
<1>. QED
  BY <1>6, <1>7

\* The teacher is asked about, and the student trained on, one and the same turn,
\* wherever an attempt is cut off: by its budget, by a timeout between a
\* generation and its report or by a failure, as long as no turn is blank.
THEOREM SpokenTurnsTaughtTheirOwn == Spec => []SpokenTurnsAreTaughtTheirOwn
<1>1. ASSUME IInv PROVE SpokenTurnsAreTaughtTheirOwn
  <2>1. SUFFICES ASSUME \A k \in DOMAIN texts : ~texts[k].blank,
                        NEW k \in DOMAIN targets, targets[k].active
                 PROVE  /\ targets[k].feedback = targets[k].shows
                        /\ targets[k].target = TokensOf(Supervised(targets[k]))
    BY DEF SpokenTurnsAreTaughtTheirOwn, TurnsAreTaughtTheirOwn
  <2>. PICK n : n = Len(texts)
    OBVIOUS
  <2>2. Aligned /\ InTurns /\ Reported /\ n \in Nat /\ mode \in Modes
    BY <1>1 DEF IInv, Reported, Supervision
  <2>3. targets = Prompts(Rollout, mode)
    <3>1. pc \notin PcBefore
      <4>1. SUFFICES ASSUME pc \in PcBefore PROVE FALSE
        OBVIOUS
      <4>2. targets = <<>>
        BY <1>1, <4>1 DEF IInv, Supervision
      <4>. QED
        BY <2>1, <4>2
    <3>. QED
      BY <1>1, <3>1 DEF IInv, Supervision
  <2>4. /\ Len(KeptTurns(Rollout)) = n
        /\ \A j \in 1..n : TurnPrompt(Rollout, j) = [shows |-> j, feedback |-> blocks[j]]
    BY <2>1, <2>2, AllKept
  <2>. PICK t : t = TargetTurn(mode, k)
    OBVIOUS
  <2>5. k \in 1..PromptCount(Rollout, mode)
    BY <2>1, <2>3 DEF Prompts
  <2>6. k \in 1..n /\ t \in 1..n /\ t = IF mode = "current_turn" THEN k ELSE k + 1
    BY <2>2, <2>4, <2>5 DEF PromptCount, TargetTurn
  <2>7. /\ targets[k].shows = k /\ targets[k].feedback = blocks[k]
        /\ targets[k].target = Span(Rollout, t)
        /\ blocks[k] # 0
    <3>. DEFINE prompt == TurnPrompt(Rollout, k)
                span   == Span(Rollout, TargetTurn(mode, k))
    <3>1. targets[k] = [shows |-> prompt.shows, feedback |-> prompt.feedback,
                        target |-> span, active |-> span # {} /\ prompt.feedback # 0]
      BY <2>3, <2>5 DEF Prompts
    <3>2. prompt = [shows |-> k, feedback |-> blocks[k]] /\ span = Span(Rollout, t)
      BY <2>4, <2>6
    <3>. HIDE DEF prompt, span
    <3>3. prompt.feedback # 0
      <4>. DEFINE on == span # {} /\ prompt.feedback # 0
      <4>1. targets[k] = [shows |-> prompt.shows, feedback |-> prompt.feedback,
                          target |-> span, active |-> on]
        BY <3>1
      <4>. HIDE DEF on
      <4>2. targets[k].active = on
        BY <4>1
      <4>3. on
        BY <2>1, <4>2, Zenon
      <4>. QED
        BY <4>3 DEF on
    <3>. QED
      BY <3>1, <3>2, <3>3
  <2>8. blocks[k] = k
    BY <2>2, <2>6, <2>7 DEF Reported
  <2>9. Span(Rollout, t) = TokensOf(t)
    <3>1. Rollout.mask = mask /\ Rollout.lengths = lengths
      BY DEF Rollout
    <3>. QED
      BY <2>2, <2>6, <3>1, SpanOfLengths, SpanOfRuns DEF Span
  <2>10. Supervised(targets[k]) = t
    BY <2>6, <2>7 DEF Supervised
  <2>. QED
    BY <2>7, <2>8, <2>9, <2>10
<1>. QED
  BY <1>1, SdpoInvariant, PTL
=============================================================================
