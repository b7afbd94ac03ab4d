-------------------------- MODULE SftTrainerProofs --------------------------
(***************************************************************************)
(* Proofs about the inner training of a step: for every set of histories,  *)
(* every number of ranks, rows and epochs, and every shuffle.              *)
(***************************************************************************)
EXTENDS SftTrainer, RowSelectionProofs, FiniteSetTheorems, SequenceTheorems, TLAPS

-----------------------------------------------------------------------------
(* What is tokenized                                                       *)

Message == [role : {"user", "assistant"}, think : Seq(Symbol), say : Seq(Symbol)]

\* What is written after a thought, or without one, is a text.
LEMMA TextType ==
  ASSUME NEW e, e.think \in Seq(Symbol), e.say \in Seq(Symbol)
  PROVE  Text(e) \in Seq(Symbol)
<1>. DEFINE mark == <<ThinkEnd>>
<1>1. mark \in Seq(Symbol)
  <2>1. ThinkEnd \in Symbol
    BY DEF Symbol, Markers
  <2>. QED
    BY <2>1
<1>. HIDE DEF mark
<1>2. e.think \o mark \o e.say \in Seq(Symbol)
  BY <1>1
<1>. QED
  BY <1>2 DEF Text, mark

\* A history makes a list of messages, of which the first is the prompt.
LEMMA MessagesType ==
  ASSUME NEW history \in Seq(Entry)
  PROVE  Messages(history) \in Seq(Message)
<1>. DEFINE spoken == {i \in DOMAIN history : Text(history[i]) # <<>>}
            kept   == Picked(history, spoken)
            first  == <<[role |-> "user", think |-> <<>>, say |-> Prompt]>>
            rest   == [i \in DOMAIN kept |->
                         [role |-> Role(kept[i]), think |-> kept[i].think,
                          say |-> kept[i].say]]
<1>1. kept \in Seq(Entry)
  <2>1. spoken \in SUBSET (1..Len(history))
    OBVIOUS
  <2>. HIDE DEF spoken
  <2>. QED
    BY <2>1, PickedElements
<1>. HIDE DEF kept
<1>2. ASSUME NEW i \in 1..Len(kept)
      PROVE  [role |-> Role(kept[i]), think |-> kept[i].think, say |-> kept[i].say]
               \in Message
  <2>1. kept[i] \in Entry
    BY <1>1
  <2>2. kept[i].think \in Seq(Symbol) /\ kept[i].say \in Seq(Symbol)
    BY <2>1 DEF Entry
  <2>3. Role(kept[i]) \in {"user", "assistant"}
    BY DEF Role
  <2>. QED
    BY <2>2, <2>3 DEF Message
<1>3. rest \in Seq(Message)
  BY <1>1, <1>2
<1>4. first \in Seq(Message)
  <2>1. [role |-> "user", think |-> <<>>, say |-> Prompt] \in Message
    BY SftAssumption DEF Message
  <2>. QED
    BY <2>1
<1>. HIDE DEF first, rest
<1>5. first \o rest \in Seq(Message)
  BY <1>3, <1>4
<1>. QED
  BY <1>5 DEF Messages, first, rest, kept, spoken

\* The text so far, after each of the texts that are put together.
TextsSoFar(seqs, S) ==
    {f \in [0..Len(seqs) -> Seq(S)] :
        f[0] = <<>> /\ \A i \in 1..Len(seqs) : f[i] = f[i - 1] \o seqs[i]}

\* There is a text so far.
LEMMA TextSoFarExists ==
  ASSUME NEW S, NEW seqs \in Seq(Seq(S))
  PROVE  \E f : f \in TextsSoFar(seqs, S)
<1>. DEFINE N     == Len(seqs)
            texts == Seq(S)
            step  == [i \in 1..N |-> [s \in texts |-> s \o seqs[i]]]
<1>1. <<>> \in texts /\ N \in Nat /\ \A i \in 1..N : seqs[i] \in texts
  OBVIOUS
<1>2. \A i \in 1..N : \A s \in texts : s \o seqs[i] \in texts
  BY <1>1
<1>. HIDE DEF N, texts
<1>3. step \in [1..N -> [texts -> texts]]
  BY <1>2
<1>. HIDE DEF step
<1>4. PICK f \in [0..N -> texts] : Unfolds(f, <<>>, step, N)
  BY <1>1, <1>3, RecursionExists
<1>5. ASSUME NEW i \in 1..N PROVE f[i] = f[i - 1] \o seqs[i]
  <2>1. i - 1 \in 0..N
    BY <1>1
  <2>2. f[i - 1] \in texts
    BY <2>1
  <2>3. f[i] = step[i][f[i - 1]]
    BY <1>4 DEF Unfolds
  <2>. QED
    BY <2>2, <2>3 DEF step
<1>6. f[0] = <<>>
  BY <1>4 DEF Unfolds
<1>. QED
  BY <1>5, <1>6 DEF TextsSoFar, N, texts

\* A text so far is a text, and goes on with the next one.
LEMMA TextsSoFarFacts ==
  ASSUME NEW S, NEW seqs \in Seq(Seq(S)), NEW f \in TextsSoFar(seqs, S)
  PROVE  /\ Len(seqs) \in Nat
         /\ \A i \in 1..Len(seqs) : seqs[i] \in Seq(S)
         /\ f \in [0..Len(seqs) -> Seq(S)]
         /\ \A i \in 0..Len(seqs) : f[i] \in Seq(S) /\ Len(f[i]) \in Nat
         /\ f[0] = <<>>
         /\ \A i \in 1..Len(seqs) : f[i] = f[i - 1] \o seqs[i]
<1>1. Len(seqs) \in Nat /\ \A i \in 1..Len(seqs) : seqs[i] \in Seq(S)
  OBVIOUS
<1>2. f \in [0..Len(seqs) -> Seq(S)]
  BY Zenon DEF TextsSoFar
<1>3. f[0] = <<>> /\ \A i \in 1..Len(seqs) : f[i] = f[i - 1] \o seqs[i]
  BY Zenon DEF TextsSoFar
<1>4. \A i \in 0..Len(seqs) : f[i] \in Seq(S)
  BY <1>2, Zenon
<1>5. \A s \in Seq(S) : Len(s) \in Nat
  OBVIOUS
<1>6. \A i \in 0..Len(seqs) : f[i] \in Seq(S) /\ Len(f[i]) \in Nat
  BY <1>4, <1>5, Zenon
<1>. QED
  BY <1>1, <1>2, <1>3, <1>6, Zenon

\* Two texts put together hold the one, then the other.
LEMMA ConcatFacts ==
  ASSUME NEW S, NEW s \in Seq(S), NEW t \in Seq(S)
  PROVE  /\ s \o t \in Seq(S)
         /\ Len(s) \in Nat /\ Len(t) \in Nat
         /\ Len(s \o t) = Len(s) + Len(t)
         /\ \A p \in 1..Len(s) : (s \o t)[p] = s[p]
         /\ \A p \in 1..Len(t) : (s \o t)[Len(s) + p] = t[p]
OBVIOUS

\* Texts put together are the last text so far.
LEMMA FlattenUnfolds ==
  ASSUME NEW S, NEW seqs \in Seq(Seq(S)), NEW f \in TextsSoFar(seqs, S)
  PROVE  FlattenSeq(seqs) = f[Len(seqs)]
<1>. DEFINE N == Len(seqs)
            Next1(g) == [i \in 1..N |-> IF i = 1 THEN seqs[i] ELSE g[i - 1] \o seqs[i]]
            flat == CHOOSE g : g = Next1(g)
<1>0. /\ N \in Nat
      /\ f \in [0..N -> Seq(S)]
      /\ f[0] = <<>>
      /\ \A i \in 1..N : f[i] = f[i - 1] \o seqs[i] /\ seqs[i] \in Seq(S)
  BY TextsSoFarFacts, Zenon
<1>1. CASE N = 0
  <2>1. FlattenSeq(seqs) = seqs
    BY <1>1 DEF FlattenSeq
  <2>. QED
    BY <1>0, <1>1, <2>1
<1>2. CASE N # 0
  <2>1. N > 0
    BY <1>0, <1>2
  <2>2. FlattenSeq(seqs) = flat[N]
    BY <1>2 DEF FlattenSeq
  <2>. HIDE DEF N
  <2>3. f[1] = seqs[1]
    <3>1. 1 \in 1..N /\ 1 - 1 = 0
      BY <1>0, <2>1
    <3>2. f[1] = f[1 - 1] \o seqs[1] /\ seqs[1] \in Seq(S)
      BY <1>0, <3>1
    <3>3. f[1] = <<>> \o seqs[1]
      BY <1>0, <3>1, <3>2
    <3>. QED
      BY <3>2, <3>3
  <2>4. \E g : g = Next1(g)
    <3>. DEFINE g == [i \in 1..N |-> f[i]]
    <3>1. ASSUME NEW i \in 1..N
          PROVE  g[i] = IF i = 1 THEN seqs[i] ELSE g[i - 1] \o seqs[i]
      <4>1. CASE i = 1
        BY <2>3, <4>1
      <4>2. CASE i # 1
        <5>1. i - 1 \in 1..N
          BY <1>0, <4>2
        <5>. QED
          BY <1>0, <4>2, <5>1
      <4>. QED
        BY <4>1, <4>2
    <3>2. g = Next1(g)
      BY <3>1
    <3>. QED
      BY <3>2
  <2>5. flat = Next1(flat)
    BY <2>4
  <2>. HIDE DEF flat
  <2>6. \A i \in 1..N : flat[i] = IF i = 1 THEN seqs[i] ELSE flat[i - 1] \o seqs[i]
    BY <2>5
  <2>. DEFINE T == {n \in Nat : n + 1 <= N => flat[n + 1] = f[n + 1]}
  <2>7. 0 \in T
    BY <2>1, <2>3, <2>6
  <2>8. ASSUME NEW n \in Nat, n \in T PROVE n + 1 \in T
    <3>1. SUFFICES ASSUME n + 2 <= N PROVE flat[n + 2] = f[n + 2]
      OBVIOUS
    <3>2. /\ n + 2 \in 1..N /\ n + 2 # 1 /\ (n + 2) - 1 = n + 1
          /\ flat[n + 1] = f[n + 1]
      BY <1>0, <2>8, <3>1
    <3>3. flat[n + 2] = flat[n + 1] \o seqs[n + 2]
      BY <2>6, <3>2
    <3>. QED
      BY <1>0, <3>2, <3>3
  <2>9. N - 1 \in T
    <3>. HIDE DEF T
    <3>1. \A n \in Nat : n \in T
      BY <2>7, <2>8, Induction
    <3>2. N - 1 \in Nat
      BY <1>0, <2>1
    <3>. QED
      BY <3>1, <3>2
  <2>10. flat[N] = f[N]
    BY <1>0, <2>1, <2>9
  <2>. QED
    BY <2>2, <2>10 DEF N
<1>. QED
  BY <1>1, <1>2

\* Texts put together are a text.
LEMMA FlattenType ==
  ASSUME NEW S, NEW seqs \in Seq(Seq(S))
  PROVE  FlattenSeq(seqs) \in Seq(S)
<1>1. PICK f : f \in TextsSoFar(seqs, S)
  BY TextSoFarExists
<1>2. f[Len(seqs)] \in Seq(S)
  <2>1. /\ Len(seqs) \in Nat
        /\ \A i \in 0..Len(seqs) : f[i] \in Seq(S)
    BY <1>1, TextsSoFarFacts, Zenon
  <2>. QED
    BY <2>1
<1>. QED
  BY <1>1, <1>2, FlattenUnfolds

\* The first of the texts are put together to the text so far.
LEMMA FlattenPrefix ==
  ASSUME NEW S, NEW seqs \in Seq(Seq(S)), NEW f \in TextsSoFar(seqs, S),
         NEW n \in 0..Len(seqs)
  PROVE  FlattenSeq(SubSeq(seqs, 1, n)) = f[n]
<1>. DEFINE first == SubSeq(seqs, 1, n)
            g     == [i \in 0..n |-> f[i]]
<1>1. first \in Seq(Seq(S)) /\ Len(first) = n /\ \A i \in 1..n : first[i] = seqs[i]
  OBVIOUS
<1>2. /\ Len(seqs) \in Nat
      /\ f \in [0..Len(seqs) -> Seq(S)] /\ f[0] = <<>>
      /\ \A i \in 0..Len(seqs) : f[i] \in Seq(S)
      /\ \A i \in 1..Len(seqs) : f[i] = f[i - 1] \o seqs[i]
  BY TextsSoFarFacts, Zenon
<1>. HIDE DEF first
<1>3. /\ n \in Nat /\ n <= Len(seqs)
      /\ \A i \in 0..n : f[i] \in Seq(S)
  BY <1>2
<1>4. \A i \in 1..n : /\ i \in 1..Len(seqs) /\ i \in 0..n /\ i - 1 \in 0..n
  BY <1>2, <1>3
<1>5. g \in [0..n -> Seq(S)] /\ g[0] = <<>>
  BY <1>2, <1>3
<1>6. \A i \in 1..n : g[i] = g[i - 1] \o first[i]
  BY <1>1, <1>2, <1>4
<1>7. g \in TextsSoFar(first, S)
  BY <1>1, <1>5, <1>6 DEF TextsSoFar
<1>8. FlattenSeq(first) = g[n]
  <2>. HIDE DEF g
  <2>. QED
    BY <1>1, <1>7, FlattenUnfolds
<1>. QED
  BY <1>3, <1>8 DEF first

\* A text begins with a part of it.
Begins(part, text) ==
    Len(part) <= Len(text) /\ \A p \in 1..Len(part) : text[p] = part[p]

\* What begins the beginning of a text begins the text.
LEMMA BeginsOn ==
  ASSUME NEW a, NEW b, NEW c, Len(a) \in Nat, Len(b) \in Nat, Len(c) \in Nat,
         Begins(a, b), Begins(b, c)
  PROVE  Begins(a, c)
<1>1. /\ Len(a) <= Len(b) /\ \A p \in 1..Len(a) : b[p] = a[p]
      /\ Len(b) <= Len(c) /\ \A p \in 1..Len(b) : c[p] = b[p]
  BY Zenon DEF Begins
<1>2. Len(a) <= Len(c) /\ \A p \in 1..Len(a) : p \in 1..Len(b)
  BY <1>1
<1>3. \A p \in 1..Len(a) : c[p] = a[p]
  BY <1>1, <1>2, Zenon
<1>. QED
  BY <1>2, <1>3, Zenon DEF Begins

\* The text so far begins the text after the next ones.
LEMMA TextSoFarBegins ==
  ASSUME NEW S, NEW seqs \in Seq(Seq(S)), NEW f \in TextsSoFar(seqs, S),
         NEW n \in 0..Len(seqs)
  PROVE  Begins(f[n], f[Len(seqs)])
<1>. DEFINE N == Len(seqs)
            T == {d \in Nat : n + d <= N => Begins(f[n], f[n + d])}
<1>. USE DEF Begins
<1>0. /\ N \in Nat
      /\ \A i \in 0..N : f[i] \in Seq(S) /\ Len(f[i]) \in Nat
      /\ \A i \in 1..N : f[i] = f[i - 1] \o seqs[i] /\ seqs[i] \in Seq(S)
  BY TextsSoFarFacts, Zenon
<1>1. n \in Nat /\ n <= N
  OBVIOUS
<1>. HIDE DEF N
<1>2. 0 \in T
  BY <1>0, <1>1
<1>3. ASSUME NEW d \in Nat, d \in T PROVE d + 1 \in T
  <2>1. SUFFICES ASSUME n + (d + 1) <= N PROVE Begins(f[n], f[n + (d + 1)])
    OBVIOUS
  <2>2. PICK i \in 1..N : i = n + (d + 1) /\ i - 1 = n + d /\ i - 1 \in 0..N /\ i \in 0..N
    BY <1>0, <1>1, <2>1
  <2>3. Begins(f[n], f[i - 1])
    BY <1>0, <1>1, <1>3, <2>1, <2>2
  <2>4. f[i] = f[i - 1] \o seqs[i] /\ seqs[i] \in Seq(S) /\ f[i - 1] \in Seq(S)
    BY <1>0, <1>1, <2>2
  <2>5. /\ Len(f[i - 1]) <= Len(f[i])
        /\ \A p \in 1..Len(f[i - 1]) : f[i][p] = f[i - 1][p]
    <3>. DEFINE s == f[i - 1]
                t == seqs[i]
    <3>2. f[i] = s \o t /\ s \in Seq(S) /\ t \in Seq(S)
      BY <2>4
    <3>. HIDE DEF s, t
    <3>1. /\ Len(s) \in Nat /\ Len(t) \in Nat
          /\ Len(s \o t) = Len(s) + Len(t)
          /\ \A p \in 1..Len(s) : (s \o t)[p] = s[p]
      BY <3>2, ConcatFacts
    <3>3. Len(s) <= Len(f[i]) /\ \A p \in 1..Len(s) : f[i][p] = s[p]
      BY <3>1, <3>2
    <3>. QED
      BY <3>3 DEF s
  <2>6. Len(f[n]) \in Nat /\ Len(f[i]) \in Nat /\ Len(f[i - 1]) \in Nat
    BY <1>0, <1>1, <2>2
  <2>7. Begins(f[n], f[i])
    <3>1. Begins(f[i - 1], f[i])
      BY <2>5
    <3>. QED
      BY <2>3, <2>6, <3>1, BeginsOn
  <2>. QED
    BY <2>2, <2>7
<1>4. N - n \in T
  <2>. HIDE DEF T
  <2>1. N - n \in Nat
    BY <1>0, <1>1
  <2>2. \A d \in Nat : d \in T
    BY <1>2, <1>3, Induction
  <2>. QED
    BY <2>1, <2>2
<1>5. Begins(f[n], f[N])
  <2>. HIDE DEF Begins
  <2>1. n + (N - n) = N /\ n + (N - n) <= N
    BY <1>0, <1>1
  <2>2. Begins(f[n], f[n + (N - n)])
    BY <1>4, <2>1, Zenon
  <2>. QED
    BY <2>1, <2>2
<1>. QED
  BY <1>5 DEF N

\* The chat template gives a text.
LEMMA RenderType ==
  ASSUME NEW messages \in Seq(Message), NEW keep
  PROVE  Render(messages, keep) \in Seq(Symbol)
<1>. DEFINE turns == [i \in DOMAIN messages |-> RenderTurn(messages[i], keep)]
<1>1. ASSUME NEW message \in Message
      PROVE  RenderTurn(message, keep) \in Seq(Symbol)
  <2>. DEFINE head    == Header(message.role)
              content == Content(message, keep)
              end     == TurnEnd
  <2>1. head \in Seq(Symbol)
    <3>1. /\ "<|im_start|>" \in Symbol /\ "nl" \in Symbol
          /\ message.role \in Symbol
      BY DEF Symbol, Markers, Message
    <3>. QED
      BY <3>1 DEF Header
  <2>2. content \in Seq(Symbol)
    <3>1. message.say \in Seq(Symbol) /\ message.think \in Seq(Symbol)
      BY DEF Message
    <3>2. Text(message) \in Seq(Symbol)
      BY <3>1, TextType
    <3>. QED
      BY <3>1, <3>2 DEF Content
  <2>3. end \in Seq(Symbol)
    <3>1. "<|im_end|>" \in Symbol /\ "nl" \in Symbol
      BY DEF Symbol, Markers
    <3>. QED
      BY <3>1 DEF TurnEnd
  <2>. HIDE DEF head, content, end
  <2>4. head \o content \o end \in Seq(Symbol)
    BY <2>1, <2>2, <2>3
  <2>. QED
    BY <2>4 DEF RenderTurn, head, content, end
<1>2. turns \in Seq(Seq(Symbol))
  <2>1. \A i \in 1..Len(messages) : RenderTurn(messages[i], keep) \in Seq(Symbol)
    BY <1>1
  <2>. QED
    BY <2>1
<1>. HIDE DEF turns
<1>3. FlattenSeq(turns) \in Seq(Symbol)
  BY <1>2, FlattenType
<1>. QED
  BY <1>3 DEF Render, turns

\* The first place a text is found at is one of the text, and the text found
\* ends in it.
LEMMA FoundFirst ==
  ASSUME NEW text \in Seq(Symbol), NEW part, Len(part) \in Nat,
         NEW from \in Nat, from >= 1, Found(text, part, from) # {}
  PROVE  LET at == Min(Found(text, part, from))
         IN  at \in from..Len(text) /\ at + Len(part) - 1 <= Len(text)
<1>. DEFINE places == Found(text, part, from)
            at     == Min(places)
<1>1. places \in SUBSET Nat /\ Len(text) \in Nat
  BY DEF Found
<1>2. \A k \in places : k \in from..Len(text) /\ k + Len(part) - 1 <= Len(text)
  BY DEF Found, IsAt
<1>. HIDE DEF places
<1>3. \E k \in places : \A n \in places : k <= n
  BY <1>1, LeastNumber DEF places
<1>4. at \in places
  BY <1>3 DEF Min
<1>. HIDE DEF at
<1>. QED
  BY <1>2, <1>4 DEF at, places

\* The less is left of a text, the longer the part before it.
LEMMA LongerPart ==
  ASSUME NEW n \in Nat, NEW k \in Nat, NEW l \in Nat, n + 1 - k <= n + 1 - l
  PROVE  k >= l
OBVIOUS

\* What a search for a message finds stands in the text after the cursor.
LEMMA FirstFoundType ==
  ASSUME NEW text \in Seq(Symbol), NEW message \in Message,
         NEW cursor \in Nat, cursor >= 1
  PROVE  LET found == FirstFound(text, message, cursor)
         IN  /\ found.at \in Nat /\ found.len \in Nat
             /\ found.at # 0 => /\ found.at \in cursor..Len(text)
                               /\ found.at + found.len - 1 <= Len(text)
<1>. DEFINE there  == {d \in Candidates(message) : Found(text, d, cursor) # {}}
            places == {[at |-> Min(Found(text, c, cursor)), len |-> Len(c)] : c \in there}
            Best(p) == \A q \in places : p.at < q.at \/ (p.at = q.at /\ p.len >= q.len)
            n == Len(text)
<1>1. n \in Nat
  OBVIOUS
<1>2. \A p \in places : /\ p.at \in cursor..n /\ p.len \in Nat
                        /\ p.at + p.len - 1 <= n
  <2>1. ASSUME NEW c \in there
        PROVE  /\ Min(Found(text, c, cursor)) \in cursor..n /\ Len(c) \in Nat
               /\ Min(Found(text, c, cursor)) + Len(c) - 1 <= n
    <3>1. message.say \in Seq(Symbol) /\ Text(message) \in Seq(Symbol)
      BY TextType DEF Message
    <3>2. c \in Candidates(message) /\ Found(text, c, cursor) # {}
      OBVIOUS
    <3>3. c \in {Text(message), message.say}
      BY <3>2 DEF Candidates
    <3>4. Len(c) \in Nat
      BY <3>1, <3>3
    <3>. QED
      BY <3>2, <3>4, FoundFirst
  <2>. HIDE DEF there
  <2>. QED
    BY <2>1
<1>. HIDE DEF places
<1>3. CASE places = {}
  BY <1>3 DEF FirstFound, places, there
<1>4. CASE places # {}
  <2>. DEFINE ats == {p.at : p \in places}
  <2>1. PICK a \in ats : \A b \in ats : a <= b
    <3>1. ats \in SUBSET Nat /\ ats # {}
      BY <1>2, <1>4
    <3>. HIDE DEF ats
    <3>. QED
      BY <3>1, LeastNumber
  <2>. DEFINE rests == {n + 1 - p.len : p \in {q \in places : q.at = a}}
  <2>2. PICK r \in rests : \A u \in rests : r <= u
    <3>1. rests \in SUBSET Nat
      BY <1>1, <1>2
    <3>2. rests # {}
      BY <2>1
    <3>. HIDE DEF rests
    <3>. QED
      BY <3>1, <3>2, LeastNumber
  <2>3. PICK p \in places : p.at = a /\ r = n + 1 - p.len
    BY <2>2
  <2>4. ASSUME NEW q \in places
        PROVE  p.at < q.at \/ (p.at = q.at /\ p.len >= q.len)
    <3>1. CASE q.at = a
      <4>1. n + 1 - p.len <= n + 1 - q.len
        BY <2>2, <2>3, <3>1
      <4>2. p.len \in Nat /\ q.len \in Nat
        BY <1>2
      <4>3. p.len >= q.len
        <5>. HIDE DEF n
        <5>. QED
          BY <1>1, <4>1, <4>2, LongerPart
      <4>. QED
        BY <2>3, <3>1, <4>3
    <3>2. CASE q.at # a
      <4>1. a <= q.at
        BY <2>1
      <4>2. PICK m \in cursor..n : m = q.at
        BY <1>2
      <4>3. a \in Nat /\ m \in Nat
        <5>1. p.at \in cursor..n
          BY <1>2
        <5>. QED
          BY <1>1, <2>3, <5>1
      <4>4. a < m
        BY <3>2, <4>1, <4>2, <4>3
      <4>. QED
        BY <2>3, <4>2, <4>4
    <3>. QED
      BY <3>1, <3>2
  <2>5. Best(p)
    BY <2>4
  <2>6. FirstFound(text, message, cursor) = CHOOSE p1 \in places : Best(p1)
    BY <1>4 DEF FirstFound, places, there
  <2>. HIDE DEF Best
  <2>7. FirstFound(text, message, cursor) \in places
    BY <2>5, <2>6
  <2>. QED
    BY <1>2, <2>7
<1>. QED
  BY <1>3, <1>4

\* The state of the search through a text of n symbols.
SpanStates(n) == [cursor : Nat \ {0}, mask : SUBSET (1..n), lost : BOOLEAN]

\* A turn ends in the text.
LEMMA EndOfTurnType ==
  ASSUME NEW text \in Seq(Symbol), NEW from \in Nat, from >= 1
  PROVE  EndOfTurn(text, from) \in Int /\ EndOfTurn(text, from) <= Len(text)
<1>1. Len(TurnEnd) = 2 /\ Len(text) \in Nat
  BY DEF TurnEnd
<1>2. CASE Found(text, TurnEnd, from) = {}
  BY <1>1, <1>2 DEF EndOfTurn
<1>3. CASE Found(text, TurnEnd, from) # {}
  <2>. DEFINE at == Min(Found(text, TurnEnd, from))
  <2>1. at \in from..Len(text) /\ at + Len(TurnEnd) - 1 <= Len(text)
    <3>1. Len(TurnEnd) \in Nat
      BY <1>1
    <3>. QED
      BY <1>3, <3>1, FoundFirst, Zenon
  <2>2. EndOfTurn(text, from) = at + Len(TurnEnd) - 1
    BY <1>3 DEF EndOfTurn
  <2>. HIDE DEF at
  <2>. QED
    BY <1>1, <2>1, <2>2
<1>. QED
  BY <1>2, <1>3

\* The search for one more message masks symbols of the text.
LEMMA SpanStepType ==
  ASSUME NEW text \in Seq(Symbol), NEW message \in Message,
         NEW state \in SpanStates(Len(text))
  PROVE  SpanStep(text, state, message) \in SpanStates(Len(text))
<1>. DEFINE found == FirstFound(text, message, state.cursor)
            n     == Len(text)
<1>1. /\ state.cursor \in Nat /\ state.cursor >= 1
      /\ state.mask \in SUBSET (1..n) /\ state.lost \in BOOLEAN
      /\ n \in Nat
  BY DEF SpanStates
<1>2. /\ found.at \in Nat /\ found.len \in Nat
      /\ found.at # 0 => found.at \in state.cursor..n /\ found.at + found.len - 1 <= n
  BY <1>1, FirstFoundType
<1>3. SpanStep(text, state, message) =
        IF found.at = 0
        THEN [state EXCEPT !.lost = @ \/ message.role = "assistant"]
        ELSE [cursor |-> NextCursor(state.cursor, found),
              mask   |-> state.mask \cup
                            (IF message.role = "assistant"
                             THEN found.at..EndOfTurn(text, found.at + found.len)
                             ELSE {}),
              lost   |-> state.lost]
  BY DEF SpanStep
<1>. HIDE DEF found
<1>4. CASE found.at = 0
  <2>1. SpanStep(text, state, message)
          = [state EXCEPT !.lost = state.lost \/ message.role = "assistant"]
    BY <1>3, <1>4
  <2>2. (state.lost \/ message.role = "assistant") \in BOOLEAN
    OBVIOUS
  <2>. QED
    BY <2>1, <2>2 DEF SpanStates
<1>5. CASE found.at # 0
  <2>. DEFINE next   == NextCursor(state.cursor, found)
              masked == IF message.role = "assistant"
                        THEN found.at..EndOfTurn(text, found.at + found.len)
                        ELSE {}
  <2>1. next \in Nat \ {0}
    BY <1>1, <1>2, <1>5 DEF NextCursor
  <2>2. masked \in SUBSET (1..n)
    <3>. DEFINE from == found.at + found.len
    <3>1. from \in Nat /\ from >= 1
      BY <1>2, <1>5
    <3>. HIDE DEF from
    <3>2. EndOfTurn(text, from) \in Int /\ EndOfTurn(text, from) <= n
      BY <3>1, EndOfTurnType
    <3>3. \A k \in found.at..EndOfTurn(text, from) : k \in 1..n
      BY <1>1, <1>2, <1>5, <3>2
    <3>. QED
      BY <3>3 DEF from
  <2>3. SpanStep(text, state, message)
          = [cursor |-> next, mask |-> state.mask \cup masked, lost |-> state.lost]
    BY <1>3, <1>5
  <2>. HIDE DEF next, masked
  <2>4. state.mask \cup masked \in SUBSET (1..n)
    BY <1>1, <2>2
  <2>. QED
    BY <1>1, <2>1, <2>3, <2>4 DEF SpanStates
<1>. QED
  BY <1>4, <1>5

\* The states the search for the messages of a text goes through.
Searches(f, text, messages) ==
    /\ f \in [0..Len(messages) -> SpanStates(Len(text))]
    /\ f[0] = [cursor |-> 1, mask |-> {}, lost |-> FALSE]
    /\ \A i \in 1..Len(messages) : f[i] = SpanStep(text, f[i - 1], messages[i])

\* The spans of the loss are found message after message.
LEMMA LossSpansSteps ==
  ASSUME NEW messages \in Seq(Message), NEW keep
  PROVE  \E f : /\ Searches(f, Render(messages, keep), messages)
                /\ LossSpans(messages, keep) = f[Len(messages)]
<1>. DEFINE text  == Render(messages, keep)
            S     == SpanStates(Len(text))
            start == [cursor |-> 1, mask |-> {}, lost |-> FALSE]
            N     == Len(messages)
            Follows(f) == [i \in 0..N |-> IF i = 0 THEN start
                                         ELSE SpanStep(text, f[i - 1], messages[i])]
            after == CHOOSE f : f = Follows(f)
<1>1. LossSpans(messages, keep) = after[N]
  BY DEF LossSpans
<1>2. /\ text \in Seq(Symbol) /\ N \in Nat
      /\ \A i \in 1..N : messages[i] \in Message
  BY RenderType
<1>3. start \in S
  BY DEF SpanStates
<1>. HIDE DEF text, N, start
<1>4. \A i \in 1..N : \A s \in S : SpanStep(text, s, messages[i]) \in S
  BY <1>2, SpanStepType
<1>. HIDE DEF S
<1>5. \E f : f = Follows(f)
  <2>. DEFINE step == [i \in 1..N |-> [s \in S |-> SpanStep(text, s, messages[i])]]
  <2>1. step \in [1..N -> [S -> S]]
    BY <1>4
  <2>. HIDE DEF step
  <2>2. PICK f \in [0..N -> S] : Unfolds(f, start, step, N)
    BY <1>2, <1>3, <2>1, RecursionExists
  <2>3. ASSUME NEW i \in 1..N PROVE f[i] = SpanStep(text, f[i - 1], messages[i])
    <3>1. f[i - 1] \in S
      BY <1>2
    <3>2. f[i] = step[i][f[i - 1]]
      BY <2>2 DEF Unfolds
    <3>. QED
      BY <3>1, <3>2 DEF step
  <2>4. ASSUME NEW i \in 0..N
        PROVE  f[i] = IF i = 0 THEN start ELSE SpanStep(text, f[i - 1], messages[i])
    <3>1. CASE i = 0
      BY <2>2, <3>1 DEF Unfolds
    <3>2. CASE i # 0
      <4>1. i \in 1..N
        BY <1>2, <3>2
      <4>. QED
        BY <2>3, <3>2, <4>1
    <3>. QED
      BY <3>1, <3>2
  <2>5. f = Follows(f)
    BY <2>4
  <2>. QED
    BY <2>5
<1>6. after = Follows(after)
  BY <1>5
<1>. HIDE DEF after
<1>7. /\ after[0] = start
      /\ \A i \in 1..N : after[i] = SpanStep(text, after[i - 1], messages[i])
  BY <1>2, <1>6
<1>. DEFINE T == {n \in Nat : n <= N => after[n] \in S}
<1>8. 0 \in T
  BY <1>3, <1>7
<1>9. ASSUME NEW n \in Nat, n \in T PROVE n + 1 \in T
  <2>1. SUFFICES ASSUME n + 1 <= N PROVE after[n + 1] \in S
    OBVIOUS
  <2>2. n + 1 \in 1..N /\ (n + 1) - 1 = n /\ after[n] \in S
    BY <1>2, <1>9, <2>1
  <2>3. after[n + 1] = SpanStep(text, after[n], messages[n + 1])
    BY <1>7, <2>2
  <2>. QED
    BY <1>4, <2>2, <2>3
<1>10. \A n \in 0..N : after[n] \in S
  <2>. HIDE DEF T
  <2>1. \A n \in Nat : n \in T
    BY <1>8, <1>9, Induction
  <2>. QED
    BY <1>2, <2>1 DEF T
<1>. DEFINE f == [n \in 0..N |-> after[n]]
<1>11. f \in [0..N -> S] /\ f[0] = start /\ f[N] = after[N]
  BY <1>2, <1>7, <1>10
<1>12. \A i \in 1..N : f[i] = SpanStep(text, f[i - 1], messages[i])
  <2>1. \A i \in 1..N : i \in 0..N /\ i - 1 \in 0..N
    BY <1>2
  <2>. QED
    BY <1>7, <2>1
<1>. HIDE DEF f
<1>13. Searches(f, text, messages)
  BY <1>11, <1>12, Zenon DEF Searches, S, N, start
<1>. QED
  BY <1>1, <1>11, <1>13, Zenon DEF N, text

\* The loss is on symbols of the rendered text.
LEMMA LossSpansType ==
  ASSUME NEW messages \in Seq(Message), NEW keep
  PROVE  LossSpans(messages, keep) \in SpanStates(Len(Render(messages, keep)))
<1>1. PICK f : /\ Searches(f, Render(messages, keep), messages)
               /\ LossSpans(messages, keep) = f[Len(messages)]
  BY LossSpansSteps, Zenon
<1>2. f \in [0..Len(messages) -> SpanStates(Len(Render(messages, keep)))]
  BY <1>1, Zenon DEF Searches
<1>3. Len(messages) \in 0..Len(messages)
  OBVIOUS
<1>. QED
  BY <1>1, <1>2, <1>3, Zenon

\* What is tokenized of a history: its length, and a mask within it.
LEMMA SerializedType ==
  ASSUME NEW h \in DOMAIN Histories, NEW keep
  PROVE  /\ Serialized(h, keep).length \in Nat
         /\ Serialized(h, keep).loss.mask \in SUBSET (1..Serialized(h, keep).length)
         /\ Serialized(h, keep).loss.lost \in BOOLEAN
<1>. DEFINE messages == Messages(Histories[h])
            n        == Len(Render(messages, keep))
            loss     == LossSpans(messages, keep)
<1>1. Histories[h] \in Seq(Entry)
  BY SftAssumption
<1>2. messages \in Seq(Message)
  BY <1>1, MessagesType
<1>3. Serialized(h, keep) = [length |-> n, loss |-> loss]
  BY DEF Serialized
<1>. HIDE DEF messages
<1>4. n \in Nat
  <2>1. Render(messages, keep) \in Seq(Symbol)
    BY <1>2, RenderType
  <2>. QED
    BY <2>1
<1>5. loss \in SpanStates(n)
  BY <1>2, LossSpansType
<1>. HIDE DEF n, loss
<1>6. loss.mask \in SUBSET (1..n) /\ loss.lost \in BOOLEAN
  BY <1>5 DEF SpanStates
<1>. QED
  BY <1>3, <1>4, <1>6

-----------------------------------------------------------------------------
(* Where the loss of a history is                                          *)

\* A part stands in a text where its symbols do.
LEMMA StandsAt ==
  ASSUME NEW text \in Seq(Symbol), NEW part \in Seq(Symbol), NEW k \in Nat, k >= 1
  PROVE  IsAt(text, part, k)
           <=> /\ k + Len(part) - 1 <= Len(text)
               /\ \A q \in 1..Len(part) : text[k + q - 1] = part[q]
<1>. DEFINE m == Len(part)
            n == Len(text)
            cut == SubSeq(text, k, k + m - 1)
<1>1. m \in Nat /\ n \in Nat
  OBVIOUS
<1>2. SUFFICES ASSUME k + m - 1 <= n
               PROVE  (cut = part) <=> \A q \in 1..m : text[k + q - 1] = part[q]
  BY DEF IsAt
<1>3. cut = [q \in 1..m |-> text[k + q - 1]]
  <2>1. cut = [q \in 1..((1 + (k + m - 1)) - k) |-> text[(k + q) - 1]]
    OBVIOUS
  <2>2. (1 + (k + m - 1)) - k = m
    BY <1>1
  <2>. HIDE DEF m, cut
  <2>3. \A q \in 1..m : (k + q) - 1 = k + q - 1
    BY <1>1
  <2>. QED
    BY <2>1, <2>2, <2>3
<1>4. part = [q \in 1..m |-> part[q]]
  OBVIOUS
<1>. HIDE DEF m, n, cut
<1>. QED
  BY <1>3, <1>4

\* The text that is found first, and is the longest there, is the one found.
LEMMA FoundBest ==
  ASSUME NEW text \in Seq(Symbol), NEW message \in Message,
         NEW cursor \in Nat, cursor >= 1,
         NEW best \in Candidates(message), NEW at \in Found(text, best, cursor),
         \A c \in Candidates(message) : \A k \in Found(text, c, cursor) :
            at < k \/ (at = k /\ Len(best) >= Len(c))
  PROVE  FirstFound(text, message, cursor) = [at |-> at, len |-> Len(best)]
<1>. DEFINE Hits(c) == Found(text, c, cursor)
            there  == {d \in Candidates(message) : Hits(d) # {}}
            places == {[at |-> Min(Hits(c)), len |-> Len(c)] : c \in there}
            Best(p) == \A q \in places : p.at < q.at \/ (p.at = q.at /\ p.len >= q.len)
            own == [at |-> at, len |-> Len(best)]
<1>1. \A c : Hits(c) \in SUBSET Nat
  BY DEF Found
<1>2. at \in Nat
  BY <1>1
<1>3. \A c \in Candidates(message) : Len(c) \in Nat
  <2>1. message.say \in Seq(Symbol) /\ Text(message) \in Seq(Symbol)
    BY TextType DEF Message
  <2>2. \A c \in Candidates(message) : c \in {Text(message), message.say}
    BY DEF Candidates
  <2>. QED
    BY <2>1, <2>2
<1>4. ASSUME NEW c \in there
      PROVE  Min(Hits(c)) \in Hits(c) /\ Min(Hits(c)) \in Nat
  <2>1. Hits(c) # {} /\ Hits(c) \in SUBSET Nat
    BY <1>1
  <2>. HIDE DEF Hits
  <2>2. \E k \in Hits(c) : \A n \in Hits(c) : k <= n
    BY <2>1, LeastNumber
  <2>3. Min(Hits(c)) \in Hits(c)
    BY <2>2 DEF Min
  <2>. QED
    BY <2>1, <2>3
<1>5. Min(Hits(best)) = at
  <2>1. best \in there
    OBVIOUS
  <2>2. Min(Hits(best)) \in Hits(best) /\ Min(Hits(best)) \in Nat
    BY <1>4, <2>1
  <2>3. at < Min(Hits(best)) \/ at = Min(Hits(best))
    BY <2>2
  <2>4. \A n \in Hits(best) : Min(Hits(best)) <= n
    <3>1. Hits(best) # {} /\ Hits(best) \in SUBSET Nat
      BY <1>1
    <3>. HIDE DEF Hits
    <3>2. \E k \in Hits(best) : \A n \in Hits(best) : k <= n
      BY <3>1, LeastNumber
    <3>. QED
      BY <3>2 DEF Min
  <2>5. Min(Hits(best)) <= at
    BY <2>4
  <2>. QED
    BY <1>2, <2>2, <2>3, <2>5
<1>6. own \in places
  BY <1>5
<1>7. ASSUME NEW q \in places
      PROVE  /\ q = [at |-> q.at, len |-> q.len]
             /\ q.at \in Nat /\ q.len \in Nat
             /\ at < q.at \/ (at = q.at /\ Len(best) >= q.len)
  <2>1. PICK c \in there : q = [at |-> Min(Hits(c)), len |-> Len(c)]
    OBVIOUS
  <2>2. Min(Hits(c)) \in Hits(c) /\ Min(Hits(c)) \in Nat /\ Len(c) \in Nat
    BY <1>3, <1>4
  <2>3. at < Min(Hits(c)) \/ (at = Min(Hits(c)) /\ Len(best) >= Len(c))
    BY <2>2
  <2>. QED
    BY <2>1, <2>2, <2>3
<1>8. Len(best) \in Nat
  BY <1>3
<1>9. FirstFound(text, message, cursor) = CHOOSE p \in places : Best(p)
  BY <1>6 DEF FirstFound
<1>. HIDE DEF places
<1>10. Best(own)
  BY <1>7
<1>11. ASSUME NEW p \in places, Best(p) PROVE p = own
  <2>1. p.at < at \/ (p.at = at /\ p.len >= Len(best))
    BY <1>6, <1>11
  <2>2. p.at = at /\ p.len = Len(best)
    BY <1>2, <1>7, <1>8, <2>1
  <2>. QED
    BY <1>7, <2>2
<1>. HIDE DEF Best
<1>12. (CHOOSE p \in places : Best(p)) = own
  BY <1>6, <1>10, <1>11
<1>. QED
  BY <1>9, <1>12

\* A message of which no text is found is not found.
LEMMA FoundNone ==
  ASSUME NEW text, NEW message, NEW cursor,
         \A c \in Candidates(message) : Found(text, c, cursor) = {}
  PROVE  FirstFound(text, message, cursor) = [at |-> 0, len |-> 0]
BY DEF FirstFound

\* A turn ends where its end marker does.
LEMMA EndsAt ==
  ASSUME NEW text \in Seq(Symbol), NEW k \in Nat, k >= 1, k + 1 <= Len(text),
         text[k] = "<|im_end|>", text[k + 1] = "nl"
  PROVE  EndOfTurn(text, k) = k + 1
<1>. DEFINE places == Found(text, TurnEnd, k)
            n == Len(text)
<1>1. n \in Nat
  OBVIOUS
<1>2. TurnEnd \in Seq(Symbol) /\ Len(TurnEnd) = 2
      /\ TurnEnd[1] = "<|im_end|>" /\ TurnEnd[2] = "nl"
  BY DEF TurnEnd, Symbol, Markers
<1>3. IsAt(text, TurnEnd, k)
  <2>1. \A q \in 1..2 : text[k + q - 1] = TurnEnd[q]
    <3>1. \A q \in 1..2 : q = 1 \/ q = 2
      OBVIOUS
    <3>2. k + 1 - 1 = k /\ k + 2 - 1 = k + 1
      OBVIOUS
    <3>. QED
      BY <1>2, <3>1, <3>2
  <2>2. k + 2 - 1 <= Len(text)
    OBVIOUS
  <2>. QED
    BY <1>2, <2>1, <2>2, StandsAt
<1>4. k \in places /\ \A m \in places : k <= m /\ m \in Nat
  BY <1>1, <1>3 DEF Found
<1>. HIDE DEF places
<1>5. Min(places) = k
  <2>1. \E x \in places : \A y \in places : x <= y
    BY <1>4
  <2>2. Min(places) \in places /\ \A y \in places : Min(places) <= y
    BY <2>1 DEF Min
  <2>3. k <= Min(places) /\ Min(places) \in Nat /\ Min(places) <= k
    BY <1>4, <2>2, Zenon
  <2>. HIDE DEF Min
  <2>. QED
    BY <2>3
<1>. QED
  BY <1>2, <1>4, <1>5 DEF EndOfTurn, places

\* So do two texts of symbols.
LEMMA TextConcat ==
  ASSUME NEW s \in Seq(Symbol), NEW t \in Seq(Symbol)
  PROVE  /\ s \o t \in Seq(Symbol)
         /\ Len(s) \in Nat /\ Len(t) \in Nat
         /\ Len(s \o t) = Len(s) + Len(t)
         /\ \A p \in 1..Len(s) : (s \o t)[p] = s[p]
         /\ \A p \in 1..Len(t) : (s \o t)[Len(s) + p] = t[p]
BY ConcatFacts

\* A text with a thought begins with it and holds its end.
LEMMA TextParts ==
  ASSUME NEW e, e.think \in Seq(Symbol), e.say \in Seq(Symbol)
  PROVE  /\ e.think = <<>> => Text(e) = e.say
         /\ e.think # <<>> => /\ Text(e) # <<>>
                              /\ Text(e)[1] = e.think[1]
                              /\ \E q \in 1..Len(Text(e)) : Text(e)[q] = ThinkEnd
         /\ Len(e.say) <= Len(Text(e))
<1>1. CASE e.think = <<>>
  <2>1. Text(e) = e.say
    BY <1>1 DEF Text
  <2>2. Len(e.say) <= Len(e.say)
    OBVIOUS
  <2>. QED
    BY <1>1, <2>1, <2>2
<1>2. CASE e.think # <<>>
  <2>. DEFINE think == e.think
              say   == e.say
              mark  == <<ThinkEnd>>
              start == think \o mark
              whole == start \o say
  <2>1. ThinkEnd \in Symbol
    BY DEF Symbol, Markers
  <2>2. /\ mark \in Seq(Symbol) /\ Len(mark) = 1 /\ mark[1] = ThinkEnd
        /\ think \in Seq(Symbol) /\ Len(think) > 0
        /\ say \in Seq(Symbol)
    BY <1>2, <2>1
  <2>3. Text(e) = whole
    BY <1>2 DEF Text
  <2>. HIDE DEF think, say, mark
  <2>4. /\ start \in Seq(Symbol) /\ Len(think) \in Nat
        /\ Len(start) = Len(think) + Len(mark)
        /\ \A p \in 1..Len(think) : start[p] = think[p]
        /\ \A p \in 1..Len(mark) : start[Len(think) + p] = mark[p]
    <3>1. think \in Seq(Symbol) /\ mark \in Seq(Symbol)
      BY <2>2
    <3>. QED
      BY <3>1, TextConcat, Zenon
  <2>. HIDE DEF start
  <2>5. /\ Len(start) \in Nat /\ Len(say) \in Nat
        /\ Len(whole) = Len(start) + Len(say)
        /\ \A p \in 1..Len(start) : whole[p] = start[p]
    <3>1. start \in Seq(Symbol) /\ say \in Seq(Symbol)
      BY <2>2, <2>4
    <3>. QED
      BY <3>1, TextConcat, Zenon
  <2>. HIDE DEF whole
  <2>6. start[1] = think[1] /\ start[Len(think) + 1] = ThinkEnd
    BY <2>2, <2>4
  <2>7. /\ Len(whole) > 0 /\ whole[1] = think[1] /\ Len(say) <= Len(whole)
        /\ whole[Len(think) + 1] = ThinkEnd /\ Len(think) + 1 \in 1..Len(whole)
    BY <2>2, <2>4, <2>5, <2>6
  <2>8. whole # <<>>
    BY <2>7
  <2>. QED
    BY <1>2, <2>3, <2>7, <2>8 DEF think, say
<1>. QED
  BY <1>1, <1>2

\* A message the search can tell from the template and from other messages.
Apart(message) ==
    /\ BeginsApart(Text(message)) /\ BeginsApart(message.say)
    /\ HoldsNoThought(message.say)
    /\ message.role = "user" => message.think = <<>>
    /\ message.role = "assistant" => Text(message) # <<>>

\* A turn with this content stands in a text after its first b symbols.
TurnAt(text, b, content) ==
    /\ b + Len(content) + 5 <= Len(text)
    /\ \A p \in (b + 1)..(b + 3) : text[p] \in TemplateSymbols
    /\ \A q \in 1..Len(content) : text[b + 3 + q] = content[q]
    /\ text[b + Len(content) + 4] = "<|im_end|>"
    /\ text[b + Len(content) + 5] = "nl"

\* What begins apart is not found where the template's symbols are.
LEMMA NotBefore ==
  ASSUME NEW text \in Seq(Symbol), NEW part \in Seq(Symbol), part # <<>>,
         BeginsApart(part), NEW cursor \in Nat, cursor >= 1, NEW b \in Nat,
         \A p \in cursor..b : text[p] \in TemplateSymbols,
         NEW k \in Found(text, part, cursor)
  PROVE  k \in Nat /\ k > b
<1>1. k \in Nat /\ k >= cursor /\ IsAt(text, part, k)
  BY DEF Found
<1>2. Len(part) \in Nat /\ Len(part) >= 1
  OBVIOUS
<1>3. text[k + 1 - 1] = part[1]
  <2>1. \A q \in 1..Len(part) : text[k + q - 1] = part[q]
    BY <1>1, StandsAt
  <2>2. 1 \in 1..Len(part)
    BY <1>2
  <2>. QED
    BY <2>1, <2>2, Zenon
<1>4. text[k] = part[1]
  BY <1>1, <1>3
<1>5. text[k] \notin TemplateSymbols
  BY <1>4, Zenon DEF BeginsApart
<1>6. k \notin cursor..b
  BY <1>5, Zenon
<1>. QED
  BY <1>1, <1>6

\* The content of a turn is found where it stands.
LEMMA ContentFound ==
  ASSUME NEW text \in Seq(Symbol), NEW content \in Seq(Symbol), NEW b \in Nat,
         TurnAt(text, b, content), NEW cursor \in 1..(b + 1)
  PROVE  b + 4 \in Found(text, content, cursor)
<1>1. Len(content) \in Nat /\ Len(text) \in Nat /\ b + 4 \in Nat /\ b + 4 >= 1
  OBVIOUS
<1>2. /\ b + Len(content) + 5 <= Len(text)
      /\ \A q \in 1..Len(content) : text[b + 3 + q] = content[q]
  BY Zenon DEF TurnAt
<1>3. \A q \in 1..Len(content) : text[(b + 4) + q - 1] = content[q]
  <2>1. \A q \in 1..Len(content) : (b + 4) + q - 1 = b + 3 + q
    BY <1>1
  <2>. QED
    BY <1>2, <2>1
<1>4. (b + 4) + Len(content) - 1 <= Len(text)
  BY <1>1, <1>2
<1>5. IsAt(text, content, b + 4)
  BY <1>1, <1>3, <1>4, StandsAt
<1>6. b + 4 \in cursor..Len(text)
  BY <1>1, <1>2
<1>. QED
  BY <1>5, <1>6 DEF Found

\* The search has come to the turn of a message: only symbols of the template
\* are between its cursor and the turn.
Reached(text, message, keep, b, cursor) ==
    /\ Apart(message)
    /\ ~keep => HoldsNoThought(text)
    /\ TurnAt(text, b, Content(message, keep))
    /\ cursor \in 1..(b + 1)
    /\ \A p \in cursor..b : text[p] \in TemplateSymbols

\* The search for a message finds its turn, wherever else its text stands; an
\* assistant's is lost when the template left nothing of it.
LEMMA TurnFound ==
  ASSUME NEW text \in Seq(Symbol), NEW message \in Message, NEW keep \in BOOLEAN,
         NEW b \in Nat, NEW cursor, Reached(text, message, keep, b, cursor)
  PROVE  LET found == FirstFound(text, message, cursor)
         IN  \/ message.role = "assistant" /\ found.at = 0
             \/ found = [at |-> b + 4, len |-> Len(Content(message, keep))]
             \/ /\ message.role = "user" /\ Len(Content(message, keep)) = 0
                /\ found = [at |-> cursor, len |-> 0]
<1>. DEFINE found   == FirstFound(text, message, cursor)
            whole   == Text(message)
            say     == message.say
            content == Content(message, keep)
            lost    == message.role = "assistant" /\ found.at = 0
            there   == found = [at |-> b + 4, len |-> Len(content)]
            empty   == /\ message.role = "user" /\ Len(content) = 0
                       /\ found = [at |-> cursor, len |-> 0]
<1>0. /\ Apart(message)
      /\ ~keep => HoldsNoThought(text)
      /\ TurnAt(text, b, Content(message, keep))
      /\ cursor \in 1..(b + 1)
      /\ \A p \in cursor..b : text[p] \in TemplateSymbols
  BY Zenon DEF Reached
<1>1. /\ say \in Seq(Symbol) /\ message.think \in Seq(Symbol)
      /\ message.role \in {"user", "assistant"}
  BY DEF Message
<1>2. whole \in Seq(Symbol)
  BY <1>1, TextType
<1>3. /\ message.think = <<>> => whole = say
      /\ message.think # <<>> => \E q \in 1..Len(whole) : whole[q] = ThinkEnd
      /\ Len(say) <= Len(whole)
  BY <1>1, TextParts
<1>4. content \in Seq(Symbol) /\ (content = whole \/ content = say)
  BY <1>1, <1>2 DEF Content
<1>5. /\ cursor \in Nat /\ cursor >= 1 /\ b + 3 \in Nat
      /\ Len(whole) \in Nat /\ Len(say) \in Nat /\ Len(text) \in Nat
      /\ Len(content) \in Nat
  BY <1>0, <1>1, <1>2, <1>4
<1>6. b + 4 \in Found(text, content, cursor)
  BY <1>0, <1>4, ContentFound
<1>7. \A p \in cursor..(b + 3) : text[p] \in TemplateSymbols
  <2>1. \A p \in (b + 1)..(b + 3) : text[p] \in TemplateSymbols
    BY <1>0, Zenon DEF TurnAt
  <2>2. \A p \in cursor..(b + 3) : p \in cursor..b \/ p \in (b + 1)..(b + 3)
    BY <1>0, <1>5
  <2>. QED
    BY <1>0, <2>1, <2>2, Zenon
<1>8. ASSUME NEW c \in {whole, say}, c # <<>>, NEW k \in Found(text, c, cursor)
      PROVE  k \in Nat /\ b + 4 <= k
  <2>1. BeginsApart(c) /\ c \in Seq(Symbol)
    BY <1>0, <1>1, <1>2 DEF Apart
  <2>2. k \in Nat /\ k > b + 3
    BY <1>5, <1>7, <1>8, <2>1, NotBefore
  <2>. QED
    BY <2>2
<1>9. \A c \in Candidates(message) : c = whole \/ (c = say /\ say # <<>>)
  BY DEF Candidates
<1>10. whole \in Candidates(message)
  BY DEF Candidates
<1>. HIDE DEF whole, say, content
<1>11. ASSUME content \in Candidates(message), content # <<>>,
              \A c \in Candidates(message) :
                 /\ c # <<>>
                 /\ Found(text, c, cursor) = {} \/ Len(content) >= Len(c)
       PROVE  there
  <2>1. ASSUME NEW c \in Candidates(message), NEW k \in Found(text, c, cursor)
        PROVE  b + 4 < k \/ (b + 4 = k /\ Len(content) >= Len(c))
    <3>1. c \in {whole, say} /\ c # <<>> /\ Len(content) >= Len(c)
      BY <1>9, <1>11
    <3>2. k \in Nat /\ b + 4 <= k
      BY <1>8, <3>1
    <3>3. b + 4 < k \/ b + 4 = k
      BY <3>2
    <3>. QED
      BY <3>1, <3>3
  <2>. QED
    BY <1>5, <1>6, <1>11, <2>1, FoundBest
<1>12. CASE message.role = "user"
  <2>1. Candidates(message) = {whole} /\ content = whole
    BY <1>12 DEF Candidates, Content, whole, content
  <2>2. CASE whole = <<>>
    <3>1. Len(whole) = 0
      BY <1>2, <2>2
    <3>2. cursor \in Found(text, whole, cursor)
      <4>1. IsAt(text, whole, cursor)
        <5>1. cursor + 0 - 1 <= Len(text)
          <6>1. b + Len(content) + 5 <= Len(text)
            BY <1>0, Zenon DEF TurnAt, content
          <6>. QED
            BY <1>0, <1>5, <6>1
        <5>2. \A q \in 1..0 : text[cursor + q - 1] = whole[q]
          OBVIOUS
        <5>. QED
          BY <1>2, <1>5, <3>1, <5>1, <5>2, StandsAt
      <4>2. cursor \in cursor..Len(text)
        <5>1. b + Len(content) + 5 <= Len(text)
          BY <1>0, Zenon DEF TurnAt, content
        <5>. QED
          BY <1>0, <1>5, <5>1
      <4>. QED
        BY <4>1, <4>2 DEF Found
    <3>3. \A k \in Found(text, whole, cursor) : cursor < k \/ cursor = k
      BY <1>5 DEF Found
    <3>4. \A c \in Candidates(message) : \A k \in Found(text, c, cursor) :
             cursor < k \/ (cursor = k /\ Len(whole) >= Len(c))
      BY <1>5, <2>1, <3>3
    <3>5. FirstFound(text, message, cursor) = [at |-> cursor, len |-> Len(whole)]
      BY <1>5, <1>10, <3>2, <3>4, FoundBest
    <3>6. empty
      BY <1>12, <2>1, <3>1, <3>5
    <3>. QED
      BY <3>6 DEF content
  <2>3. CASE whole # <<>>
    <3>1. there
      BY <1>5, <1>11, <2>1, <2>3
    <3>. QED
      BY <3>1 DEF content
  <2>. QED
    BY <2>2, <2>3
<1>13. CASE message.role = "assistant"
  <2>1. whole # <<>>
    BY <1>0, <1>13 DEF Apart, whole
  <2>2. \A c \in Candidates(message) : c # <<>>
    BY <1>9, <2>1
  <2>3. CASE content = whole
    <3>1. \A c \in Candidates(message) : Len(content) >= Len(c)
      BY <1>3, <1>5, <1>9, <2>3
    <3>2. there
      BY <1>10, <1>11, <2>1, <2>2, <2>3, <3>1
    <3>. QED
      BY <3>2 DEF content
  <2>4. CASE content # whole
    <3>1. content = say /\ ~keep
      BY <1>4, <1>13, <2>4 DEF Content, content, whole, say
    <3>2. message.think # <<>>
      BY <1>3, <2>4, <3>1
    <3>3. PICK q \in 1..Len(whole) : whole[q] = ThinkEnd
      BY <1>3, <3>2
    <3>4. Found(text, whole, cursor) = {}
      <4>1. SUFFICES ASSUME NEW k \in Found(text, whole, cursor) PROVE FALSE
        OBVIOUS
      <4>2. k \in Nat /\ k >= 1 /\ IsAt(text, whole, k)
        BY <1>5 DEF Found
      <4>3. /\ k + Len(whole) - 1 <= Len(text)
            /\ text[k + q - 1] = whole[q]
        BY <1>2, <4>2, StandsAt
      <4>4. k + q - 1 \in 1..Len(text)
        BY <1>5, <4>2, <4>3
      <4>5. HoldsNoThought(text) /\ DOMAIN text = 1..Len(text)
        BY <1>0, <3>1
      <4>. QED
        BY <3>3, <4>3, <4>4, <4>5, Zenon DEF HoldsNoThought
    <3>5. CASE say = <<>>
      <4>1. \A c \in Candidates(message) : Found(text, c, cursor) = {}
        BY <1>9, <3>4, <3>5
      <4>2. FirstFound(text, message, cursor) = [at |-> 0, len |-> 0]
        BY <4>1, FoundNone
      <4>3. lost
        BY <1>13, <4>2
      <4>. QED
        BY <4>3
    <3>6. CASE say # <<>>
      <4>1. say \in Candidates(message)
        BY <1>13, <3>2, <3>6 DEF Candidates, say
      <4>2. \A c \in Candidates(message) :
               Found(text, c, cursor) = {} \/ Len(content) >= Len(c)
        BY <1>5, <1>9, <3>1, <3>4
      <4>3. there
        BY <1>11, <2>2, <3>1, <3>6, <4>1, <4>2
      <4>. QED
        BY <4>3 DEF content
    <3>. QED
      BY <3>5, <3>6
  <2>. QED
    BY <2>3, <2>4
<1>. QED
  BY <1>1, <1>12, <1>13

\* The positions of a turn after b symbols, from its content to its end.
TurnSpan(b, content) == (b + 4)..(b + Len(content) + 5)

\* The search for a message masks its turn, when it is the assistant's, and
\* leaves the cursor among the symbols before the next one.
LEMMA StepMasks ==
  ASSUME NEW text \in Seq(Symbol), NEW message \in Message, NEW keep \in BOOLEAN,
         NEW b \in Nat, NEW state \in SpanStates(Len(text)),
         Reached(text, message, keep, b, state.cursor),
         NEW next, next = SpanStep(text, state, message), ~next.lost,
         NEW end, end = b + Len(Content(message, keep)) + 5
  PROVE  /\ ~state.lost
         /\ next.mask = state.mask \cup
              (IF message.role = "assistant"
               THEN TurnSpan(b, Content(message, keep)) ELSE {})
         /\ next.cursor \in 1..(end + 1)
         /\ \A p \in next.cursor..end : text[p] \in TemplateSymbols
<1>. DEFINE m     == Len(Content(message, keep))
            cursor == state.cursor
            found == FirstFound(text, message, cursor)
<1>0. /\ TurnAt(text, b, Content(message, keep))
      /\ cursor \in 1..(b + 1)
      /\ \A p \in cursor..b : text[p] \in TemplateSymbols
  BY Zenon DEF Reached
<1>1. /\ cursor \in 1..(b + 1) /\ cursor \in Nat /\ cursor >= 1
      /\ state.lost \in BOOLEAN
  BY <1>0 DEF SpanStates
<1>2. m \in Nat /\ end = b + m + 5 /\ end \in Nat
  <2>1. message.say \in Seq(Symbol) /\ message.think \in Seq(Symbol)
    BY DEF Message
  <2>2. Text(message) \in Seq(Symbol)
    BY <2>1, TextType
  <2>3. Content(message, keep) \in Seq(Symbol)
    BY <2>1, <2>2 DEF Content
  <2>. QED
    BY <2>3
<1>3. \/ message.role = "assistant" /\ found.at = 0
      \/ found = [at |-> b + 4, len |-> m]
      \/ /\ message.role = "user" /\ m = 0
         /\ found = [at |-> cursor, len |-> 0]
  BY TurnFound, Zenon
<1>4. /\ end <= Len(text) /\ Len(text) \in Nat
      /\ \A p \in (b + 1)..(b + 3) : text[p] \in TemplateSymbols
      /\ text[b + m + 4] = "<|im_end|>" /\ text[b + m + 5] = "nl"
  <2>1. Len(text) \in Nat
    OBVIOUS
  <2>. QED
    BY <1>0, <1>2, <2>1 DEF TurnAt
<1>5. next =
        IF found.at = 0
        THEN [state EXCEPT !.lost = @ \/ message.role = "assistant"]
        ELSE [cursor |-> NextCursor(cursor, found),
              mask   |-> state.mask \cup
                            (IF message.role = "assistant"
                             THEN found.at..EndOfTurn(text, found.at + found.len)
                             ELSE {}),
              lost   |-> state.lost]
  BY DEF SpanStep
<1>6. message.role \in {"user", "assistant"}
  BY DEF Message
<1>7. \A p \in (b + m + 4)..end : text[p] \in TemplateSymbols
  <2>1. \A p \in (b + m + 4)..end : p = b + m + 4 \/ p = b + m + 5
    BY <1>2
  <2>. QED
    BY <1>4, <2>1 DEF TemplateSymbols
<1>. HIDE DEF m, cursor, found
<1>8. CASE message.role = "assistant" /\ found.at = 0
  <2>1. next = [state EXCEPT !.lost = state.lost \/ message.role = "assistant"]
    BY <1>5, <1>8
  <2>2. next.lost = (state.lost \/ message.role = "assistant")
    BY <2>1 DEF SpanStates
  <2>. QED
    BY <1>8, <2>2
<1>9. CASE found = [at |-> b + 4, len |-> m]
  <2>1. found.at = b + 4 /\ found.len = m /\ found.at # 0
    BY <1>9
  <2>2. EndOfTurn(text, found.at + found.len) = end
    <3>1. found.at + found.len = b + m + 4
      BY <1>2, <2>1
    <3>2. /\ b + m + 4 \in Nat /\ b + m + 4 >= 1 /\ (b + m + 4) + 1 = end
          /\ b + m + 5 = end
      BY <1>2
    <3>3. EndOfTurn(text, b + m + 4) = (b + m + 4) + 1
      BY <1>4, <3>2, EndsAt
    <3>. QED
      BY <3>1, <3>2, <3>3
  <2>3. next.cursor = b + m + 4
    <3>1. found.at + found.len = b + m + 4 /\ b + m + 4 > cursor
      BY <1>1, <1>2, <2>1
    <3>2. NextCursor(cursor, found) = b + m + 4
      BY <3>1 DEF NextCursor
    <3>. QED
      BY <1>5, <2>1, <3>2
  <2>4. /\ next.lost = state.lost
        /\ next.mask = state.mask \cup
             (IF message.role = "assistant" THEN (b + 4)..end ELSE {})
    BY <1>5, <2>1, <2>2
  <2>5. next.cursor \in 1..(end + 1)
    BY <1>2, <2>3
  <2>. QED
    BY <1>2, <1>7, <2>3, <2>4, <2>5 DEF TurnSpan, m
<1>10. CASE /\ message.role = "user" /\ m = 0
            /\ found = [at |-> cursor, len |-> 0]
  <2>1. found.at = cursor /\ found.len = 0 /\ found.at # 0
    BY <1>1, <1>10
  <2>2. NextCursor(cursor, found) = cursor
    <3>1. ~(found.at + found.len > cursor)
      BY <1>1, <2>1
    <3>. QED
      BY <3>1 DEF NextCursor
  <2>3. /\ next.cursor = cursor /\ next.lost = state.lost
        /\ next.mask = state.mask \cup {}
    BY <1>5, <1>10, <2>1, <2>2
  <2>4. ASSUME NEW p \in cursor..end PROVE text[p] \in TemplateSymbols
    <3>1. p \in cursor..b \/ p \in (b + 1)..(b + 3) \/ p \in (b + m + 4)..end
      BY <1>1, <1>2, <1>10
    <3>. QED
      BY <1>0, <1>4, <1>7, <3>1 DEF cursor
  <2>5. cursor \in 1..(end + 1)
    BY <1>1, <1>2
  <2>. QED
    BY <1>10, <2>3, <2>4, <2>5
<1>. QED
  BY <1>3, <1>8, <1>9, <1>10

\* What is lost stays lost.
LEMMA LostStays ==
  ASSUME NEW text, NEW message, NEW state \in SpanStates(Len(text)), state.lost
  PROVE  SpanStep(text, state, message).lost
BY DEF SpanStep, SpanStates

\* A text begins with the tag of a tool when its first symbol is the tag.
LEMMA BeginsWithTag ==
  ASSUME NEW text \in Seq(Symbol)
  PROVE  IsPrefix(<<ToolTag>>, text) <=> text # <<>> /\ text[1] = ToolTag
<1>. DEFINE tag  == <<ToolTag>>
            head == SubSeq(tag, 1, 1)
            begin == SubSeq(text, 1, 1)
<1>1. tag \in Seq(Symbol) /\ Len(tag) = 1 /\ tag[1] = ToolTag
  BY DEF Symbol, Markers
<1>2. CASE text = <<>>
  <2>1. Len(text) = 0
    BY <1>2
  <2>. HIDE DEF tag
  <2>2. ~(Len(tag) <= Len(text))
    BY <1>1, <2>1
  <2>3. ~IsPrefix(tag, text)
    BY <2>2, Zenon DEF IsPrefix
  <2>. QED
    BY <1>2, <2>3 DEF tag
<1>3. CASE text # <<>>
  <2>1. Len(text) \in Nat /\ Len(text) >= 1
    BY <1>3
  <2>. HIDE DEF tag
  <2>2. head \in Seq(Symbol) /\ Len(head) = 1 /\ head[1] = tag[1]
    BY <1>1
  <2>3. begin \in Seq(Symbol) /\ Len(begin) = 1 /\ begin[1] = text[1]
    BY <2>1
  <2>4. IsPrefix(tag, text) <=> head = begin
    BY <1>1, <2>1 DEF IsPrefix
  <2>. HIDE DEF head, begin
  <2>5. head[1] = begin[1] => head = begin
    BY <2>2, <2>3
  <2>. QED
    BY <1>1, <1>3, <2>2, <2>3, <2>4, <2>5 DEF tag
<1>. QED
  BY <1>2, <1>3

\* The message of an entry that stands apart does so.
LEMMA EntryApart ==
  ASSUME NEW e \in Entry, Text(e) # <<>>,
         BeginsApart(e.think), BeginsApart(e.say), HoldsNoThought(e.say),
         ~IsPrefix(<<ToolTag>>, e.think),
         NEW message,
         message = [role |-> Role(e), think |-> e.think, say |-> e.say]
  PROVE  Apart(message)
<1>1. /\ e.think \in Seq(Symbol) /\ e.say \in Seq(Symbol)
      /\ message.think = e.think /\ message.say = e.say /\ message.role = Role(e)
  BY DEF Entry
<1>2. Text(message) = Text(e)
  BY <1>1 DEF Text
<1>3. Text(e) \in Seq(Symbol)
  BY <1>1, TextType
<1>4. /\ e.think = <<>> => Text(e) = e.say
      /\ e.think # <<>> => Text(e) # <<>> /\ Text(e)[1] = e.think[1]
  BY <1>1, TextParts
<1>5. BeginsApart(Text(e))
  BY <1>4 DEF BeginsApart
<1>6. message.role = "user" => message.think = <<>>
  <2>1. SUFFICES ASSUME Role(e) = "user", e.think # <<>> PROVE FALSE
    BY <1>1
  <2>2. IsPrefix(<<ToolTag>>, Text(e))
    BY <2>1 DEF Role
  <2>3. Text(e)[1] = ToolTag
    BY <1>3, <2>2, BeginsWithTag
  <2>4. IsPrefix(<<ToolTag>>, e.think)
    BY <1>1, <1>4, <2>1, <2>3, BeginsWithTag
  <2>. QED
    BY <2>4
<1>. QED
  BY <1>1, <1>2, <1>5, <1>6 DEF Apart

\* So do the messages of a history whose texts stand apart.
LEMMA MessagesApart ==
  ASSUME TextsStandApart, NEW h \in DOMAIN Histories
  PROVE  \A i \in 1..Len(Messages(Histories[h])) : Apart(Messages(Histories[h])[i])
<1>. DEFINE history == Histories[h]
            spoken == {i \in DOMAIN history : Text(history[i]) # <<>>}
            kept   == Picked(history, spoken)
            prompt == [role |-> "user", think |-> <<>>, say |-> Prompt]
            Spoken(e) == [role |-> Role(e), think |-> e.think, say |-> e.say]
            rest   == [i \in DOMAIN kept |-> Spoken(kept[i])]
<1>1. history \in Seq(Entry)
  BY SftAssumption
<1>2. Messages(history) = <<prompt>> \o rest
  BY DEF Messages
<1>3. ASSUME NEW i \in DOMAIN history
      PROVE  /\ history[i] \in Entry
             /\ BeginsApart(history[i].think) /\ BeginsApart(history[i].say)
             /\ HoldsNoThought(history[i].say)
             /\ ~IsPrefix(<<ToolTag>>, history[i].think)
  BY <1>1 DEF TextsStandApart
<1>4. ASSUME NEW i \in spoken PROVE Apart(Spoken(history[i]))
  BY <1>3, EntryApart
<1>5. /\ kept \in Seq(Entry)
      /\ \A k \in 1..Len(kept) : \E i \in spoken : kept[k] = history[i]
  <2>1. spoken \in SUBSET (1..Len(history))
    BY <1>1
  <2>. HIDE DEF spoken, history
  <2>. QED
    BY <1>1, <2>1, PickedElements
<1>6. Apart(prompt)
  <2>1. Text(prompt) = Prompt
    BY DEF Text
  <2>. QED
    BY <2>1 DEF TextsStandApart, Apart
<1>. HIDE DEF history, spoken, kept, prompt, Spoken
<1>7. \A k \in 1..Len(kept) : Apart(rest[k])
  <2>1. ASSUME NEW k \in 1..Len(kept) PROVE Apart(rest[k])
    <3>1. PICK i \in spoken : kept[k] = history[i]
      BY <1>5
    <3>2. rest[k] = Spoken(history[i])
      BY <1>5, <3>1
    <3>. QED
      BY <1>4, <3>1, <3>2
  <2>. QED
    BY <2>1
<1>8. rest \in Seq({Spoken(kept[i]) : i \in 1..Len(kept)}) /\ Len(rest) = Len(kept)
  BY <1>5
<1>. HIDE DEF rest
<1>9. \A i \in 1..Len(<<prompt>> \o rest) :
         (<<prompt>> \o rest)[i] = prompt
         \/ \E k \in 1..Len(kept) : (<<prompt>> \o rest)[i] = rest[k]
  BY <1>5, <1>8
<1>. QED
  BY <1>2, <1>6, <1>7, <1>9 DEF history

\* A turn is a header, its content and an end marker.
LEMMA TurnParts ==
  ASSUME NEW message \in Message, NEW content \in Seq(Symbol), NEW keep,
         content = Content(message, keep), NEW turn, turn = RenderTurn(message, keep)
  PROVE  /\ turn \in Seq(Symbol) /\ Len(content) \in Nat
         /\ Len(turn) = Len(content) + 5
         /\ \A p \in 1..3 : turn[p] \in TemplateSymbols
         /\ \A q \in 1..Len(content) : turn[3 + q] = content[q]
         /\ turn[Len(content) + 4] = "<|im_end|>"
         /\ turn[Len(content) + 5] = "nl"
<1>. DEFINE head  == Header(message.role)
            start == head \o content
            m     == Len(content)
<1>1. /\ head \in Seq(Symbol) /\ Len(head) = 3
      /\ \A p \in 1..3 : head[p] \in TemplateSymbols
  <2>1. message.role \in {"user", "assistant"}
    BY DEF Message
  <2>2. \A x \in TemplateSymbols : x \in Symbol
    BY DEF TemplateSymbols, Symbol, Markers
  <2>3. "<|im_start|>" \in TemplateSymbols /\ "nl" \in TemplateSymbols
        /\ message.role \in TemplateSymbols
    BY <2>1 DEF TemplateSymbols
  <2>. QED
    BY <2>2, <2>3 DEF Header
<1>2. /\ TurnEnd \in Seq(Symbol) /\ Len(TurnEnd) = 2
      /\ TurnEnd[1] = "<|im_end|>" /\ TurnEnd[2] = "nl"
  BY DEF TurnEnd, Symbol, Markers
<1>3. turn = start \o TurnEnd
  BY DEF RenderTurn
<1>. HIDE DEF head
<1>4. /\ start \in Seq(Symbol) /\ m \in Nat
      /\ Len(start) = Len(head) + m
      /\ \A p \in 1..Len(head) : start[p] = head[p]
      /\ \A p \in 1..m : start[Len(head) + p] = content[p]
  <2>1. head \in Seq(Symbol)
    BY <1>1
  <2>. QED
    BY <2>1, TextConcat, Zenon
<1>. HIDE DEF start
<1>5. /\ start \o TurnEnd \in Seq(Symbol)
      /\ Len(start \o TurnEnd) = Len(start) + Len(TurnEnd)
      /\ \A p \in 1..Len(start) : (start \o TurnEnd)[p] = start[p]
      /\ \A p \in 1..Len(TurnEnd) : (start \o TurnEnd)[Len(start) + p] = TurnEnd[p]
  <2>1. start \in Seq(Symbol) /\ TurnEnd \in Seq(Symbol)
    BY <1>2, <1>4, Zenon
  <2>. QED
    BY <2>1, TextConcat, Zenon
<1>6. /\ turn \in Seq(Symbol) /\ Len(turn) = m + 5
      /\ \A p \in 1..(3 + m) : turn[p] = start[p]
      /\ turn[(3 + m) + 1] = TurnEnd[1] /\ turn[(3 + m) + 2] = TurnEnd[2]
  <2>1. Len(start) = 3 + m
    BY <1>1, <1>4
  <2>2. \A p \in 1..2 : turn[(3 + m) + p] = TurnEnd[p]
    BY <1>2, <1>3, <1>5, <2>1, Zenon
  <2>3. 1 \in 1..2 /\ 2 \in 1..2
    OBVIOUS
  <2>4. Len(turn) = 3 + m + 2
    BY <1>2, <1>3, <1>5, <2>1
  <2>. HIDE DEF m
  <2>. QED
    BY <1>3, <1>4, <1>5, <2>1, <2>2, <2>3, <2>4
<1>. HIDE DEF m
<1>7. \A p \in 1..3 : turn[p] \in TemplateSymbols
  BY <1>1, <1>4, <1>6
<1>8. \A q \in 1..m : turn[3 + q] = content[q]
  BY <1>1, <1>4, <1>6
<1>9. turn[m + 4] = "<|im_end|>" /\ turn[m + 5] = "nl"
  <2>1. m + 4 = (3 + m) + 1 /\ m + 5 = (3 + m) + 2
    BY <1>4
  <2>. QED
    BY <1>2, <1>6, <2>1
<1>. QED
  BY <1>4, <1>6, <1>7, <1>8, <1>9 DEF m

\* A text with a turn after its first symbols has it there.
LEMMA TurnStands ==
  ASSUME NEW before \in Seq(Symbol), NEW text \in Seq(Symbol),
         NEW message \in Message, NEW keep, Content(message, keep) \in Seq(Symbol),
         Begins(before \o RenderTurn(message, keep), text)
  PROVE  TurnAt(text, Len(before), Content(message, keep))
<1>. DEFINE content == Content(message, keep)
            turn    == RenderTurn(message, keep)
            b == Len(before)
            m == Len(content)
            whole == before \o turn
<1>1. /\ turn \in Seq(Symbol)
      /\ Len(turn) = m + 5 /\ m \in Nat
      /\ \A p \in 1..3 : turn[p] \in TemplateSymbols
      /\ \A q \in 1..m : turn[3 + q] = content[q]
      /\ turn[m + 4] = "<|im_end|>" /\ turn[m + 5] = "nl"
  BY TurnParts
<1>2. /\ b \in Nat /\ Len(whole) = b + Len(turn)
      /\ \A p \in 1..Len(turn) : whole[b + p] = turn[p]
  BY <1>1, TextConcat, Zenon
<1>3. Len(whole) <= Len(text) /\ \A p \in 1..Len(whole) : text[p] = whole[p]
  BY Zenon DEF Begins
<1>. HIDE DEF whole, b, m, turn, content
<1>4. Len(whole) = b + m + 5
  BY <1>1, <1>2
<1>5. \A p \in 1..(m + 5) : text[b + p] = turn[p]
  <2>1. \A p \in 1..(m + 5) : b + p \in 1..Len(whole)
    BY <1>1, <1>2, <1>4
  <2>. QED
    BY <1>1, <1>2, <1>3, <2>1
<1>6. \A p \in (b + 1)..(b + 3) : text[p] \in TemplateSymbols
  <2>1. ASSUME NEW p \in (b + 1)..(b + 3) PROVE text[p] \in TemplateSymbols
    <3>1. PICK q \in 1..3 : p = b + q
      <4>1. p - b \in 1..3 /\ p = b + (p - b)
        BY <1>2
      <4>. QED
        BY <4>1
    <3>2. q \in 1..(m + 5)
      BY <1>1
    <3>. QED
      BY <1>1, <1>5, <3>1, <3>2
  <2>. QED
    BY <2>1
<1>7. \A q \in 1..m : text[b + 3 + q] = content[q]
  <2>1. \A q \in 1..m : 3 + q \in 1..(m + 5) /\ b + (3 + q) = b + 3 + q
    BY <1>1, <1>2
  <2>. QED
    BY <1>1, <1>5, <2>1
<1>8. text[b + m + 4] = "<|im_end|>" /\ text[b + m + 5] = "nl"
  <2>1. /\ m + 4 \in 1..(m + 5) /\ m + 5 \in 1..(m + 5)
        /\ b + (m + 4) = b + m + 4 /\ b + (m + 5) = b + m + 5
    BY <1>1, <1>2
  <2>. QED
    BY <1>1, <1>5, <2>1
<1>9. TurnAt(text, b, content)
  BY <1>3, <1>4, <1>6, <1>7, <1>8, Zenon DEF TurnAt, m
<1>. QED
  BY <1>9 DEF b, content

\* Where the turns end: each stands in the text after the one before it.
TurnEnds(ends, messages, keep) ==
    /\ ends \in [0..Len(messages) -> Nat]
    /\ ends[0] = 0
    /\ \A i \in 1..Len(messages) :
          LET content == Content(messages[i], keep)
              span    == ContentSpan(messages, i, keep)
          IN  /\ ends[i] = ends[i - 1] + Len(content) + 5
              /\ TurnAt(Render(messages, keep), ends[i - 1], content)
              /\ span.first..span.last = TurnSpan(ends[i - 1], content)

\* The turns of a rendered text stand in it one after another, where their
\* spans say.
LEMMA RenderedTurns ==
  ASSUME NEW messages \in Seq(Message), NEW keep
  PROVE  \E ends : TurnEnds(ends, messages, keep)
<1>. DEFINE N     == Len(messages)
            turns == [i \in DOMAIN messages |-> RenderTurn(messages[i], keep)]
            text  == Render(messages, keep)
            Cont(i) == Content(messages[i], keep)
<1>1. N \in Nat /\ DOMAIN messages = 1..N /\ \A i \in 1..N : messages[i] \in Message
  OBVIOUS
<1>2. ASSUME NEW i \in 1..N PROVE Cont(i) \in Seq(Symbol)
  <2>1. messages[i].say \in Seq(Symbol) /\ messages[i].think \in Seq(Symbol)
    BY <1>1 DEF Message
  <2>2. Text(messages[i]) \in Seq(Symbol)
    BY <2>1, TextType
  <2>. QED
    BY <2>1, <2>2 DEF Content
<1>3. ASSUME NEW i \in 1..N PROVE turns[i] \in Seq(Symbol)
  <2>1. RenderTurn(messages[i], keep) \in Seq(Symbol)
    BY <1>1, <1>2, TurnParts
  <2>. QED
    BY <1>1, <2>1
<1>4. turns \in Seq(Seq(Symbol)) /\ Len(turns) = N
  BY <1>1, <1>3
<1>5. \A i \in 1..N : turns[i] = RenderTurn(messages[i], keep)
  BY <1>1
<1>6. text = FlattenSeq(turns)
  BY DEF Render
<1>7. ASSUME NEW n \in 0..N
      PROVE  Render(SubSeq(messages, 1, n), keep) = FlattenSeq(SubSeq(turns, 1, n))
  <2>. DEFINE first == SubSeq(messages, 1, n)
              part  == [i \in DOMAIN first |-> RenderTurn(first[i], keep)]
  <2>1. DOMAIN first = 1..n /\ \A i \in 1..n : first[i] = messages[i]
    BY <1>1
  <2>2. SubSeq(turns, 1, n) = [i \in 1..n |-> turns[i]]
    <3>. HIDE DEF turns
    <3>. QED
      BY <1>1, <1>4
  <2>3. \A i \in 1..n : i \in 1..N
    BY <1>1
  <2>. HIDE DEF first, turns
  <2>4. part = [i \in 1..n |-> turns[i]]
    BY <1>5, <2>1, <2>3
  <2>. QED
    BY <2>2, <2>4 DEF Render, first
<1>. HIDE DEF turns, N, text, Cont
<1>8. PICK f : f \in TextsSoFar(turns, Symbol)
  BY <1>4, TextSoFarExists
<1>9. /\ f[0] = <<>>
      /\ \A i \in 0..N : f[i] \in Seq(Symbol) /\ Len(f[i]) \in Nat
      /\ \A i \in 1..N : f[i] = f[i - 1] \o turns[i]
  BY <1>4, <1>8, TextsSoFarFacts, Zenon
<1>10. f[N] = text
  BY <1>4, <1>6, <1>8, FlattenUnfolds
<1>11. \A n \in 0..N : Begins(f[n], text)
  <2>1. \A n \in 0..Len(turns) : Begins(f[n], f[Len(turns)])
    BY <1>4, <1>8, TextSoFarBegins, Zenon
  <2>2. f[Len(turns)] = text /\ Len(turns) = N
    BY <1>4, <1>10
  <2>. QED
    BY <2>1, <2>2
<1>12. \A n \in 0..N : Render(SubSeq(messages, 1, n), keep) = f[n]
  BY <1>4, <1>7, <1>8, FlattenPrefix, Zenon
<1>. DEFINE ends == [i \in 0..N |-> Len(f[i])]
<1>13. ends \in [0..N -> Nat] /\ ends[0] = 0
  BY <1>1, <1>9
<1>14. \A i \in 1..N : i \in 0..N /\ i - 1 \in 0..N
  BY <1>1
<1>15. ASSUME NEW i \in 1..N
       PROVE  LET content == Content(messages[i], keep)
                  span    == ContentSpan(messages, i, keep)
              IN  /\ ends[i] = ends[i - 1] + Len(content) + 5
                  /\ TurnAt(Render(messages, keep), ends[i - 1], content)
                  /\ span.first..span.last = TurnSpan(ends[i - 1], content)
  <2>. DEFINE before == f[i - 1]
              turn   == turns[i]
              span   == ContentSpan(messages, i, keep)
  <2>1. /\ before \in Seq(Symbol) /\ turn \in Seq(Symbol) /\ text \in Seq(Symbol)
        /\ Cont(i) \in Seq(Symbol) /\ messages[i] \in Message
    <3>1. f[i - 1] \in Seq(Symbol)
      BY <1>9, <1>14
    <3>2. text \in Seq(Symbol)
      <4>1. N \in 0..N
        BY <1>1
      <4>. QED
        BY <1>9, <1>10, <4>1
    <3>. QED
      BY <1>1, <1>2, <1>3, <3>1, <3>2
  <2>2. f[i] = before \o turn /\ turn = RenderTurn(messages[i], keep)
    BY <1>5, <1>9
  <2>3. Begins(before \o turn, text)
    BY <1>11, <1>14, <2>2
  <2>. HIDE DEF before
  <2>4. /\ TurnAt(text, Len(before), Cont(i))
        /\ Len(before \o turn) = Len(before) + Len(Cont(i)) + 5
    <3>1. Begins(before \o RenderTurn(messages[i], keep), text)
      BY <2>2, <2>3
    <3>2. /\ TurnAt(text, Len(before), Content(messages[i], keep))
          /\ Len(before \o RenderTurn(messages[i], keep))
               = Len(before) + Len(Content(messages[i], keep)) + 5
      <4>1. PICK message \in Message : message = messages[i]
        BY <2>1
      <4>2. PICK whole : whole = text
        OBVIOUS
      <4>3. Content(message, keep) \in Seq(Symbol) /\ whole \in Seq(Symbol)
        BY <2>1, <4>1, <4>2 DEF Cont
      <4>4. Begins(before \o RenderTurn(message, keep), whole)
        BY <3>1, <4>1, <4>2
      <4>5. before \in Seq(Symbol)
        BY <2>1
      <4>6. TurnAt(whole, Len(before), Content(message, keep))
        BY <4>3, <4>4, <4>5, TurnStands, Zenon
      <4>7. Len(before \o RenderTurn(message, keep))
              = Len(before) + Len(Content(message, keep)) + 5
        <5>. DEFINE turned == RenderTurn(message, keep)
                    size   == Len(Content(message, keep))
        <5>1. turned \in Seq(Symbol) /\ size \in Nat /\ Len(turned) = size + 5
          BY <4>3, TurnParts
        <5>2. Len(before \o turned) = Len(before) + Len(turned)
              /\ Len(before) \in Nat
          BY <4>5, <5>1, TextConcat, Zenon
        <5>. HIDE DEF turned, size
        <5>3. Len(before \o turned) = Len(before) + size + 5
          BY <5>1, <5>2
        <5>. QED
          BY <5>3 DEF turned, size
      <4>. QED
        BY <4>1, <4>2, <4>6, <4>7
    <3>. QED
      BY <2>2, <3>2 DEF Cont
  <2>. HIDE DEF turn
  <2>5. ends[i] = Len(before \o turn) /\ ends[i - 1] = Len(before)
    BY <1>14, <2>2 DEF before
  <2>6. /\ span.first = Len(before) + 4
        /\ span.last = Len(before) + Len(Cont(i)) + 5
    <3>1. Render(SubSeq(messages, 1, i - 1), keep) = before
      BY <1>12, <1>14 DEF before
    <3>2. Len(Header(messages[i].role)) = 3 /\ Len(TurnEnd) = 2
      BY DEF Header, TurnEnd
    <3>3. Len(before) \in Nat /\ Len(Cont(i)) \in Nat
      BY <2>1
    <3>4. /\ span.first = Len(before) + 3 + 1
          /\ span.last = Len(before) + 3 + 1 + Len(Cont(i)) + 2 - 1
      BY <3>1, <3>2 DEF ContentSpan, Cont
    <3>. QED
      BY <3>3, <3>4
  <2>. HIDE DEF ends, span
  <2>7. span.first..span.last = TurnSpan(ends[i - 1], Cont(i))
    BY <2>5, <2>6 DEF TurnSpan
  <2>8. /\ ends[i] = ends[i - 1] + Len(Cont(i)) + 5
        /\ TurnAt(text, ends[i - 1], Cont(i))
    BY <2>4, <2>5
  <2>. QED
    BY <2>7, <2>8 DEF span, Cont, text
<1>. HIDE DEF ends
<1>16. TurnEnds(ends, messages, keep)
  BY <1>13, <1>15, Zenon DEF TurnEnds, N
<1>. QED
  BY <1>16

\* A template that leaves out the thoughts leaves no end of one.
LEMMA NoThoughtLeft ==
  ASSUME NEW messages \in Seq(Message),
         \A i \in 1..Len(messages) : Apart(messages[i])
  PROVE  HoldsNoThought(Render(messages, FALSE))
<1>. DEFINE S     == Symbol \ {ThinkEnd}
            turns == [i \in DOMAIN messages |-> RenderTurn(messages[i], FALSE)]
<1>1. ASSUME NEW i \in DOMAIN messages PROVE turns[i] \in Seq(S)
  <2>. DEFINE message == messages[i]
              head    == Header(message.role)
              content == Content(message, FALSE)
  <2>1. message \in Message /\ Apart(message)
    OBVIOUS
  <2>. HIDE DEF message
  <2>2. message.role \in {"user", "assistant"} /\ message.say \in Seq(Symbol)
    BY <2>1 DEF Message
  <2>3. message.role = "user" => Text(message) = message.say
    BY <2>1 DEF Apart, Text
  <2>4. content = message.say
    BY <2>2, <2>3 DEF Content
  <2>5. content \in Seq(S)
    <3>1. \A p \in 1..Len(message.say) : message.say[p] \in S
      BY <2>1, <2>2 DEF Apart, HoldsNoThought
    <3>2. PICK say \in Seq(Symbol) : say = message.say
      BY <2>2
    <3>3. \A p \in 1..Len(say) : say[p] \in S
      BY <3>1, <3>2
    <3>. HIDE DEF S
    <3>4. say \in Seq(S)
      BY <3>3
    <3>. QED
      BY <2>4, <3>2, <3>4
  <2>6. head \in Seq(S)
    <3>1. "<|im_start|>" \in S /\ "nl" \in S /\ message.role \in S
      BY <2>2 DEF Symbol, Markers, ThinkEnd
    <3>. QED
      BY <3>1 DEF Header
  <2>7. TurnEnd \in Seq(S)
    <3>1. "<|im_end|>" \in S /\ "nl" \in S
      BY DEF Symbol, Markers, ThinkEnd
    <3>. QED
      BY <3>1 DEF TurnEnd
  <2>8. turns[i] = head \o content \o TurnEnd
    BY DEF RenderTurn, message
  <2>. HIDE DEF head, content, S, turns
  <2>. QED
    BY <2>5, <2>6, <2>7, <2>8
<1>2. turns \in Seq(Seq(S))
  <2>1. DOMAIN turns = 1..Len(messages) /\ DOMAIN messages = 1..Len(messages)
        /\ turns = [i \in 1..Len(messages) |-> turns[i]]
    OBVIOUS
  <2>. HIDE DEF S, turns
  <2>2. \A i \in 1..Len(messages) : turns[i] \in Seq(S)
    BY <1>1, <2>1
  <2>3. Len(messages) \in Nat
    OBVIOUS
  <2>. QED
    BY <2>1, <2>2, <2>3
<1>. HIDE DEF turns, S
<1>3. FlattenSeq(turns) \in Seq(S)
  BY <1>2, FlattenType
<1>4. \A p \in DOMAIN FlattenSeq(turns) : FlattenSeq(turns)[p] \in S
  BY <1>3
<1>. QED
  BY <1>4 DEF Render, turns, S, HoldsNoThought

\* The assistant turns among these messages.
AssistantTurns(messages, keep, places) ==
    UNION {LET span == ContentSpan(messages, i, keep) IN span.first..span.last :
              i \in {j \in places : messages[j].role = "assistant"}}

\* One more message adds its turn, when it is the assistant's.
LEMMA OneMoreTurn ==
  ASSUME NEW messages, NEW keep, NEW n \in Nat
  PROVE  AssistantTurns(messages, keep, 1..(n + 1))
           = AssistantTurns(messages, keep, 1..n) \cup
               (IF messages[n + 1].role = "assistant"
                THEN LET span == ContentSpan(messages, n + 1, keep)
                     IN  span.first..span.last
                ELSE {})
<1>1. \A i : i \in 1..(n + 1) <=> i \in 1..n \/ i = n + 1
  OBVIOUS
<1>. DEFINE Span(i) == LET span == ContentSpan(messages, i, keep)
                       IN  span.first..span.last
            Of(places) == {j \in places : messages[j].role = "assistant"}
<1>2. \A places : AssistantTurns(messages, keep, places)
                    = UNION {Span(i) : i \in Of(places)}
  BY DEF AssistantTurns
<1>. HIDE DEF Span
<1>3. CASE messages[n + 1].role = "assistant"
  <2>1. \A i : i \in Of(1..(n + 1)) <=> i \in Of(1..n) \/ i = n + 1
    BY <1>1, <1>3
  <2>. HIDE DEF Of
  <2>2. UNION {Span(i) : i \in Of(1..(n + 1))}
          = (UNION {Span(i) : i \in Of(1..n)}) \cup Span(n + 1)
    BY <2>1
  <2>. QED
    BY <1>2, <1>3, <2>2 DEF Span
<1>4. CASE messages[n + 1].role # "assistant"
  <2>1. Of(1..(n + 1)) = Of(1..n)
    BY <1>1, <1>4
  <2>. QED
    BY <1>2, <1>4, <2>1
<1>. QED
  BY <1>3, <1>4

\* The loss of a history whose texts stand apart is on the assistant turns, if
\* none of them was lost.
LEMMA LossOnTurns ==
  ASSUME TextsStandApart, NEW h \in DOMAIN Histories, NEW keep \in BOOLEAN,
         ~LossSpans(Messages(Histories[h]), keep).lost
  PROVE  LossSpans(Messages(Histories[h]), keep).mask
           = AssistantTurns(Messages(Histories[h]), keep,
                            DOMAIN Messages(Histories[h]))
<1>. DEFINE messages == Messages(Histories[h])
            text     == Render(messages, keep)
            N        == Len(messages)
            Cont(i)  == Content(messages[i], keep)
<1>1. messages \in Seq(Message)
  <2>1. Histories[h] \in Seq(Entry)
    BY SftAssumption
  <2>. QED
    BY <2>1, MessagesType
<1>2. \A i \in 1..N : Apart(messages[i])
  BY MessagesApart
<1>. HIDE DEF messages
<1>3. /\ N \in Nat /\ DOMAIN messages = 1..N
      /\ \A i \in 1..N : messages[i] \in Message
  BY <1>1
<1>4. text \in Seq(Symbol)
  BY <1>1, RenderType
<1>5. ~keep => HoldsNoThought(text)
  <2>1. ~keep => keep = FALSE
    OBVIOUS
  <2>. QED
    BY <1>1, <1>2, <2>1, NoThoughtLeft
<1>6. PICK f : Searches(f, text, messages) /\ LossSpans(messages, keep) = f[N]
  BY <1>1, LossSpansSteps
<1>7. PICK ends : TurnEnds(ends, messages, keep)
  BY <1>1, RenderedTurns
<1>8. /\ f \in [0..N -> SpanStates(Len(text))]
      /\ f[0] = [cursor |-> 1, mask |-> {}, lost |-> FALSE]
      /\ \A i \in 1..N : f[i] = SpanStep(text, f[i - 1], messages[i])
  BY <1>6, Zenon DEF Searches
<1>9. /\ ends \in [0..N -> Nat] /\ ends[0] = 0
      /\ \A i \in 1..N :
            /\ ends[i] = ends[i - 1] + Len(Cont(i)) + 5
            /\ TurnAt(text, ends[i - 1], Cont(i))
            /\ LET span == ContentSpan(messages, i, keep)
               IN  span.first..span.last = TurnSpan(ends[i - 1], Cont(i))
  BY <1>7, Zenon DEF TurnEnds
<1>. DEFINE Good(n) ==
              /\ f[n].cursor \in 1..(ends[n] + 1)
              /\ \A p \in f[n].cursor..ends[n] : text[p] \in TemplateSymbols
              /\ f[n].mask = AssistantTurns(messages, keep, 1..n)
            T == {n \in Nat : n <= N => f[n].lost \/ Good(n)}
<1>. HIDE DEF text, N, Cont
<1>10. 0 \in T
  <2>1. AssistantTurns(messages, keep, 1..0) = {}
    BY DEF AssistantTurns
  <2>2. f[0].cursor = 1 /\ f[0].mask = {} /\ ends[0] = 0
    BY <1>8, <1>9
  <2>3. Good(0)
    BY <2>1, <2>2
  <2>. QED
    BY <2>3
<1>11. ASSUME NEW n \in Nat, n \in T PROVE n + 1 \in T
  <2>1. SUFFICES ASSUME n + 1 <= N, ~f[n + 1].lost PROVE Good(n + 1)
    BY DEF T
  <2>2. n + 1 \in 1..N /\ (n + 1) - 1 = n /\ n \in 0..N
    BY <1>3, <2>1
  <2>. DEFINE message == messages[n + 1]
              content == Content(message, keep)
              state   == f[n]
              next    == f[n + 1]
              b       == ends[n]
              end     == ends[n + 1]
  <2>3. next = SpanStep(text, state, message) /\ state \in SpanStates(Len(text))
    BY <1>8, <2>2
  <2>4. ~state.lost
    BY <2>1, <2>3, LostStays
  <2>5. Good(n)
    BY <1>3, <1>11, <2>2, <2>4
  <2>6. /\ message \in Message /\ Apart(message)
        /\ b \in Nat
        /\ TurnAt(text, b, content)
        /\ end = b + Len(content) + 5
        /\ LET span == ContentSpan(messages, n + 1, keep)
           IN  span.first..span.last = TurnSpan(b, content)
    <3>1. message \in Message /\ Apart(message)
      BY <1>2, <1>3, <2>2 DEF N
    <3>2. b \in Nat
      BY <1>9, <2>2
    <3>. QED
      BY <1>9, <2>2, <3>1, <3>2 DEF Cont
  <2>7. Reached(text, message, keep, b, state.cursor)
    BY <1>5, <2>5, <2>6 DEF Reached
  <2>. HIDE DEF message, content, state, next, b, end
  <2>8. /\ next.mask = state.mask \cup
             (IF message.role = "assistant" THEN TurnSpan(b, content) ELSE {})
        /\ next.cursor \in 1..(end + 1)
        /\ \A p \in next.cursor..end : text[p] \in TemplateSymbols
    BY <1>4, <2>1, <2>3, <2>6, <2>7, StepMasks DEF content, next
  <2>9. next.mask = AssistantTurns(messages, keep, 1..(n + 1))
    <3>1. state.mask = AssistantTurns(messages, keep, 1..n)
      BY <2>5 DEF state
    <3>2. AssistantTurns(messages, keep, 1..(n + 1))
            = AssistantTurns(messages, keep, 1..n) \cup
               (IF messages[n + 1].role = "assistant"
                THEN LET span == ContentSpan(messages, n + 1, keep)
                     IN  span.first..span.last
                ELSE {})
      BY OneMoreTurn
    <3>. QED
      BY <2>6, <2>8, <3>1, <3>2 DEF message
  <2>. QED
    BY <2>8, <2>9 DEF next, end
<1>12. f[N].lost \/ Good(N)
  <2>. HIDE DEF T
  <2>1. \A n \in Nat : n \in T
    BY <1>10, <1>11, Induction
  <2>2. N \in T /\ N <= N
    BY <1>3, <2>1
  <2>. QED
    BY <2>2 DEF T
<1>13. ~f[N].lost
  BY <1>6 DEF messages, N
<1>14. f[N].mask = AssistantTurns(messages, keep, 1..N)
  BY <1>12, <1>13
<1>. QED
  BY <1>3, <1>6, <1>14 DEF messages, N

-----------------------------------------------------------------------------
(* The inductive invariant                                                 *)

\* The rows and what is tokenized of them do not change.
Inputs ==
    /\ selected \in Seq(DOMAIN Histories)
    /\ tokenized = [h \in DOMAIN Histories |-> Serialized(h, keeps)]
    /\ sameCode \in BOOLEAN

\* The records of the rows that fit, repeated up to whole batches.
Cached ==
    [i \in DOMAIN Upsample(Fitting, batchSize) |->
        Record(Upsample(Fitting, batchSize)[i])]

\* A batch that is sized has rows enough, each of them with a turn; the
\* records are there from the cache to the end.
Sizing ==
    /\ phase \in {"size", "cache", "ranks", "over"}
    /\ outcome \in {"none", "skipped", "raised", "trained"}
    /\ batchSize \in Nat
    /\ batchSize > 0 =>
          /\ \A i \in DOMAIN selected : HasAssistantTurn(Histories[selected[i]])
          /\ batchSize % MinSelectedRows(WorldSize, MicroBatch) = 0
          /\ batchSize >= MinSelectedRows(WorldSize, MicroBatch)
          /\ batchSize <= Len(Fitting)
    /\ phase = "size" => batchSize = 0
    /\ phase \in {"cache", "ranks"} => batchSize > 0
    /\ records # <<>> => batchSize > 0 /\ records = Cached
    /\ phase \in {"size", "cache"} => records = <<>>
    /\ phase = "ranks" => records # <<>>

\* Batches of an epoch.
StepsIn == Len(records) \div batchSize

\* Where a rank stands tells how many steps were taken: all batches of the
\* epochs before its own, and those of its own up to its batch.
RankAt(k, drawn, steps) ==
    /\ k.epoch <= drawn
    /\ k.pc = "load" => k.epoch = 0 /\ k.step = 0
    /\ k.pc = "epoch" => k.step = k.epoch * steps
    /\ k.pc \in {"fetch", "step"} =>
          /\ k.epoch >= 1
          /\ k.batch <= steps
          /\ k.step = (k.epoch - 1) * steps + k.batch
    /\ k.pc = "step" => k.batch < steps
    /\ k.pc \in {"load", "epoch", "fetch", "step"} => k.step < Epochs * steps
    /\ k.pc = "done" => k.epoch = Epochs /\ k.step = Epochs * steps

\* What a rank keeps.
RankType == [pc : {"load", "epoch", "fetch", "step", "done", "failed"},
             epoch : 0..Epochs, batch : Nat, step : Nat]

\* The ranks have taken the same steps, and the last one is saved.
Lockstep ==
    /\ rank \in [Ranks -> RankType]
    /\ \A r \in Ranks : rank[r].step = rank[0].step
    /\ shuffles \in Seq(Shuffles(records, batchSize))
    /\ Len(shuffles) <= Epochs
    /\ records = <<>> =>
          /\ \A r \in Ranks : rank[r].pc = "load" /\ rank[r].epoch = 0 /\ rank[r].step = 0
          /\ shuffles = <<>>
          /\ checkpoint = 0
    /\ records # <<>> =>
          /\ \A r \in Ranks : RankAt(rank[r], Len(shuffles), StepsIn)
          /\ checkpoint = IF rank[0].step = Epochs * StepsIn THEN rank[0].step ELSE 0

\* A rank fails by itself, or because the cache is of another code; a step
\* that is not trained well was cached with a text lost, or lost a rank.
Ends ==
    /\ failures \in 0..MaxFailures
    /\ \A r \in Ranks : rank[r].pc = "failed" => failures > 0 \/ ~sameCode
    /\ phase # "over" => outcome = "none"
    /\ outcome = "trained" => records # <<>> /\ \A r \in Ranks : rank[r].pc = "done"
    /\ phase = "over" /\ batchSize > 0 /\ outcome # "trained" =>
          \/ ~NothingIsLost
          \/ \E r \in Ranks : rank[r].pc = "failed"

\* Place p of a shuffle is of the batch it is in, and of the rank it falls to.
BlockOf(p) == ((p - 1) \div WorldSize) \div PerRank

LessonStep(e, p) == (e - 1) * StepsIn + BlockOf(p) + 1

Lesson(e, p) ==
    [epoch |-> e, record |-> shuffles[e][p], rank |-> (p - 1) % WorldSize,
     step |-> LessonStep(e, p)]

\* What was trained is what the shuffles hold up to the last step, each place
\* of a shuffle in the step and at the rank that it falls to.
Lessons ==
    /\ records = <<>> => trained = {}
    /\ records # <<>> =>
          /\ \A t \in trained :
                \E e \in 1..Len(shuffles), p \in 1..Len(records) :
                    LessonStep(e, p) <= rank[0].step /\ t = Lesson(e, p)
          /\ \A e \in 1..Len(shuffles), p \in 1..Len(records) :
                LessonStep(e, p) <= rank[0].step => Lesson(e, p) \in trained

IInv == Inputs /\ Sizing /\ Lockstep /\ Ends /\ Lessons

-----------------------------------------------------------------------------
(* The arithmetic of the sampler                                           *)

\* A number below a product is in one of its blocks.
LEMMA BlockBelow ==
  ASSUME NEW size \in Nat, size > 0, NEW count \in Nat,
         NEW x \in Nat, x < count * size
  PROVE  /\ x \div size \in 0..(count - 1) /\ x % size \in 0..(size - 1)
         /\ x = (x \div size) * size + (x % size)
<1>1. PICK q \in Int : q = x \div size
  OBVIOUS
<1>2. x = q * size + (x % size) /\ x % size \in 0..(size - 1)
  BY <1>1
<1>3. q >= 0
  <2>1. SUFFICES ASSUME q <= -1 PROVE FALSE
    OBVIOUS
  <2>2. q * size <= -size
    BY <2>1
  <2>. QED
    BY <1>2, <2>2
<1>4. q < count
  <2>1. SUFFICES ASSUME q >= count PROVE FALSE
    OBVIOUS
  <2>2. PICK d \in Nat : q = count + d
    <3>1. q - count \in Nat /\ q = count + (q - count)
      BY <2>1
    <3>. QED
      BY <3>1
  <2>3. q * size = count * size + d * size /\ d * size >= 0
    BY <2>2
  <2>4. count * size \in Int /\ q * size \in Int /\ d * size \in Int
    BY <2>2
  <2>. QED
    BY <1>2, <2>3, <2>4
<1>. QED
  BY <1>1, <1>2, <1>3, <1>4

\* The remainder of a number that is so much above a multiple.
LEMMA RemainderOf ==
  ASSUME NEW x \in Nat, NEW size \in Nat, size > 0, NEW q \in Nat,
         NEW a \in 0..(size - 1), x = q * size + a
  PROVE  x % size = a
<1>1. x \div size = q
  BY QuotientOf
<1>2. x = (x \div size) * size + (x % size)
  OBVIOUS
<1>3. q * size \in Int /\ x % size \in Int
  OBVIOUS
<1>. QED
  BY <1>1, <1>2, <1>3

\* The places of a shuffle, by batch, place in the batch of a rank, and rank.
LEMMA PlaceOfBatch ==
  ASSUME NEW ranks \in Nat, ranks > 0, NEW share \in Nat, share > 0,
         NEW b \in Nat, NEW a \in 0..(share - 1), NEW r \in 0..(ranks - 1),
         NEW x, x = (b * share + a) * ranks + r
  PROVE  /\ x \in Nat /\ x % ranks = r
         /\ (x \div ranks) \div share = b
<1>. DEFINE q == b * share + a
<1>1. q \in Nat
  <2>1. b * share \in Nat
    OBVIOUS
  <2>. QED
    BY <2>1
<1>2. q \div share = b
  BY <1>1, QuotientOf
<1>. HIDE DEF q
<1>3. x \in Nat /\ x = q * ranks + r
  <2>1. q * ranks \in Nat
    BY <1>1
  <2>2. x = q * ranks + r
    BY DEF q
  <2>. QED
    BY <2>1, <2>2
<1>4. x \div ranks = q /\ x % ranks = r
  BY <1>1, <1>3, QuotientOf, RemainderOf
<1>. QED
  BY <1>2, <1>3, <1>4

\* Every place of a shuffle is in a batch of a rank.
LEMMA BatchOfPlace ==
  ASSUME NEW ranks \in Nat, ranks > 0, NEW share \in Nat, share > 0,
         NEW steps \in Nat, NEW x \in Nat, x < steps * (share * ranks)
  PROVE  /\ x % ranks \in 0..(ranks - 1)
         /\ (x \div ranks) \div share \in 0..(steps - 1)
         /\ (x \div ranks) % share \in 0..(share - 1)
         /\ x = (((x \div ranks) \div share) * share + ((x \div ranks) % share)) * ranks
                  + (x % ranks)
<1>. DEFINE count == steps * share
            q     == x \div ranks
<1>1. count \in Nat /\ steps * (share * ranks) = count * ranks
  OBVIOUS
<1>. HIDE DEF count
<1>2. /\ q \in 0..(count - 1) /\ x % ranks \in 0..(ranks - 1)
      /\ x = q * ranks + (x % ranks)
  BY <1>1, BlockBelow
<1>. HIDE DEF q
<1>3. q \in Nat /\ q < steps * share
  BY <1>1, <1>2 DEF count
<1>4. /\ q \div share \in 0..(steps - 1) /\ q % share \in 0..(share - 1)
      /\ q = (q \div share) * share + (q % share)
  BY <1>3, BlockBelow
<1>. QED
  BY <1>2, <1>4 DEF q

\* An injection of 1..n into itself reaches every number.
LEMMA Permutes ==
  ASSUME NEW n \in Nat, NEW o \in [1..n -> 1..n], IsInjective(o), NEW i \in 1..n
  PROVE  \E p \in 1..n : o[p] = i
<1>. DEFINE S == 1..n
<1>1. IsFiniteSet(S) /\ Cardinality(S) = n
  BY FS_Interval
<1>2. o \in [S -> S] /\ i \in S
  OBVIOUS
<1>. HIDE DEF S
<1>3. o \in Injection(S, S)
  BY <1>2 DEF Injection, IsInjective
<1>4. o \in Surjection(S, S)
  BY <1>1, <1>3, FS_Injection
<1>. QED
  BY <1>2, <1>4 DEF Surjection, S

-----------------------------------------------------------------------------
(* Sizes                                                                   *)

\* The numbers of the configuration are positive.
LEMMA Numbers ==
  /\ WorldSize \in Nat /\ WorldSize > 0 /\ MicroBatch \in Nat /\ MicroBatch > 0
  /\ RequestedBatch \in Nat /\ Epochs \in Nat /\ Epochs > 0
  /\ LengthLimit \in Nat /\ MaxFailures \in Nat
  /\ MinSelectedRows(WorldSize, MicroBatch) \in Nat
  /\ MinSelectedRows(WorldSize, MicroBatch) > 0
  /\ MinSelectedRows(WorldSize, MicroBatch) = WorldSize * MicroBatch
<1>1. /\ WorldSize \in Nat /\ WorldSize > 0 /\ MicroBatch \in Nat /\ MicroBatch > 0
      /\ RequestedBatch \in Nat /\ Epochs \in Nat /\ Epochs > 0
      /\ LengthLimit \in Nat /\ MaxFailures \in Nat
  BY SftAssumption
<1>2. WorldSize * MicroBatch \in Nat /\ WorldSize * MicroBatch > 0
  BY <1>1
<1>. QED
  BY <1>1, <1>2 DEF MinSelectedRows

\* Rank 0 is a rank.
LEMMA FirstRank == 0 \in Ranks /\ \A r \in Ranks : r \in Nat
BY Numbers DEF Ranks

\* The rows that fit are selected rows within the budget.
LEMMA FittingRows ==
  ASSUME Inputs
  PROVE  /\ Fitting \in Seq(DOMAIN Histories)
         /\ \A i \in 1..Len(Fitting) :
               /\ FitsBudget(Fitting[i])
               /\ \E j \in DOMAIN selected : Fitting[i] = selected[j]
<1>. DEFINE places == {i \in DOMAIN selected : FitsBudget(selected[i])}
<1>1. selected \in Seq(DOMAIN Histories) /\ places \in SUBSET (1..Len(selected))
  BY DEF Inputs
<1>2. Fitting = Picked(selected, places)
  BY DEF Fitting
<1>3. \A i \in places : i \in DOMAIN selected /\ FitsBudget(selected[i])
  OBVIOUS
<1>. HIDE DEF places
<1>4. /\ Fitting \in Seq(DOMAIN Histories)
      /\ \A k \in 1..Len(Fitting) : \E i \in places : Fitting[k] = selected[i]
  BY <1>1, <1>2, PickedElements
<1>5. ASSUME NEW k \in 1..Len(Fitting)
      PROVE  FitsBudget(Fitting[k]) /\ \E j \in DOMAIN selected : Fitting[k] = selected[j]
  <2>1. PICK i \in places : Fitting[k] = selected[i]
    BY <1>4
  <2>. QED
    BY <1>3, <2>1
<1>. QED
  BY <1>4, <1>5

\* The type of a record of the cache.
RecordType ==
    [history : DOMAIN Histories, length : Nat, mask : SUBSET (1..LengthLimit)]

\* The record of a row within the budget.
LEMMA RecordOfType ==
  ASSUME Inputs, NEW h \in DOMAIN Histories, FitsBudget(h)
  PROVE  Record(h) \in RecordType
<1>. DEFINE n    == tokenized[h].length
            mask == tokenized[h].loss.mask
<1>1. tokenized[h] = Serialized(h, keeps)
  BY DEF Inputs
<1>2. n \in Nat /\ mask \in SUBSET (1..n)
  BY <1>1, SerializedType
<1>3. n <= LengthLimit
  BY DEF FitsBudget
<1>4. Record(h) = [history |-> h, length |-> n, mask |-> mask]
  BY DEF Record
<1>. HIDE DEF n, mask
<1>5. \A k \in mask : k \in 1..LengthLimit
  BY <1>2, <1>3, Numbers
<1>. QED
  BY <1>2, <1>4, <1>5 DEF RecordType

\* The cached records are the rows that fit, all of them and no others, in
\* whole batches.
LEMMA CachedRecords ==
  ASSUME Inputs, Sizing, batchSize > 0
  PROVE  /\ Cached \in Seq(RecordType)
         /\ Len(Cached) >= batchSize
         /\ Len(Cached) % batchSize = 0
         /\ \A i \in 1..Len(Cached) :
               /\ Upsample(Fitting, batchSize)[i] \in DOMAIN Histories
               /\ FitsBudget(Upsample(Fitting, batchSize)[i])
               /\ \E j \in 1..Len(Fitting) : Upsample(Fitting, batchSize)[i] = Fitting[j]
         /\ \A j \in 1..Len(Fitting) :
               \E i \in 1..Len(Cached) : Upsample(Fitting, batchSize)[i] = Fitting[j]
         /\ DOMAIN Upsample(Fitting, batchSize) = 1..Len(Cached)
<1>. DEFINE rows == Upsample(Fitting, batchSize)
            n    == Len(Fitting)
<1>1. /\ Fitting \in Seq(DOMAIN Histories) /\ n \in Nat
      /\ \A i \in 1..n : Fitting[i] \in DOMAIN Histories /\ FitsBudget(Fitting[i])
  BY FittingRows
<1>2. batchSize \in Nat /\ batchSize <= n /\ n > 0
  BY <1>1 DEF Sizing
<1>3. /\ rows \in Seq(DOMAIN Histories)
      /\ Len(rows) >= n
      /\ Len(rows) % batchSize = 0
      /\ \A i \in 1..n : rows[i] = Fitting[i]
      /\ \A i \in 1..Len(rows) : i > n => i - n \in 1..n /\ rows[i] = Fitting[i - n]
  BY <1>1, <1>2, UpsampleWhole
<1>4. Cached = [i \in DOMAIN rows |-> Record(rows[i])]
  BY DEF Cached
<1>. HIDE DEF rows, n
<1>5. DOMAIN rows = 1..Len(rows) /\ Len(rows) \in Nat
  BY <1>3
<1>6. ASSUME NEW i \in 1..Len(rows)
      PROVE  \E j \in 1..n : rows[i] = Fitting[j]
  <2>1. CASE i <= n
    BY <1>1, <1>3, <2>1
  <2>2. CASE i > n
    BY <1>3, <2>2
  <2>. QED
    BY <1>1, <1>5, <2>1, <2>2
<1>7. \A i \in 1..Len(rows) : rows[i] \in DOMAIN Histories /\ FitsBudget(rows[i])
  BY <1>1, <1>6
<1>8. Cached \in Seq(RecordType) /\ Len(Cached) = Len(rows)
  <2>1. \A i \in 1..Len(rows) : Record(rows[i]) \in RecordType
    BY <1>7, RecordOfType
  <2>. QED
    BY <1>4, <1>5, <2>1
<1>9. \A j \in 1..n : j \in 1..Len(rows) /\ rows[j] = Fitting[j]
  BY <1>1, <1>3, <1>5
<1>10. \A i \in 1..Len(Cached) :
          /\ rows[i] \in DOMAIN Histories /\ FitsBudget(rows[i])
          /\ \E j \in 1..n : rows[i] = Fitting[j]
  BY <1>6, <1>7, <1>8
<1>11. \A j \in 1..n : \E i \in 1..Len(Cached) : rows[i] = Fitting[j]
  BY <1>8, <1>9, Zenon
<1>12. Len(Cached) >= batchSize
  BY <1>1, <1>2, <1>3, <1>5, <1>8
<1>13. Len(Cached) % batchSize = 0 /\ DOMAIN rows = 1..Len(Cached)
  BY <1>3, <1>5, <1>8, Zenon
<1>. QED
  BY <1>8, <1>10, <1>11, <1>12, <1>13, Zenon DEF rows, n

\* Cached records make so many steps of an epoch, each of a share of every rank.
LEMMA CachedSizes ==
  ASSUME Inputs, Sizing, batchSize > 0
  PROVE  /\ PerRank \in Nat /\ PerRank > 0 /\ batchSize = PerRank * WorldSize
         /\ Len(Cached) \div batchSize \in Nat /\ Len(Cached) \div batchSize > 0
         /\ Len(Cached) \in Nat
         /\ Len(Cached) = (Len(Cached) \div batchSize) * (PerRank * WorldSize)
         /\ Cached \in Seq(RecordType)
         /\ Len(Cached) >= MinSelectedRows(WorldSize, MicroBatch)
<1>. DEFINE n == Len(Cached)
<1>1. batchSize \in Nat /\ batchSize > 0
  BY DEF Sizing
<1>2. /\ Cached \in Seq(RecordType) /\ n \in Nat
      /\ n >= batchSize /\ n % batchSize = 0
  BY <1>1, CachedRecords
<1>3. PICK q \in Int : batchSize = q * (WorldSize * MicroBatch)
  <2>1. batchSize % (WorldSize * MicroBatch) = 0 /\ batchSize \in Int
    BY <1>1, Numbers DEF Sizing
  <2>. DEFINE divisor == WorldSize * MicroBatch
  <2>2. divisor \in Nat /\ divisor > 0
    BY Numbers
  <2>. HIDE DEF divisor
  <2>3. \E q \in Int : batchSize = q * divisor
    BY <2>1, <2>2, MultipleOf, Zenon DEF divisor
  <2>. QED
    BY <2>3 DEF divisor
<1>4. batchSize = (q * MicroBatch) * WorldSize /\ q * MicroBatch \in Int
  BY <1>3, Numbers
<1>5. PerRank = q * MicroBatch /\ PerRank \in Nat /\ PerRank > 0
  <2>. DEFINE p == q * MicroBatch
  <2>1. p \in Int /\ batchSize = p * WorldSize
    BY <1>4
  <2>. HIDE DEF p
  <2>2. p > 0
    <3>1. SUFFICES ASSUME p <= 0 PROVE FALSE
      BY <2>1
    <3>2. p * WorldSize <= 0
      BY <2>1, <3>1, Numbers
    <3>. QED
      BY <1>1, <2>1, <3>2
  <2>3. batchSize = p * WorldSize + 0 /\ 0 \in 0..(WorldSize - 1) /\ p \in Nat
    BY <1>1, <2>1, <2>2, Numbers
  <2>4. batchSize \div WorldSize = p
    BY <1>1, <2>3, Numbers, QuotientOf
  <2>. QED
    BY <2>2, <2>3, <2>4 DEF PerRank, p
<1>6. batchSize = PerRank * WorldSize
  BY <1>4, <1>5
<1>7. PICK m \in Int : n = m * batchSize
  <2>1. n \in Int /\ n % batchSize = 0
    BY <1>2
  <2>. HIDE DEF n
  <2>. QED
    BY <1>1, <2>1, MultipleOf, Zenon
<1>8. m \in Nat /\ m > 0 /\ n \div batchSize = m
  <2>. HIDE DEF n
  <2>1. m > 0
    <3>1. SUFFICES ASSUME m <= 0 PROVE FALSE
      OBVIOUS
    <3>2. m * batchSize <= 0
      BY <1>1, <3>1
    <3>. QED
      BY <1>1, <1>2, <1>7, <3>2
  <2>2. n = m * batchSize + 0 /\ 0 \in 0..(batchSize - 1) /\ m \in Nat
    BY <1>1, <1>2, <1>7, <2>1
  <2>3. n \div batchSize = m
    BY <1>1, <1>2, <2>2, QuotientOf
  <2>. QED
    BY <2>1, <2>2, <2>3
<1>9. n >= MinSelectedRows(WorldSize, MicroBatch)
  BY <1>1, <1>2, Numbers DEF Sizing
<1>. QED
  BY <1>2, <1>5, <1>6, <1>7, <1>8, <1>9

\* So do the records the ranks train on.
LEMMA StepSizes ==
  ASSUME Inputs, Sizing, records # <<>>
  PROVE  /\ PerRank \in Nat /\ PerRank > 0 /\ batchSize = PerRank * WorldSize
         /\ StepsIn \in Nat /\ StepsIn > 0
         /\ Len(records) \in Nat
         /\ Len(records) = StepsIn * (PerRank * WorldSize)
         /\ records \in Seq(RecordType)
         /\ Len(records) >= MinSelectedRows(WorldSize, MicroBatch)
<1>1. batchSize > 0 /\ records = Cached
  BY DEF Sizing
<1>. QED
  BY <1>1, CachedSizes DEF StepsIn

\* A shuffle permutes the records, and a rank finds as many batches in it as
\* every other.
LEMMA ShuffleFacts ==
  ASSUME Inputs, Sizing, records # <<>>, NEW order \in Shuffles(records, batchSize),
         NEW r
  PROVE  /\ order \in [1..Len(records) -> 1..Len(records)]
         /\ IsInjective(order)
         /\ RankSamples(order, r) = [k \in 1..(StepsIn * PerRank) |->
                                        (k - 1) * WorldSize + r + 1]
         /\ RankBatches(order, r, PerRank) = StepsIn
<1>. DEFINE n == Len(records)
            m == StepsIn * PerRank
<1>1. /\ PerRank \in Nat /\ PerRank > 0 /\ StepsIn \in Nat /\ n \in Nat
      /\ n = StepsIn * (PerRank * WorldSize) /\ DOMAIN records = 1..n
      /\ WorldSize \in Nat /\ WorldSize > 0
  BY StepSizes, Numbers
<1>2. order \in [1..n -> 1..n] /\ IsInjective(order)
  BY <1>1 DEF Shuffles
<1>3. Len(order) = n
  BY <1>1, <1>2
<1>4. m \in Nat /\ n = m * WorldSize + 0
  BY <1>1
<1>. HIDE DEF n, m
<1>5. n \div WorldSize = m
  <2>1. 0 \in 0..(WorldSize - 1)
    BY <1>1
  <2>. QED
    BY <1>1, <1>4, <2>1, QuotientOf
<1>6. RankSamples(order, r) = [k \in 1..m |-> (k - 1) * WorldSize + r + 1]
  BY <1>3, <1>5 DEF RankSamples
<1>7. Len(RankSamples(order, r)) = m
  BY <1>4, <1>6
<1>8. m \div PerRank = StepsIn
  <2>1. 0 \in 0..(PerRank - 1) /\ m = StepsIn * PerRank + 0
    BY <1>1, <1>4 DEF m
  <2>. QED
    BY <1>1, <1>4, <2>1, QuotientOf
<1>9. RankBatches(order, r, PerRank) = StepsIn
  BY <1>7, <1>8 DEF RankBatches
<1>. QED
  BY <1>2, <1>6, <1>9 DEF n, m

\* Every place of a shuffle is of a batch of the epoch.
LEMMA BlockFacts ==
  ASSUME Inputs, Sizing, records # <<>>, NEW p \in 1..Len(records)
  PROVE  /\ BlockOf(p) \in 0..(StepsIn - 1)
         /\ \A e \in Nat : e >= 1 => LessonStep(e, p) = (e - 1) * StepsIn + BlockOf(p) + 1
         /\ \A e \in Nat : e >= 1 => LessonStep(e, p) \in Nat
<1>1. /\ PerRank \in Nat /\ PerRank > 0 /\ StepsIn \in Nat /\ Len(records) \in Nat
      /\ Len(records) = StepsIn * (PerRank * WorldSize)
      /\ WorldSize \in Nat /\ WorldSize > 0
  BY StepSizes, Numbers
<1>. DEFINE x == p - 1
<1>2. x \in Nat /\ x < StepsIn * (PerRank * WorldSize)
  BY <1>1
<1>3. BlockOf(p) = (x \div WorldSize) \div PerRank
  BY DEF BlockOf
<1>. HIDE DEF x
<1>4. BlockOf(p) \in 0..(StepsIn - 1)
  BY <1>1, <1>2, <1>3, BatchOfPlace
<1>5. ASSUME NEW e \in Nat, e >= 1
      PROVE  /\ LessonStep(e, p) = (e - 1) * StepsIn + BlockOf(p) + 1
             /\ LessonStep(e, p) \in Nat
  <2>1. (e - 1) * StepsIn \in Nat
    <3>1. e - 1 \in Nat
      BY <1>5
    <3>. QED
      BY <1>1, <3>1
  <2>. QED
    BY <1>4, <2>1 DEF LessonStep
<1>. QED
  BY <1>4, <1>5

-----------------------------------------------------------------------------
(* The steps before the ranks                                              *)

\* The invariant holds at the start.
LEMMA InvInit == Init => IInv
<1>. SUFFICES ASSUME Init PROVE IInv
  OBVIOUS
<1>1. Inputs
  <2>1. selected \in Seq(DOMAIN Histories)
    BY DEF Init, BoundedSeq, SeqOf
  <2>. QED
    BY <2>1 DEF Init, Inputs
<1>2. Sizing
  BY DEF Init, Sizing
<1>3. Lockstep
  <2>1. shuffles \in Seq(Shuffles(records, batchSize)) /\ Len(shuffles) <= Epochs
    BY Numbers DEF Init
  <2>. QED
    BY <2>1, Numbers, FirstRank DEF Init, Lockstep, RankType
<1>4. Ends
  BY Numbers DEF Init, Ends
<1>5. Lessons
  BY DEF Init, Lessons
<1>. QED
  BY <1>1, <1>2, <1>3, <1>4, <1>5 DEF IInv

\* What the facts about rows and sizes read does not change.
LEMMA FrameKeeps ==
  ASSUME Inputs, UNCHANGED <<inputs, batchSize, records>>
  PROVE  /\ Inputs' /\ Fitting' = Fitting /\ Cached' = Cached
         /\ PerRank' = PerRank /\ StepsIn' = StepsIn
         /\ NothingIsLost' = NothingIsLost
<1>1. UNCHANGED <<selected, keeps, tokenized, sameCode, batchSize, records>>
  BY DEF inputs
<1>2. Inputs'
  BY <1>1 DEF Inputs
<1>3. Fitting' = Fitting
  BY <1>1 DEF Fitting, FitsBudget
<1>4. Cached' = Cached
  BY <1>1, <1>3 DEF Cached, Record
<1>. QED
  BY <1>1, <1>2, <1>3, <1>4 DEF PerRank, StepsIn, NothingIsLost

\* The size of the batch fits the rows and the ranks.
LEMMA SizeBatchKeeps ==
  ASSUME IInv, SizeBatch
  PROVE  IInv'
<1>. DEFINE count   == Len(Fitting)
            divisor == MinSelectedRows(WorldSize, MicroBatch)
            size    == EffectiveTrainBatchSize(RequestedBatch, count, divisor)
<1>1. /\ Inputs /\ Sizing /\ Lockstep /\ Ends /\ Lessons
      /\ phase = "size" /\ records = <<>> /\ batchSize = 0
      /\ UNCHANGED <<inputs, records, shuffles, rank, trained, checkpoint, failures>>
  BY DEF IInv, Sizing, SizeBatch
<1>2. UNCHANGED <<selected, keeps, tokenized, sameCode>>
  BY <1>1 DEF inputs
<1>3. /\ Inputs' /\ Fitting' = Fitting
  BY <1>1, <1>2 DEF Inputs, Fitting, FitsBudget
<1>4. shuffles = <<>> /\ shuffles' = <<>> /\ trained' = {} /\ records' = <<>>
  BY <1>1 DEF Lockstep, Lessons
<1>5. Lockstep'
  <2>1. shuffles' \in Seq(Shuffles(records', batchSize'))
    BY <1>4
  <2>. QED
    BY <1>1, <1>4, <2>1 DEF Lockstep
<1>6. Lessons'
  BY <1>4 DEF Lessons
<1>7. count \in Nat
  BY <1>1, FittingRows
<1>8. CASE (End("raised") \/ End("skipped")) /\ UNCHANGED batchSize
  <2>1. /\ phase' = "over" /\ batchSize' = 0
        /\ outcome' \in {"skipped", "raised"}
    BY <1>1, <1>8 DEF End
  <2>2. Sizing'
    BY <1>4, <2>1 DEF Sizing
  <2>3. Ends'
    BY <1>1, <1>2, <2>1 DEF Ends
  <2>. QED
    BY <1>3, <1>5, <1>6, <2>2, <2>3 DEF IInv
<1>9. CASE /\ ~ \E i \in DOMAIN selected : ~HasAssistantTurn(Histories[selected[i]])
           /\ count >= divisor
           /\ batchSize' = size /\ phase' = "cache" /\ UNCHANGED outcome
  <2>1. /\ size \in Nat /\ size % divisor = 0 /\ size <= count
        /\ size >= divisor /\ size > 0
    <3>. HIDE DEF count, divisor
    <3>1. divisor \in Nat /\ divisor > 0
      BY Numbers DEF divisor
    <3>. DEFINE fits == EffectiveTrainBatchSize(RequestedBatch, count, divisor)
    <3>2. /\ fits \in Nat /\ fits % divisor = 0 /\ fits <= count
          /\ count >= divisor => fits >= divisor
      BY <1>7, <3>1, Numbers, BatchSizeFits
    <3>. QED
      BY <1>9, <3>1, <3>2
  <2>. HIDE DEF size
  <2>2. Sizing'
    BY <1>1, <1>2, <1>3, <1>4, <1>9, <2>1 DEF Sizing
  <2>3. Ends'
    BY <1>1, <1>2, <1>9 DEF Ends
  <2>. QED
    BY <1>3, <1>5, <1>6, <2>2, <2>3 DEF IInv
<1>. QED
  <2>1. \/ End("raised") /\ UNCHANGED batchSize
        \/ End("skipped") /\ UNCHANGED batchSize
        \/ /\ ~ \E i \in DOMAIN selected : ~HasAssistantTurn(Histories[selected[i]])
           /\ ~(count < divisor)
           /\ batchSize' = size /\ phase' = "cache" /\ UNCHANGED outcome
    <3>. HIDE DEF size, divisor, count
    <3>. QED
      BY DEF SizeBatch, size, divisor, count
  <2>2. ~(count < divisor) => count >= divisor
    BY <1>7, Numbers
  <2>. QED
    BY <1>8, <1>9, <2>1, <2>2

\* The cache holds the rows that fit, or a text of theirs is lost.
LEMMA WriteTokenCacheKeeps ==
  ASSUME IInv, WriteTokenCache
  PROVE  IInv'
<1>. DEFINE rows == Upsample(Fitting, batchSize)
<1>1. /\ Inputs /\ Sizing /\ Lockstep /\ Ends /\ Lessons
      /\ phase = "cache" /\ records = <<>> /\ batchSize > 0 /\ batchSize \in Nat
      /\ UNCHANGED <<inputs, batchSize, shuffles, rank, trained, checkpoint, failures>>
  BY DEF IInv, Sizing, WriteTokenCache
<1>2. UNCHANGED <<selected, keeps, tokenized, sameCode>>
  BY <1>1 DEF inputs
<1>3. Inputs' /\ Fitting' = Fitting /\ Cached' = Cached /\ NothingIsLost' = NothingIsLost
  <2>1. Inputs' /\ Fitting' = Fitting
    BY <1>1, <1>2 DEF Inputs, Fitting, FitsBudget
  <2>. QED
    BY <1>1, <1>2, <2>1 DEF Cached, Record, NothingIsLost
<1>4. shuffles = <<>> /\ shuffles' = <<>> /\ trained = {} /\ trained' = {}
  BY <1>1 DEF Lockstep, Lessons
<1>5. /\ Cached \in Seq(RecordType) /\ Len(Cached) >= batchSize
      /\ \A i \in 1..Len(Cached) :
            /\ rows[i] \in DOMAIN Histories
            /\ FitsBudget(rows[i])
            /\ \E j \in 1..Len(Fitting) : rows[i] = Fitting[j]
      /\ DOMAIN rows = 1..Len(Cached)
  BY <1>1, CachedRecords
<1>6. Cached # <<>>
  BY <1>1, <1>5
<1>7. Cached = [i \in DOMAIN rows |-> Record(rows[i])]
  BY DEF Cached
<1>. HIDE DEF rows
<1>8. CASE \E i \in DOMAIN rows : RecordRaises(rows[i]) /\ End("raised") /\ UNCHANGED records
  <2>1. PICK i \in 1..Len(Cached) : RecordRaises(rows[i])
    BY <1>5, <1>8
  <2>2. ~NothingIsLost
    <3>1. PICK j \in 1..Len(Fitting) : rows[i] = Fitting[j]
      BY <1>5
    <3>2. PICK k \in DOMAIN selected : Fitting[j] = selected[k]
      BY <1>1, FittingRows
    <3>3. HasAssistantTurn(Histories[rows[i]])
      BY <1>1, <3>1, <3>2 DEF Sizing
    <3>4. tokenized[Fitting[j]].loss.lost
      BY <1>5, <2>1, <3>1, <3>3 DEF RecordRaises
    <3>5. j \in DOMAIN Fitting
      BY <1>1, FittingRows
    <3>. QED
      BY <3>4, <3>5 DEF NothingIsLost
  <2>3. /\ phase' = "over" /\ outcome' = "raised" /\ records' = <<>>
    BY <1>1, <1>8 DEF End
  <2>4. Sizing'
    BY <1>1, <1>2, <1>3, <2>3 DEF Sizing
  <2>5. Lockstep'
    <3>1. shuffles' \in Seq(Shuffles(records', batchSize'))
      BY <1>4
    <3>. QED
      BY <1>1, <1>4, <2>3, <3>1 DEF Lockstep
  <2>6. Ends'
    BY <1>1, <1>2, <1>3, <2>2, <2>3 DEF Ends
  <2>7. Lessons'
    BY <1>4, <2>3 DEF Lessons
  <2>. QED
    BY <1>3, <2>4, <2>5, <2>6, <2>7 DEF IInv
<1>9. CASE /\ records' = Cached /\ phase' = "ranks" /\ UNCHANGED outcome
  <2>1. Sizing'
    BY <1>1, <1>2, <1>3, <1>6, <1>9 DEF Sizing
  <2>2. /\ StepsIn' \in Nat /\ StepsIn' > 0
    <3>1. StepsIn' = Len(Cached) \div batchSize
      BY <1>1, <1>9 DEF StepsIn
    <3>. QED
      BY <1>1, <3>1, CachedSizes
  <2>3. Lockstep'
    <3>1. shuffles' \in Seq(Shuffles(records', batchSize'))
      BY <1>4
    <3>2. /\ \A r \in Ranks : rank'[r].pc = "load" /\ rank'[r].epoch = 0 /\ rank'[r].step = 0
          /\ checkpoint' = 0
      BY <1>1 DEF Lockstep
    <3>3. Epochs * StepsIn' \in Nat /\ Epochs * StepsIn' > 0
      <4>. DEFINE m == StepsIn'
      <4>1. m \in Nat /\ m > 0
        BY <2>2
      <4>. HIDE DEF m
      <4>2. Epochs * m \in Nat /\ Epochs * m > 0
        BY <4>1, Numbers
      <4>. QED
        BY <4>2 DEF m
    <3>4. \A r \in Ranks : RankAt(rank'[r], Len(shuffles'), StepsIn')
      BY <1>4, <3>2, <3>3 DEF RankAt
    <3>5. records' # <<>>
      BY <1>6, <1>9
    <3>. QED
      BY <1>1, <1>4, <3>1, <3>2, <3>3, <3>4, <3>5, FirstRank DEF Lockstep
  <2>4. Ends'
    BY <1>1, <1>2, <1>9 DEF Ends
  <2>5. Lessons'
    BY <1>4 DEF Lessons
  <2>. QED
    BY <1>3, <2>1, <2>3, <2>4, <2>5 DEF IInv
<1>. QED
  <2>1. \/ \E i \in DOMAIN rows : RecordRaises(rows[i]) /\ End("raised") /\ UNCHANGED records
        \/ records' = [i \in DOMAIN rows |-> Record(rows[i])] /\ phase' = "ranks"
           /\ UNCHANGED outcome
    BY DEF WriteTokenCache, rows
  <2>. QED
    BY <1>7, <1>8, <1>9, <2>1
-----------------------------------------------------------------------------
(* The steps of the ranks                                                  *)

\* A rank that moves by itself, and may draw the shuffle of its next epoch,
\* takes no step of the training.
LEMMA MoveKeeps ==
  ASSUME IInv, phase = "ranks",
         UNCHANGED <<inputs, phase, outcome, batchSize, records, trained, checkpoint>>,
         failures' \in 0..MaxFailures, failures' >= failures,
         NEW q \in Ranks, NEW k \in RankType, rank' = [rank EXCEPT ![q] = k],
         k.step = rank[q].step, RankAt(k, Len(shuffles'), StepsIn),
         k.pc = "failed" => failures' > 0 \/ ~sameCode,
         \/ UNCHANGED shuffles
         \/ /\ \E order \in Shuffles(records, batchSize) :
                  shuffles' = Append(shuffles, order)
            /\ Len(shuffles) < Epochs
            /\ rank[0].step = Len(shuffles) * StepsIn
  PROVE  IInv'
<1>1. /\ Inputs /\ Sizing /\ Lockstep /\ Ends /\ Lessons /\ records # <<>> /\ records' # <<>>
      /\ UNCHANGED <<inputs, batchSize, records>>
  BY DEF IInv, Sizing
<1>2. UNCHANGED <<selected, keeps, tokenized, sameCode>>
  BY <1>1 DEF inputs
<1>3. /\ Inputs' /\ Fitting' = Fitting /\ Cached' = Cached
      /\ PerRank' = PerRank /\ StepsIn' = StepsIn /\ NothingIsLost' = NothingIsLost
  BY <1>1, FrameKeeps
<1>4. Sizing'
  BY <1>1, <1>2, <1>3 DEF Sizing
<1>5. /\ shuffles \in Seq(Shuffles(records, batchSize)) /\ Len(shuffles) <= Epochs
      /\ rank \in [Ranks -> RankType] /\ Len(shuffles) \in Nat
  BY <1>1 DEF Lockstep
<1>6. /\ shuffles' \in Seq(Shuffles(records, batchSize)) /\ Len(shuffles') <= Epochs
      /\ Len(shuffles') \in Nat /\ Len(shuffles) <= Len(shuffles')
      /\ \A e \in 1..Len(shuffles) : shuffles'[e] = shuffles[e]
      /\ \A e \in 1..Len(shuffles') : e > Len(shuffles) =>
            e = Len(shuffles) + 1 /\ rank[0].step = Len(shuffles) * StepsIn
  <2>1. CASE UNCHANGED shuffles
    BY <1>5, <2>1
  <2>2. CASE /\ \E order \in Shuffles(records, batchSize) :
                  shuffles' = Append(shuffles, order)
             /\ Len(shuffles) < Epochs
             /\ rank[0].step = Len(shuffles) * StepsIn
    <3>1. PICK order \in Shuffles(records, batchSize) : shuffles' = Append(shuffles, order)
      BY <2>2
    <3>2. /\ shuffles' \in Seq(Shuffles(records, batchSize))
          /\ Len(shuffles') = Len(shuffles) + 1
          /\ \A e \in 1..Len(shuffles) : shuffles'[e] = shuffles[e]
      BY <1>5, <3>1
    <3>. QED
      BY <1>5, <2>2, <3>2, Numbers
  <2>. QED
    BY <2>1, <2>2
<1>7. /\ rank' \in [Ranks -> RankType]
      /\ rank'[q] = k /\ \A r \in Ranks : r # q => rank'[r] = rank[r]
      /\ \A r \in Ranks : rank'[r].step = rank[r].step
  BY <1>5
<1>8. Lockstep'
  <2>1. \A r \in Ranks : RankAt(rank[r], Len(shuffles), StepsIn)
    BY <1>1 DEF Lockstep
  <2>2. ASSUME NEW r \in Ranks
        PROVE  RankAt(rank[r], Len(shuffles'), StepsIn)
    <3>1. RankAt(rank[r], Len(shuffles), StepsIn) /\ rank[r] \in RankType
      BY <1>5, <2>1
    <3>2. rank[r].epoch \in Nat
      BY <3>1, Numbers DEF RankType
    <3>. QED
      BY <1>5, <1>6, <3>1, <3>2 DEF RankAt
  <2>3. \A r \in Ranks : RankAt(rank'[r], Len(shuffles'), StepsIn)
    BY <1>7, <2>2
  <2>4. \A r \in Ranks : rank'[r].step = rank'[0].step
    BY <1>1, <1>7, FirstRank DEF Lockstep
  <2>5. checkpoint' = IF rank'[0].step = Epochs * StepsIn THEN rank'[0].step ELSE 0
    BY <1>1, <1>7, FirstRank DEF Lockstep
  <2>. QED
    BY <1>1, <1>3, <1>6, <1>7, <2>3, <2>4, <2>5 DEF Lockstep
<1>9. Ends'
  <2>1. ASSUME NEW r \in Ranks, rank'[r].pc = "failed"
        PROVE  failures' > 0 \/ ~sameCode'
    <3>1. failures \in Nat /\ failures' \in Nat
      BY <1>1, Numbers DEF Ends
    <3>2. CASE r = q
      BY <1>2, <1>7, <2>1, <3>2
    <3>3. CASE r # q
      BY <1>1, <1>2, <1>7, <2>1, <3>1, <3>3 DEF Ends
    <3>. QED
      BY <3>2, <3>3
  <2>. QED
    BY <1>1, <2>1 DEF Ends
<1>10. Lessons'
  <2>1. rank'[0].step = rank[0].step /\ rank[0].step \in Nat
    BY <1>5, <1>7, FirstRank DEF RankType
  <2>2. ASSUME NEW e \in 1..Len(shuffles), NEW p \in 1..Len(records)
        PROVE  Lesson(e, p)' = Lesson(e, p) /\ LessonStep(e, p)' = LessonStep(e, p)
    BY <1>3, <1>6 DEF Lesson, LessonStep, BlockOf
  <2>3. ASSUME NEW e \in 1..Len(shuffles'), NEW p \in 1..Len(records), e > Len(shuffles)
        PROVE  ~(LessonStep(e, p)' <= rank[0].step)
    <3>1. e = Len(shuffles) + 1 /\ rank[0].step = Len(shuffles) * StepsIn /\ e \in Nat
          /\ e - 1 = Len(shuffles)
      BY <1>5, <1>6, <2>3
    <3>2. /\ LessonStep(e, p) = (e - 1) * StepsIn + BlockOf(p) + 1
          /\ BlockOf(p) \in 0..(StepsIn - 1)
      BY <1>1, <1>5, <3>1, BlockFacts
    <3>3. LessonStep(e, p)' = LessonStep(e, p)
      BY <1>3 DEF LessonStep, BlockOf
    <3>4. LessonStep(e, p) = rank[0].step + BlockOf(p) + 1
      BY <3>1, <3>2
    <3>. QED
      BY <2>1, <3>2, <3>3, <3>4
  <2>4. ASSUME NEW t \in trained
        PROVE  \E e \in 1..Len(shuffles'), p \in 1..Len(records) :
                  LessonStep(e, p)' <= rank[0].step /\ t = Lesson(e, p)'
    <3>1. PICK e \in 1..Len(shuffles), p \in 1..Len(records) :
             LessonStep(e, p) <= rank[0].step /\ t = Lesson(e, p)
      BY <1>1 DEF Lessons
    <3>2. e \in 1..Len(shuffles')
      BY <1>5, <1>6
    <3>. QED
      BY <2>2, <3>1, <3>2
  <2>5. ASSUME NEW e \in 1..Len(shuffles'), NEW p \in 1..Len(records),
               LessonStep(e, p)' <= rank[0].step
        PROVE  Lesson(e, p)' \in trained
    <3>1. e \in 1..Len(shuffles)
      BY <1>5, <1>6, <2>3, <2>5
    <3>. QED
      BY <1>1, <2>2, <2>5, <3>1 DEF Lessons
  <2>. QED
    BY <1>1, <2>1, <2>4, <2>5 DEF Lessons
<1>. QED
  BY <1>3, <1>4, <1>8, <1>9, <1>10 DEF IInv
\* A rank loads the cache, or refuses one that another code wrote: the records
\* are never too few for it.
LEMMA LoadDatasetKeeps ==
  ASSUME IInv, NEW r \in Ranks, LoadDataset(r)
  PROVE  IInv'
<1>. DEFINE to == IF DatasetRefuses(records, sameCode) THEN "failed" ELSE "epoch"
            k  == [rank[r] EXCEPT !.pc = to]
<1>1. /\ Inputs /\ Sizing /\ Lockstep /\ Ends /\ records # <<>>
      /\ phase = "ranks" /\ rank[r].pc = "load" /\ rank[r] \in RankType
      /\ RankAt(rank[r], Len(shuffles), StepsIn)
      /\ UNCHANGED <<inputs, phase, outcome, batchSize, records, trained, checkpoint>>
      /\ UNCHANGED <<shuffles, failures>>
  BY DEF IInv, Sizing, Lockstep, LoadDataset
<1>2. rank' = [rank EXCEPT ![r] = k]
  BY DEF LoadDataset
<1>3. StepsIn \in Nat /\ Len(records) >= MinSelectedRows(WorldSize, MicroBatch)
      /\ Len(records) \in Nat
  BY <1>1, StepSizes
<1>4. to = "epoch" \/ (to = "failed" /\ ~sameCode)
  BY <1>3, Numbers DEF DatasetRefuses
<1>. HIDE DEF to
<1>5. k \in RankType /\ k.step = rank[r].step /\ k.pc = to
  BY <1>1, <1>4 DEF RankType
<1>6. RankAt(k, Len(shuffles), StepsIn)
  <2>1. /\ k.step = 0 /\ k.epoch = 0 /\ k.epoch <= Len(shuffles) /\ k.step < Epochs * StepsIn
    BY <1>1 DEF RankAt, RankType
  <2>. QED
    BY <1>3, <1>4, <1>5, <2>1 DEF RankAt
<1>7. failures' \in 0..MaxFailures /\ failures' >= failures
  BY <1>1, Numbers DEF Ends
<1>8. k.pc = "failed" => failures' > 0 \/ ~sameCode
  BY <1>4, <1>5
<1>9. RankAt(k, Len(shuffles'), StepsIn)
  BY <1>1, <1>6
<1>. HIDE DEF k
<1>. QED
  BY <1>1, <1>2, <1>5, <1>7, <1>8, <1>9, MoveKeeps

\* A rank fetches the next of the batches every rank finds in its epoch, or
\* has come to its end.
LEMMA FetchBatchKeeps ==
  ASSUME IInv, NEW r \in Ranks, FetchBatch(r)
  PROVE  IInv'
<1>. DEFINE to == IF rank[r].batch < RankBatches(shuffles[rank[r].epoch], r, PerRank)
                  THEN "step" ELSE "epoch"
            k  == [rank[r] EXCEPT !.pc = to]
<1>1. /\ Inputs /\ Sizing /\ Lockstep /\ Ends /\ records # <<>>
      /\ phase = "ranks" /\ rank[r].pc = "fetch" /\ rank[r] \in RankType
      /\ RankAt(rank[r], Len(shuffles), StepsIn)
      /\ UNCHANGED <<inputs, phase, outcome, batchSize, records, trained, checkpoint>>
      /\ UNCHANGED <<shuffles, failures>>
      /\ shuffles \in Seq(Shuffles(records, batchSize))
  BY DEF IInv, Sizing, Lockstep, FetchBatch
<1>2. rank' = [rank EXCEPT ![r] = k]
  BY DEF FetchBatch
<1>3. StepsIn \in Nat
  BY <1>1, StepSizes
<1>4. /\ rank[r].epoch >= 1 /\ rank[r].batch <= StepsIn /\ rank[r].epoch <= Len(shuffles)
      /\ rank[r].step = (rank[r].epoch - 1) * StepsIn + rank[r].batch
      /\ rank[r].step < Epochs * StepsIn
      /\ rank[r].epoch \in Nat /\ rank[r].batch \in Nat /\ rank[r].step \in Nat
  BY <1>1, Numbers DEF RankAt, RankType
<1>5. RankBatches(shuffles[rank[r].epoch], r, PerRank) = StepsIn
  <2>1. shuffles[rank[r].epoch] \in Shuffles(records, batchSize)
    BY <1>1, <1>4
  <2>. QED
    BY <1>1, <2>1, ShuffleFacts
<1>6. \/ to = "step" /\ rank[r].batch < StepsIn
      \/ to = "epoch" /\ rank[r].batch = StepsIn
  BY <1>3, <1>4, <1>5
<1>. HIDE DEF to
<1>7. /\ k \in RankType /\ k.step = rank[r].step /\ k.pc = to
      /\ k.epoch = rank[r].epoch /\ k.batch = rank[r].batch
  BY <1>1, <1>6 DEF RankType
<1>. HIDE DEF k
<1>8. RankAt(k, Len(shuffles), StepsIn)
  <2>1. CASE to = "step" /\ rank[r].batch < StepsIn
    BY <1>4, <1>7, <2>1 DEF RankAt
  <2>2. CASE to = "epoch" /\ rank[r].batch = StepsIn
    <3>1. (rank[r].epoch - 1) * StepsIn + StepsIn = rank[r].epoch * StepsIn
      BY <1>3, <1>4
    <3>. QED
      BY <1>4, <1>7, <2>2, <3>1 DEF RankAt
  <2>. QED
    BY <1>6, <2>1, <2>2
<1>9. failures' \in 0..MaxFailures /\ failures' >= failures
  BY <1>1, Numbers DEF Ends
<1>10. k.pc # "failed" /\ RankAt(k, Len(shuffles'), StepsIn)
  BY <1>1, <1>6, <1>7, <1>8
<1>. QED
  BY <1>1, <1>2, <1>7, <1>9, <1>10, MoveKeeps

\* A rank that begins an epoch has steps left, and draws the shuffle when it
\* is the first to come to it.
LEMMA BeginEpochKeeps ==
  ASSUME IInv, NEW r \in Ranks, BeginEpoch(r)
  PROVE  IInv'
<1>. DEFINE k == [rank[r] EXCEPT !.pc = "fetch", !.epoch = @ + 1, !.batch = 0]
<1>1. /\ Inputs /\ Sizing /\ Lockstep /\ Ends /\ records # <<>>
      /\ phase = "ranks" /\ rank[r].pc = "epoch" /\ rank[r] \in RankType
      /\ RankAt(rank[r], Len(shuffles), StepsIn)
      /\ UNCHANGED <<inputs, phase, outcome, batchSize, records, trained, checkpoint>>
      /\ UNCHANGED failures
      /\ shuffles \in Seq(Shuffles(records, batchSize)) /\ Len(shuffles) <= Epochs
      /\ rank \in [Ranks -> RankType] /\ rank[r].step = rank[0].step
  BY DEF IInv, Sizing, Lockstep, BeginEpoch
<1>2. StepsIn \in Nat /\ StepsIn > 0
  BY <1>1, StepSizes
<1>3. /\ rank[r].epoch <= Len(shuffles) /\ rank[r].epoch \in 0..Epochs
      /\ rank[r].step = rank[r].epoch * StepsIn /\ rank[r].step < Epochs * StepsIn
      /\ rank[r].batch \in Nat /\ rank[r].step \in Nat
  BY <1>1 DEF RankAt, RankType
<1>4. rank[r].epoch # Epochs /\ rank[r].epoch < Epochs /\ rank[r].epoch \in Nat
  <2>1. rank[r].epoch # Epochs
    <3>1. SUFFICES ASSUME rank[r].epoch = Epochs PROVE FALSE
      OBVIOUS
    <3>2. Epochs * StepsIn \in Int
      BY <1>2, Numbers
    <3>. QED
      BY <1>3, <3>1, <3>2
  <2>. QED
    BY <1>3, <2>1, Numbers
<1>5. /\ rank' = [rank EXCEPT ![r].pc = "fetch", ![r].epoch = @ + 1, ![r].batch = 0]
      /\ IF EpochDrawn(rank[r].epoch + 1) THEN UNCHANGED shuffles
         ELSE \E order \in Shuffles(records, batchSize) :
                 shuffles' = Append(shuffles, order)
  BY <1>4 DEF BeginEpoch
<1>6. rank' = [rank EXCEPT ![r] = k]
  BY <1>1, <1>5 DEF RankType
<1>7. /\ k \in RankType /\ k.step = rank[r].step /\ k.pc = "fetch"
      /\ k.epoch = rank[r].epoch + 1 /\ k.batch = 0
  <2>1. rank[r].epoch + 1 \in 0..Epochs
    BY <1>4, Numbers
  <2>2. /\ k.step = rank[r].step /\ k.pc = "fetch"
        /\ k.epoch = rank[r].epoch + 1 /\ k.batch = 0
    BY <1>1 DEF RankType
  <2>3. k \in RankType
    <3>. DEFINE a == [rank[r] EXCEPT !.pc = "fetch"]
                n == rank[r].epoch + 1
    <3>1. a \in RankType
      BY <1>1 DEF RankType
    <3>. HIDE DEF a
    <3>. DEFINE b == [a EXCEPT !.epoch = n]
    <3>2. n \in 0..Epochs
      BY <2>1
    <3>. HIDE DEF n
    <3>3. b \in RankType
      BY <3>1, <3>2 DEF RankType
    <3>. HIDE DEF b
    <3>4. [b EXCEPT !.batch = 0] \in RankType
      BY <3>3 DEF RankType
    <3>. QED
      BY <3>4 DEF a, b, n
  <2>. QED
    BY <2>2, <2>3
<1>. HIDE DEF k
<1>8. /\ \/ UNCHANGED shuffles
         \/ /\ \E order \in Shuffles(records, batchSize) :
                  shuffles' = Append(shuffles, order)
            /\ Len(shuffles) < Epochs
            /\ rank[0].step = Len(shuffles) * StepsIn
      /\ rank[r].epoch + 1 <= Len(shuffles')
  <2>1. DOMAIN shuffles = 1..Len(shuffles) /\ Len(shuffles) \in Nat
    BY <1>1
  <2>2. CASE EpochDrawn(rank[r].epoch + 1)
    BY <1>4, <1>5, <2>1, <2>2 DEF EpochDrawn
  <2>3. CASE ~EpochDrawn(rank[r].epoch + 1)
    <3>1. rank[r].epoch = Len(shuffles)
      BY <1>3, <1>4, <2>1, <2>3 DEF EpochDrawn
    <3>2. PICK order \in Shuffles(records, batchSize) :
             shuffles' = Append(shuffles, order)
      BY <1>5, <2>3
    <3>3. Len(shuffles') = Len(shuffles) + 1
      BY <1>1, <3>2
    <3>4. rank[0].step = Len(shuffles) * StepsIn
      BY <1>1, <1>3, <3>1
    <3>5. Len(shuffles) < Epochs /\ rank[r].epoch + 1 <= Len(shuffles')
      BY <1>4, <2>1, <3>1, <3>3
    <3>. QED
      BY <3>2, <3>4, <3>5
  <2>. QED
    BY <2>2, <2>3
<1>9. RankAt(k, Len(shuffles'), StepsIn)
  <2>1. (k.epoch - 1) * StepsIn + k.batch = rank[r].epoch * StepsIn
    <3>1. k.epoch - 1 = rank[r].epoch
      BY <1>4, <1>7
    <3>2. rank[r].epoch * StepsIn \in Int
      BY <1>2, <1>4
    <3>. QED
      BY <1>7, <3>1, <3>2
  <2>. QED
    BY <1>2, <1>3, <1>4, <1>7, <1>8, <2>1 DEF RankAt
<1>10. failures' \in 0..MaxFailures /\ failures' >= failures
  BY <1>1, Numbers DEF Ends
<1>. QED
  BY <1>1, <1>6, <1>7, <1>8, <1>9, <1>10, MoveKeeps

\* A rank fails, at any point before it is done.
LEMMA RankFailsKeeps ==
  ASSUME IInv, NEW r \in Ranks, RankFails(r)
  PROVE  IInv'
<1>. DEFINE k == [rank[r] EXCEPT !.pc = "failed"]
<1>1. /\ phase = "ranks" /\ rank[r] \in RankType /\ records # <<>>
      /\ RankAt(rank[r], Len(shuffles), StepsIn)
      /\ UNCHANGED <<inputs, phase, outcome, batchSize, records, trained, checkpoint>>
      /\ UNCHANGED shuffles
      /\ failures \in 0..MaxFailures /\ failures < MaxFailures /\ failures' = failures + 1
  BY DEF IInv, Sizing, Lockstep, Ends, RankFails
<1>2. rank' = [rank EXCEPT ![r] = k]
  BY DEF RankFails
<1>3. /\ k \in RankType /\ k.step = rank[r].step /\ k.pc = "failed"
      /\ RankAt(k, Len(shuffles'), StepsIn)
  BY <1>1 DEF RankType, RankAt
<1>. HIDE DEF k
<1>4. failures' \in 0..MaxFailures /\ failures' >= failures /\ failures' > 0
  BY <1>1, Numbers
<1>. QED
  BY <1>1, <1>2, <1>3, <1>4, MoveKeeps

\* torchrun ends, and with it the step: a failed rank failed it, or all ranks
\* are done and have saved their last step.
LEMMA TorchrunKeeps ==
  ASSUME IInv, TorchrunFails \/ TorchrunEnds
  PROVE  IInv'
<1>1. /\ Inputs /\ Sizing /\ Lockstep /\ Ends /\ Lessons /\ records # <<>>
      /\ phase = "ranks" /\ outcome = "none"
      /\ UNCHANGED <<inputs, batchSize, records>>
      /\ UNCHANGED <<shuffles, rank, trained, checkpoint, failures>>
      /\ phase' = "over"
  BY DEF IInv, Sizing, Ends, TorchrunFails, TorchrunEnds, End
<1>2. UNCHANGED <<selected, keeps, tokenized, sameCode>>
  BY <1>1 DEF inputs
<1>3. /\ Inputs' /\ Fitting' = Fitting /\ Cached' = Cached
      /\ PerRank' = PerRank /\ StepsIn' = StepsIn /\ NothingIsLost' = NothingIsLost
  BY <1>1, FrameKeeps
<1>4. outcome' \in {"raised", "trained"}
  BY DEF TorchrunFails, TorchrunEnds, End
<1>5. Sizing'
  BY <1>1, <1>2, <1>3, <1>4 DEF Sizing
<1>6. Lockstep'
  BY <1>1, <1>3 DEF Lockstep
<1>7. Lessons'
  BY <1>1, <1>3 DEF Lessons, Lesson, LessonStep, BlockOf
<1>8. \/ outcome' = "raised" /\ \E r \in Ranks : rank[r].pc = "failed"
      \/ outcome' = "trained" /\ \A r \in Ranks : rank[r].pc = "done"
  <2>1. CASE TorchrunFails
    BY <2>1 DEF TorchrunFails, End
  <2>2. CASE TorchrunEnds
    <3>1. rank[0].pc = "done" /\ RankAt(rank[0], Len(shuffles), StepsIn)
          /\ checkpoint = (IF rank[0].step = Epochs * StepsIn THEN rank[0].step ELSE 0)
      BY <1>1, <2>2, FirstRank DEF TorchrunEnds, Lockstep
    <3>2. StepsIn \in Nat /\ StepsIn > 0
      BY <1>1, StepSizes
    <3>3. Epochs * StepsIn > 0
      BY <3>2, Numbers
    <3>4. checkpoint # 0
      BY <3>1, <3>3 DEF RankAt
    <3>. QED
      BY <2>2, <3>4 DEF TorchrunEnds, End
  <2>. QED
    BY <2>1, <2>2
<1>9. Ends'
  BY <1>1, <1>2, <1>3, <1>8 DEF Ends
<1>. QED
  BY <1>3, <1>5, <1>6, <1>7, <1>9 DEF IInv
\* The places of a shuffle that fall to a rank in a batch.
Share(b, r) == {p \in 1..Len(records) : BlockOf(p) = b /\ (p - 1) % WorldSize = r}

\* The batch of a rank is made of the places that fall to it.
LEMMA BatchShare ==
  ASSUME Inputs, Sizing, records # <<>>, NEW order \in Shuffles(records, batchSize),
         NEW r \in Ranks, NEW b \in 0..(StepsIn - 1)
  PROVE  BatchOf(order, r, PerRank, b) = {order[p] : p \in Share(b, r)}
<1>. DEFINE W == WorldSize
            P == PerRank
            n == StepsIn
            samples == RankSamples(order, r)
            batch   == (b * P + 1)..((b + 1) * P)
            length  == Len(records)
<1>1. /\ W \in Nat /\ W > 0 /\ P \in Nat /\ P > 0 /\ n \in Nat /\ length \in Nat
      /\ length = n * (P * W)
      /\ r \in 0..(W - 1) /\ b \in 0..(n - 1) /\ b \in Nat /\ r \in Nat
  BY StepSizes, Numbers, FirstRank DEF Ranks
<1>2. samples = [k \in 1..(n * P) |-> (k - 1) * W + r + 1]
  BY ShuffleFacts
<1>3. \A p : BlockOf(p) = ((p - 1) \div W) \div P
  BY DEF BlockOf
<1>4. Share(b, r) = {p \in 1..length : BlockOf(p) = b /\ (p - 1) % W = r}
  BY DEF Share
<1>5. BatchOf(order, r, PerRank, b) = {order[samples[i]] : i \in batch}
  BY DEF BatchOf
<1>. HIDE DEF W, P, n, samples, length
<1>6. b * P \in Nat /\ n * P \in Nat /\ (b + 1) * P \in Nat /\ (b + 1) * P = b * P + P
      /\ (b + 1) * P <= n * P
  <2>1. b * P \in Nat /\ n * P \in Nat /\ (b + 1) * P = b * P + P
    BY <1>1
  <2>2. PICK d \in Nat : n = b + 1 + d
    <3>1. n - (b + 1) \in Nat /\ n = b + 1 + (n - (b + 1))
      BY <1>1
    <3>. QED
      BY <3>1
  <2>3. n * P = (b + 1) * P + d * P /\ d * P \in Nat
    BY <1>1, <2>2
  <2>. QED
    BY <1>1, <2>1, <2>3
<1>7. ASSUME NEW i \in batch
      PROVE  samples[i] \in Share(b, r)
  <2>. DEFINE a == i - 1 - b * P
              x == (b * P + a) * W + r
  <2>1. a \in 0..(P - 1) /\ i \in 1..(n * P) /\ i - 1 = b * P + a /\ i \in Nat
    BY <1>1, <1>6
  <2>2. samples[i] = (i - 1) * W + r + 1
    BY <1>2, <2>1
  <2>. HIDE DEF a
  <2>3. x \in Nat /\ x % W = r /\ (x \div W) \div P = b
    <3>1. x = (b * P + a) * W + r
      OBVIOUS
    <3>. HIDE DEF x
    <3>2. /\ W \in Nat /\ W > 0 /\ P \in Nat /\ P > 0 /\ b \in Nat
          /\ a \in 0..(P - 1) /\ r \in 0..(W - 1)
      BY <1>1, <2>1
    <3>. QED
      BY <3>1, <3>2, PlaceOfBatch
  <2>4. samples[i] = x + 1
    BY <2>1, <2>2
  <2>5. x < length
    <3>1. PICK d \in Nat : n * P = i + d
      <4>1. n * P - i \in Nat /\ n * P = i + (n * P - i)
        BY <1>6, <2>1
      <4>. QED
        BY <4>1
    <3>2. (i + d) * W = (i - 1) * W + W + d * W /\ d * W \in Nat /\ (i - 1) * W \in Nat
      <4>1. i - 1 \in Nat
        BY <2>1
      <4>. QED
        BY <1>1, <2>1, <3>1, <4>1
    <3>3. length = (i + d) * W
      BY <1>1, <3>1
    <3>4. x = (i - 1) * W + r
      BY <2>1
    <3>. HIDE DEF x
    <3>. QED
      BY <1>1, <2>3, <3>2, <3>3, <3>4
  <2>. HIDE DEF x
  <2>. QED
    BY <1>1, <1>3, <1>4, <2>3, <2>4, <2>5
<1>8. ASSUME NEW p \in Share(b, r)
      PROVE  \E i \in batch : samples[i] = p
  <2>. DEFINE x == p - 1
              a == (x \div W) % P
              i == b * P + a + 1
  <2>1. /\ p \in 1..length /\ x \in Nat /\ x < n * (P * W)
        /\ (x \div W) \div P = b /\ x % W = r
    <3>1. p \in 1..length /\ BlockOf(p) = b /\ x % W = r
      BY <1>4
    <3>2. BlockOf(p) = (x \div W) \div P
      BY <1>3
    <3>3. x \in Nat /\ x < length
      BY <1>1, <3>1
    <3>. HIDE DEF x
    <3>. QED
      BY <1>1, <3>1, <3>2, <3>3
  <2>2. p = x + 1
    BY <1>1, <2>1
  <2>. HIDE DEF x
  <2>3. a \in 0..(P - 1) /\ x = (b * P + a) * W + r
    BY <1>1, <2>1, BatchOfPlace
  <2>. HIDE DEF a
  <2>4. i \in batch /\ i \in 1..(n * P) /\ i - 1 = b * P + a
    BY <1>1, <1>6, <2>3
  <2>. HIDE DEF i
  <2>5. samples[i] = p
    BY <1>1, <1>2, <2>2, <2>3, <2>4
  <2>. HIDE DEF batch
  <2>. QED
    BY <2>4, <2>5
<1>. HIDE DEF batch
<1>. QED
  BY <1>5, <1>7, <1>8
\* All ranks take a step of the training at the same batch of the same epoch,
\* and the last of the steps of all epochs is saved.
LEMMA StandTogether ==
  ASSUME IInv, phase = "ranks", \A r \in Ranks : rank[r].pc = "step"
  PROVE  /\ rank[0].epoch \in 1..Len(shuffles) /\ rank[0].batch \in 0..(StepsIn - 1)
         /\ rank[0].step = (rank[0].epoch - 1) * StepsIn + rank[0].batch
         /\ rank[0].step \in Nat /\ rank[0].step < Epochs * StepsIn
         /\ \A r \in Ranks : /\ rank[r].epoch = rank[0].epoch
                             /\ rank[r].batch = rank[0].batch
                             /\ rank[r].step = rank[0].step
         /\ TotalSteps = Epochs * StepsIn
<1>1. /\ Inputs /\ Sizing /\ records # <<>>
      /\ shuffles \in Seq(Shuffles(records, batchSize)) /\ Len(shuffles) \in Nat
      /\ rank \in [Ranks -> RankType] /\ 0 \in Ranks
      /\ \A r \in Ranks : RankAt(rank[r], Len(shuffles), StepsIn)
      /\ \A r \in Ranks : rank[r].step = rank[0].step
  BY FirstRank DEF IInv, Sizing, Lockstep
<1>2. StepsIn \in Nat /\ StepsIn > 0
  BY <1>1, StepSizes
<1>3. ASSUME NEW r \in Ranks
      PROVE  /\ rank[r].epoch \in 1..Len(shuffles) /\ rank[r].batch \in 0..(StepsIn - 1)
             /\ rank[r].step = (rank[r].epoch - 1) * StepsIn + rank[r].batch
             /\ rank[r].step \in Nat /\ rank[r].step < Epochs * StepsIn
  <2>1. /\ RankAt(rank[r], Len(shuffles), StepsIn) /\ rank[r].pc = "step"
        /\ rank[r].epoch \in 0..Epochs /\ rank[r].batch \in Nat /\ rank[r].step \in Nat
    BY <1>1 DEF RankType
  <2>2. /\ rank[r].epoch >= 1 /\ rank[r].epoch <= Len(shuffles)
        /\ rank[r].batch < StepsIn
        /\ rank[r].step = (rank[r].epoch - 1) * StepsIn + rank[r].batch
        /\ rank[r].step < Epochs * StepsIn
    BY <2>1 DEF RankAt
  <2>. QED
    BY <1>1, <1>2, <2>1, <2>2, Numbers
<1>4. ASSUME NEW r \in Ranks
      PROVE  rank[r].epoch = rank[0].epoch /\ rank[r].batch = rank[0].batch
  <2>. DEFINE p == rank[r].epoch - 1
              q == rank[0].epoch - 1
              a == rank[r].batch
              b == rank[0].batch
  <2>1. /\ p \in Nat /\ q \in Nat
        /\ rank[r].epoch = p + 1 /\ rank[0].epoch = q + 1
    BY <1>1, <1>3
  <2>2. /\ a \in 0..(StepsIn - 1) /\ b \in 0..(StepsIn - 1)
        /\ p * StepsIn + a = q * StepsIn + b
    BY <1>1, <1>3
  <2>. HIDE DEF p, q, a, b
  <2>3. p = q /\ a = b
    BY <1>2, <2>1, <2>2, BlockUnique
  <2>. QED
    BY <2>1, <2>3 DEF a, b
<1>5. TotalSteps = Epochs * StepsIn
  <2>1. Len(shuffles) >= 1
    BY <1>1, <1>3
  <2>2. shuffles[1] \in Shuffles(records, batchSize)
    BY <1>1, <2>1
  <2>3. StepsPerEpoch = StepsIn
    BY <1>1, <2>2, ShuffleFacts DEF StepsPerEpoch
  <2>. QED
    BY <1>2, <2>3, Numbers DEF TotalSteps
<1>. QED
  BY <1>1, <1>3, <1>4, <1>5

\* The step trains its places of the shuffle, and the last one is saved.
LEMMA TrainingStepKeeps ==
  ASSUME IInv, TrainingStep
  PROVE  IInv'
<1>. DEFINE e0 == rank[0].epoch
            b0 == rank[0].batch
            s  == rank[0].step
            last == Epochs * StepsIn
            New(r) == {[epoch |-> rank[r].epoch, record |-> i, rank |-> r,
                        step |-> rank[r].step + 1] :
                          i \in BatchOf(shuffles[rank[r].epoch], r, PerRank, rank[r].batch)}
<1>1. /\ Inputs /\ Sizing /\ Lockstep /\ Ends /\ Lessons /\ records # <<>>
      /\ phase = "ranks"
      /\ UNCHANGED <<inputs, batchSize, records>>
      /\ UNCHANGED <<phase, outcome, shuffles, failures>>
      /\ \A r \in Ranks : rank[r].pc = "step"
      /\ 0 \in Ranks
  BY FirstRank DEF IInv, Sizing, TrainingStep
<1>2. UNCHANGED <<selected, keeps, tokenized, sameCode>>
  BY <1>1 DEF inputs
<1>3. /\ Inputs' /\ Fitting' = Fitting /\ Cached' = Cached
      /\ PerRank' = PerRank /\ StepsIn' = StepsIn /\ NothingIsLost' = NothingIsLost
  BY <1>1, FrameKeeps
<1>4. Sizing'
  BY <1>1, <1>2, <1>3 DEF Sizing
<1>5. /\ shuffles \in Seq(Shuffles(records, batchSize)) /\ Len(shuffles) <= Epochs
      /\ rank \in [Ranks -> RankType] /\ Len(shuffles) \in Nat
      /\ StepsIn \in Nat /\ StepsIn > 0 /\ last \in Nat /\ last > 0
  <2>1. StepsIn \in Nat /\ StepsIn > 0
    BY <1>1, StepSizes
  <2>2. last \in Nat /\ last > 0
    BY <2>1, Numbers
  <2>. QED
    BY <1>1, <2>1, <2>2 DEF Lockstep
<1>6. /\ e0 \in 1..Len(shuffles) /\ b0 \in 0..(StepsIn - 1)
      /\ s = (e0 - 1) * StepsIn + b0 /\ s \in Nat /\ s < last
      /\ \A r \in Ranks : rank[r].epoch = e0 /\ rank[r].batch = b0 /\ rank[r].step = s
      /\ TotalSteps = last
  BY <1>1, StandTogether DEF IInv
<1>7. trained' = trained \cup UNION {New(r) : r \in Ranks}
  BY DEF TrainingStep
<1>8. /\ rank' = [r \in Ranks |-> [rank[r] EXCEPT !.pc = AfterStep(s + 1).pc,
                                                 !.batch = @ + 1, !.step = @ + 1]]
      /\ checkpoint' = AfterStep(s + 1).saved
  BY <1>1, <1>6 DEF TrainingStep
<1>9. checkpoint = 0
  BY <1>1, <1>6 DEF Lockstep
<1>10. AfterStep(s + 1) = IF s + 1 = last THEN [pc |-> "done", saved |-> s + 1]
                          ELSE [pc |-> "fetch", saved |-> 0]
  <2>. HIDE DEF s, last
  <2>. QED
    BY <1>5, <1>6, <1>9 DEF AfterStep
<1>. HIDE DEF e0, b0, s, last
<1>11. ASSUME NEW r \in Ranks
       PROVE  /\ rank'[r] \in RankType
              /\ rank'[r].pc = (IF s + 1 = last THEN "done" ELSE "fetch")
              /\ rank'[r].epoch = e0 /\ rank'[r].batch = b0 + 1 /\ rank'[r].step = s + 1
  <2>. DEFINE pc == AfterStep(s + 1).pc
              a  == [rank[r] EXCEPT !.pc = pc]
              b  == [a EXCEPT !.batch = rank[r].batch + 1]
              c  == [b EXCEPT !.step = rank[r].step + 1]
  <2>1. rank[r] \in RankType /\ rank[r].epoch = e0 /\ rank[r].batch = b0 /\ rank[r].step = s
        /\ s \in Nat /\ b0 \in Nat
    BY <1>5, <1>6
  <2>2. rank'[r] = c
    BY <1>8
  <2>3. pc = (IF s + 1 = last THEN "done" ELSE "fetch")
    BY <1>10
  <2>. HIDE DEF pc
  <2>4. a \in RankType /\ a.pc = pc /\ a.epoch = e0 /\ a.batch = b0 /\ a.step = s
    BY <2>1, <2>3 DEF RankType
  <2>. HIDE DEF a
  <2>5. b \in RankType /\ b.pc = pc /\ b.epoch = e0 /\ b.batch = b0 + 1 /\ b.step = s
    BY <2>1, <2>4 DEF RankType
  <2>. HIDE DEF b
  <2>6. c \in RankType /\ c.pc = pc /\ c.epoch = e0 /\ c.batch = b0 + 1 /\ c.step = s + 1
    BY <2>1, <2>5 DEF RankType
  <2>. HIDE DEF c
  <2>. QED
    BY <2>2, <2>3, <2>6
<1>12. rank' \in [Ranks -> RankType]
  BY <1>8, <1>11
<1>13. ASSUME NEW r \in Ranks
       PROVE  RankAt(rank'[r], Len(shuffles), StepsIn)
  <2>1. (e0 - 1) * StepsIn + (b0 + 1) = s + 1 /\ b0 + 1 \in Nat /\ b0 + 1 <= StepsIn
    <3>1. e0 - 1 \in Nat
      BY <1>5, <1>6
    <3>2. (e0 - 1) * StepsIn \in Nat
      BY <1>5, <3>1
    <3>. QED
      BY <1>5, <1>6, <3>2
  <2>2. /\ rank'[r].epoch >= 1 /\ rank'[r].epoch <= Len(shuffles)
        /\ rank'[r].batch <= StepsIn
        /\ rank'[r].step = (rank'[r].epoch - 1) * StepsIn + rank'[r].batch
    BY <1>5, <1>6, <1>11, <2>1
  <2>3. CASE s + 1 = last
    <3>. DEFINE m == Epochs - 1
                n == e0 - 1
                b == StepsIn - 1
    <3>1. /\ m \in Nat /\ n \in Nat /\ b \in 0..(StepsIn - 1) /\ StepsIn = b + 1
          /\ Epochs = m + 1 /\ e0 = n + 1
      BY <1>5, <1>6, Numbers
    <3>2. last = m * StepsIn + StepsIn /\ s = n * StepsIn + b0
      BY <1>5, <1>6, <3>1 DEF last
    <3>3. m * StepsIn + b = n * StepsIn + b0
      <4>1. m * StepsIn \in Nat /\ n * StepsIn \in Nat
        BY <1>5, <3>1
      <4>. HIDE DEF m, n, b
      <4>. QED
        BY <1>5, <1>6, <2>3, <3>1, <3>2, <4>1
    <3>. HIDE DEF m, n, b
    <3>4. e0 = Epochs
      BY <1>5, <1>6, <3>1, <3>3, BlockUnique
    <3>. QED
      BY <1>11, <2>2, <2>3, <3>4 DEF RankAt, last
  <2>4. CASE s + 1 # last
    <3>1. rank'[r].step < last /\ rank'[r].pc = "fetch"
      BY <1>5, <1>6, <1>11, <2>4
    <3>. QED
      BY <2>2, <3>1 DEF RankAt, last
  <2>. QED
    BY <2>3, <2>4
<1>14. Lockstep'
  <2>1. \A r \in Ranks : rank'[r].step = rank'[0].step
    BY <1>1, <1>11
  <2>2. checkpoint' = IF rank'[0].step = Epochs * StepsIn' THEN rank'[0].step ELSE 0
    <3>0. checkpoint' = AfterStep(s + 1).saved
      BY <1>8
    <3>1. rank'[0].step = s + 1 /\ Epochs * StepsIn' = last
      BY <1>1, <1>3, <1>11 DEF last
    <3>2. CASE s + 1 = last
      <4>1. AfterStep(s + 1) = [pc |-> "done", saved |-> s + 1]
        BY <1>10, <3>2
      <4>2. checkpoint' = s + 1
        BY <3>0, <4>1
      <4>. QED
        BY <3>1, <3>2, <4>2
    <3>3. CASE s + 1 # last
      <4>1. AfterStep(s + 1) = [pc |-> "fetch", saved |-> 0]
        BY <1>10, <3>3
      <4>2. checkpoint' = 0
        BY <3>0, <4>1
      <4>. QED
        BY <3>1, <3>3, <4>2
    <3>. QED
      BY <3>2, <3>3
  <2>3. \A r \in Ranks : RankAt(rank'[r], Len(shuffles'), StepsIn')
    BY <1>1, <1>3, <1>13
  <2>4. records' # <<>> /\ shuffles' \in Seq(Shuffles(records', batchSize'))
        /\ Len(shuffles') <= Epochs
    BY <1>1, <1>5
  <2>. QED
    BY <1>12, <2>1, <2>2, <2>3, <2>4 DEF Lockstep
<1>15. Ends'
  <2>1. \A r \in Ranks : rank'[r].pc # "failed"
    BY <1>11
  <2>. QED
    BY <1>1, <1>2, <1>3, <2>1 DEF Ends
<1>16. ASSUME NEW r \in Ranks
       PROVE  New(r) = {Lesson(e0, p) : p \in Share(b0, r)}
  <2>. DEFINE order == shuffles[e0]
              New2(i) == [epoch |-> e0, record |-> i, rank |-> r, step |-> s + 1]
  <2>1. order \in Shuffles(records, batchSize)
    BY <1>5, <1>6
  <2>2. New(r) = {New2(i) : i \in BatchOf(order, r, PerRank, b0)}
    BY <1>6
  <2>3. BatchOf(order, r, PerRank, b0) = {order[p] : p \in Share(b0, r)}
    <3>. HIDE DEF order
    <3>. QED
      BY <1>1, <1>6, <2>1, BatchShare
  <2>4. ASSUME NEW p \in Share(b0, r)
        PROVE  Lesson(e0, p) = New2(order[p])
    <3>1. p \in 1..Len(records) /\ BlockOf(p) = b0 /\ (p - 1) % WorldSize = r
      BY DEF Share
    <3>2. LessonStep(e0, p) = s + 1
      <4>1. (e0 - 1) * StepsIn \in Nat
        <5>1. e0 - 1 \in Nat
          BY <1>5, <1>6
        <5>. QED
          BY <1>5, <5>1
      <4>. QED
        BY <1>6, <3>1, <4>1 DEF LessonStep
    <3>. QED
      BY <3>1, <3>2 DEF Lesson
  <2>. HIDE DEF order, New, New2
  <2>5. New(r) = {New2(order[p]) : p \in Share(b0, r)}
    BY <2>2, <2>3
  <2>. QED
    BY <2>4, <2>5
<1>. HIDE DEF New
<1>17. Lessons'
  <2>1. rank'[0].step = s + 1 /\ records' # <<>> /\ Len(records') = Len(records)
        /\ Len(shuffles') = Len(shuffles)
    BY <1>1, <1>11
  <2>2. ASSUME NEW e \in 1..Len(shuffles), NEW p \in 1..Len(records)
        PROVE  Lesson(e, p)' = Lesson(e, p) /\ LessonStep(e, p)' = LessonStep(e, p)
               /\ LessonStep(e, p) \in Nat
    <3>1. e \in Nat /\ e >= 1
      BY <1>5
    <3>. QED
      BY <1>1, <1>3, <3>1, BlockFacts DEF Lesson, LessonStep, BlockOf
  <2>3. ASSUME NEW t \in trained'
        PROVE  \E e \in 1..Len(shuffles), p \in 1..Len(records) :
                  LessonStep(e, p) <= s + 1 /\ t = Lesson(e, p)
    <3>1. CASE t \in trained
      <4>1. PICK e \in 1..Len(shuffles), p \in 1..Len(records) :
               LessonStep(e, p) <= s /\ t = Lesson(e, p)
        BY <1>1, <3>1 DEF Lessons, s
      <4>2. LessonStep(e, p) <= s + 1
        BY <1>6, <2>2, <4>1
      <4>. QED
        BY <4>1, <4>2
    <3>2. CASE t \notin trained
      <4>1. PICK r \in Ranks : t \in New(r)
        BY <1>7, <3>2
      <4>2. PICK p \in Share(b0, r) : t = Lesson(e0, p)
        BY <1>16, <4>1
      <4>3. p \in 1..Len(records) /\ BlockOf(p) = b0
        BY DEF Share
      <4>4. LessonStep(e0, p) = s + 1
        <5>1. e0 - 1 \in Nat
          BY <1>5, <1>6
        <5>2. (e0 - 1) * StepsIn \in Nat
          BY <1>5, <5>1
        <5>. QED
          BY <1>6, <4>3, <5>2 DEF LessonStep
      <4>. QED
        BY <1>6, <4>2, <4>3, <4>4
    <3>. QED
      BY <3>1, <3>2
  <2>4. ASSUME NEW e \in 1..Len(shuffles), NEW p \in 1..Len(records),
               LessonStep(e, p) <= s + 1
        PROVE  Lesson(e, p) \in trained'
    <3>1. CASE LessonStep(e, p) <= s
      BY <1>1, <1>7, <3>1 DEF Lessons, s
    <3>2. CASE LessonStep(e, p) = s + 1
      <4>1. e - 1 \in Nat /\ e0 - 1 \in Nat /\ e \in Nat /\ e >= 1
        BY <1>5, <1>6
      <4>2. BlockOf(p) \in 0..(StepsIn - 1)
            /\ LessonStep(e, p) = (e - 1) * StepsIn + BlockOf(p) + 1
        BY <1>1, <4>1, BlockFacts
      <4>3. (e - 1) * StepsIn + BlockOf(p) = (e0 - 1) * StepsIn + b0
        <5>1. PICK x, y : x = (e - 1) * StepsIn /\ y = (e0 - 1) * StepsIn
          OBVIOUS
        <5>2. x \in Nat /\ y \in Nat
          BY <1>5, <4>1, <5>1
        <5>3. x + BlockOf(p) + 1 = s + 1
          BY <3>2, <4>2, <5>1, Zenon
        <5>4. s = y + b0 /\ b0 \in Nat /\ BlockOf(p) \in Nat /\ s \in Nat
          BY <1>6, <4>2, <5>1, <5>2
        <5>5. x + BlockOf(p) = y + b0
          BY <5>2, <5>3, <5>4
        <5>. QED
          BY <5>1, <5>5, Zenon
      <4>4. e - 1 = e0 - 1 /\ BlockOf(p) = b0
        <5>. DEFINE m == e - 1
                    n == e0 - 1
                    b == BlockOf(p)
        <5>1. m \in Nat /\ n \in Nat /\ b \in 0..(StepsIn - 1)
              /\ m * StepsIn + b = n * StepsIn + b0
          BY <4>1, <4>2, <4>3
        <5>. HIDE DEF m, n, b
        <5>2. m = n /\ b = b0
          <6>1. PICK size \in Nat : size = StepsIn
            BY <1>5
          <6>2. /\ b \in 0..(size - 1) /\ b0 \in 0..(size - 1)
                /\ m * size + b = n * size + b0
            BY <1>6, <5>1, <6>1
          <6>3. m \in Nat /\ n \in Nat
            BY <5>1
          <6>4. \A x, y \in 0..(size - 1) :
                   m * size + x = n * size + y => m = n /\ x = y
            BY <6>3, BlockUnique, Zenon
          <6>. QED
            BY <6>2, <6>4, Zenon
        <5>. QED
          BY <5>2 DEF m, n, b
      <4>5. e = e0
        <5>1. e \in Int /\ e0 \in Int /\ e - 1 = e0 - 1
          BY <1>5, <1>6, <4>4
        <5>. QED
          BY <5>1
      <4>. DEFINE r == (p - 1) % WorldSize
      <4>6. r \in Ranks
        BY Numbers DEF Ranks
      <4>7. p \in Share(b0, r)
        BY <4>4 DEF Share
      <4>. HIDE DEF r
      <4>8. Lesson(e, p) \in New(r)
        BY <1>16, <4>5, <4>6, <4>7
      <4>. QED
        BY <1>7, <4>6, <4>8
    <3>. QED
      BY <1>6, <2>2, <2>4, <3>1, <3>2
  <2>. QED
    BY <2>1, <2>2, <2>3, <2>4 DEF Lessons
<1>. QED
  BY <1>3, <1>4, <1>14, <1>15, <1>17 DEF IInv

-----------------------------------------------------------------------------
(* The theorems                                                            *)

\* Every step of the outer loop and of the ranks keeps the invariant.
LEMMA InvNext == IInv /\ [Next]_vars => IInv'
<1>. SUFFICES ASSUME IInv, [Next]_vars PROVE IInv'
  OBVIOUS
<1>1. CASE SizeBatch
  BY <1>1, SizeBatchKeeps
<1>2. CASE WriteTokenCache
  BY <1>2, WriteTokenCacheKeeps
<1>3. ASSUME NEW r \in Ranks, RankSteps(r) \/ RankFails(r)
      PROVE  IInv'
  <2>1. CASE LoadDataset(r)
    BY <2>1, LoadDatasetKeeps
  <2>2. CASE BeginEpoch(r)
    BY <2>2, BeginEpochKeeps
  <2>3. CASE FetchBatch(r)
    BY <2>3, FetchBatchKeeps
  <2>4. CASE RankFails(r)
    BY <2>4, RankFailsKeeps
  <2>. QED
    BY <1>3, <2>1, <2>2, <2>3, <2>4 DEF RankSteps
<1>4. CASE TrainingStep
  BY <1>4, TrainingStepKeeps
<1>5. CASE TorchrunFails \/ TorchrunEnds
  BY <1>5, TorchrunKeeps
<1>6. CASE UNCHANGED vars
  <2>1. /\ UNCHANGED <<inputs, batchSize, records>>
        /\ UNCHANGED <<selected, keeps, tokenized, sameCode>>
        /\ UNCHANGED <<phase, outcome, shuffles, rank, trained, checkpoint, failures>>
        /\ Inputs /\ Sizing /\ Lockstep /\ Ends /\ Lessons
    BY <1>6 DEF vars, inputs, IInv
  <2>2. /\ Inputs' /\ Fitting' = Fitting /\ Cached' = Cached
        /\ PerRank' = PerRank /\ StepsIn' = StepsIn /\ NothingIsLost' = NothingIsLost
    BY <2>1, FrameKeeps
  <2>3. Sizing' /\ Lockstep' /\ Ends'
    BY <2>1, <2>2 DEF Sizing, Lockstep, Ends
  <2>4. Lessons'
    <3>1. ASSUME NEW e, NEW p
          PROVE  /\ Lesson(e, p)' = Lesson(e, p)
                 /\ LessonStep(e, p)' = LessonStep(e, p)
      BY <2>1, <2>2 DEF Lesson, LessonStep, BlockOf
    <3>2. UNCHANGED <<records, trained, shuffles, rank>>
      BY <2>1, Zenon
    <3>3. CASE records = <<>>
      BY <2>1, <3>2, <3>3, Zenon DEF Lessons
    <3>4. CASE records # <<>>
      <4>1. \A t \in trained :
               \E e \in 1..Len(shuffles), p \in 1..Len(records) :
                   LessonStep(e, p) <= rank[0].step /\ t = Lesson(e, p)
        BY <2>1, <3>4, Zenon DEF Lessons
      <4>2. \A e \in 1..Len(shuffles), p \in 1..Len(records) :
               LessonStep(e, p) <= rank[0].step => Lesson(e, p) \in trained
        BY <2>1, <3>4, Zenon DEF Lessons
      <4>. QED
        BY <3>1, <3>2, <4>1, <4>2 DEF Lessons
    <3>. QED
      BY <3>3, <3>4, Zenon
  <2>. QED
    BY <2>2, <2>3, <2>4 DEF IInv
<1>. QED
  BY <1>1, <1>2, <1>3, <1>4, <1>5, <1>6 DEF Next

\* The inductive invariant of the trainer holds throughout.
THEOREM TrainerInvariant == Spec => []IInv
BY InvInit, InvNext, PTL DEF Spec

\* When a training ended well, its ranks are done, have trained every place of
\* the shuffle of every epoch, and have saved their last step.
LEMMA TrainedWhole ==
  ASSUME IInv, outcome = "trained"
  PROVE  /\ records # <<>> /\ Len(shuffles) = Epochs
         /\ checkpoint = Epochs * StepsIn
         /\ \A e \in 1..Epochs, p \in 1..Len(records) : Lesson(e, p) \in trained
<1>1. /\ Inputs /\ Sizing /\ Lockstep /\ Ends /\ Lessons /\ records # <<>>
      /\ rank[0].pc = "done" /\ RankAt(rank[0], Len(shuffles), StepsIn)
      /\ Len(shuffles) <= Epochs /\ Len(shuffles) \in Nat
  BY FirstRank DEF IInv, Ends, Lockstep
<1>2. rank[0].step = Epochs * StepsIn /\ Len(shuffles) = Epochs
  BY <1>1, Numbers DEF RankAt
<1>3. checkpoint = Epochs * StepsIn
  BY <1>1, <1>2 DEF Lockstep
<1>4. StepsIn \in Nat
  BY <1>1, StepSizes
<1>5. ASSUME NEW e \in 1..Epochs, NEW p \in 1..Len(records)
      PROVE  Lesson(e, p) \in trained
  <2>1. PICK d \in Nat : Epochs = e + d
    <3>1. Epochs - e \in Nat /\ Epochs = e + (Epochs - e)
      BY Numbers
    <3>. QED
      BY <3>1
  <2>2. e \in Nat /\ e >= 1 /\ e - 1 \in Nat
    BY Numbers
  <2>3. /\ LessonStep(e, p) = (e - 1) * StepsIn + BlockOf(p) + 1
        /\ BlockOf(p) \in 0..(StepsIn - 1)
    BY <1>1, <2>2, BlockFacts
  <2>4. /\ Epochs * StepsIn = (e - 1) * StepsIn + StepsIn + d * StepsIn
        /\ (e - 1) * StepsIn \in Nat /\ d * StepsIn \in Nat
    BY <1>4, <2>1, <2>2
  <2>5. LessonStep(e, p) <= rank[0].step
    <3>1. PICK x, y : x = (e - 1) * StepsIn /\ y = d * StepsIn
      OBVIOUS
    <3>2. x \in Nat /\ y \in Nat
      BY <2>4, <3>1
    <3>3. LessonStep(e, p) = x + BlockOf(p) + 1 /\ rank[0].step = x + StepsIn + y
      BY <1>2, <2>3, <2>4, <3>1, Zenon
    <3>. QED
      BY <1>4, <2>3, <3>2, <3>3
  <2>. QED
    BY <1>1, <1>2, <2>5 DEF Lessons
<1>. QED
  BY <1>1, <1>2, <1>3, <1>5

\* The rows that fit are the rows of the records.
LEMMA RecordsAreTheRows ==
  ASSUME Inputs, Sizing, records # <<>>
  PROVE  {Fitting[i] : i \in DOMAIN Fitting}
           = {records[i].history : i \in DOMAIN records}
<1>. DEFINE rows == Upsample(Fitting, batchSize)
            n    == Len(Fitting)
            m    == Len(Cached)
<1>1. batchSize > 0 /\ records = Cached
  BY DEF Sizing
<1>2. /\ \A i \in 1..m : \E j \in 1..n : rows[i] = Fitting[j]
      /\ \A j \in 1..n : \E i \in 1..m : rows[i] = Fitting[j]
      /\ DOMAIN rows = 1..m /\ Cached \in Seq(RecordType)
  BY <1>1, CachedRecords
<1>3. DOMAIN Fitting = 1..n /\ DOMAIN records = 1..m
  BY <1>1, <1>2, FittingRows
<1>4. \A i \in 1..m : records[i].history = rows[i]
  BY <1>1, <1>2 DEF Cached, Record
<1>. HIDE DEF rows, n, m
<1>5. ASSUME NEW i \in 1..n
      PROVE  \E j \in 1..m : Fitting[i] = records[j].history
  BY <1>2, <1>4
<1>6. ASSUME NEW j \in 1..m
      PROVE  \E i \in 1..n : records[j].history = Fitting[i]
  BY <1>2, <1>4
<1>7. {Fitting[i] : i \in 1..n} = {records[j].history : j \in 1..m}
  <2>1. ASSUME NEW x \in {Fitting[i] : i \in 1..n}
        PROVE  x \in {records[j].history : j \in 1..m}
    BY <1>5
  <2>2. ASSUME NEW x \in {records[j].history : j \in 1..m}
        PROVE  x \in {Fitting[i] : i \in 1..n}
    BY <1>6
  <2>. QED
    BY <2>1, <2>2
<1>. QED
  BY <1>3, <1>7

\* A record is trained once in an epoch: at its place in the shuffle.
LEMMA TrainedOnce ==
  ASSUME IInv, outcome = "trained", NEW e \in 1..Epochs, NEW i \in 1..Len(records)
  PROVE  Cardinality({t \in trained : t.epoch = e /\ t.record = i}) = 1
<1>. DEFINE n == Len(records)
            order == shuffles[e]
            T == {t \in trained : t.epoch = e /\ t.record = i}
<1>1. /\ Inputs /\ Sizing /\ Lockstep /\ Lessons /\ records # <<>>
      /\ Len(shuffles) = Epochs
      /\ \A p \in 1..n : Lesson(e, p) \in trained
      /\ shuffles \in Seq(Shuffles(records, batchSize))
  BY TrainedWhole DEF IInv, Lockstep
<1>2. order \in Shuffles(records, batchSize)
  BY <1>1
<1>3. order \in [1..n -> 1..n] /\ IsInjective(order) /\ n \in Nat
  <2>. HIDE DEF order
  <2>. QED
    BY <1>1, <1>2, ShuffleFacts, StepSizes
<1>4. PICK p0 \in 1..n : order[p0] = i
  <2>. HIDE DEF order, n
  <2>1. i \in 1..n
    BY DEF n
  <2>. QED
    BY <1>3, <2>1, Permutes
<1>5. /\ Lesson(e, p0) \in trained
      /\ Lesson(e, p0).epoch = e /\ Lesson(e, p0).record = i
  BY <1>1, <1>4 DEF Lesson
<1>6. ASSUME NEW t \in T PROVE t = Lesson(e, p0)
  <2>1. PICK e1 \in 1..Len(shuffles), p \in 1..n : t = Lesson(e1, p)
    BY <1>1 DEF Lessons
  <2>2. t.epoch = e1 /\ t.record = shuffles[e1][p]
    BY <2>1 DEF Lesson
  <2>3. e1 = e /\ order[p] = i
    BY <2>2
  <2>4. p = p0
    <3>. HIDE DEF order
    <3>. QED
      BY <1>3, <1>4, <2>3 DEF IsInjective, Injection
  <2>. QED
    BY <2>1, <2>3, <2>4
<1>7. T = {Lesson(e, p0)}
  BY <1>5, <1>6
<1>. HIDE DEF T
<1>8. Cardinality({Lesson(e, p0)}) = 1
  BY FS_Singleton, Zenon
<1>. QED
  BY <1>7, <1>8 DEF T

\* When an inner training ends well, every selected row that fits was trained
\* in every epoch, none was left out of an epoch or seen twice in it, and no
\* two ranks trained the same record: the length buckets, the shuffle and the
\* strided shards of the ranks lose and repeat nothing.
THEOREM EveryEpochCoversTheRows == Spec => []EpochsCoverTheRows
<1>1. IInv => EpochsCoverTheRows
  <2>. SUFFICES ASSUME IInv, outcome = "trained"
                PROVE  /\ {Fitting[i] : i \in DOMAIN Fitting}
                             = {records[i].history : i \in DOMAIN records}
                       /\ \A e \in 1..Epochs, i \in DOMAIN records :
                             Cardinality({t \in trained : t.epoch = e /\ t.record = i}) = 1
    BY DEF EpochsCoverTheRows
  <2>1. Inputs /\ Sizing /\ records # <<>>
    BY TrainedWhole DEF IInv
  <2>2. DOMAIN records = 1..Len(records)
    BY <2>1, StepSizes
  <2>. QED
    BY <2>1, <2>2, RecordsAreTheRows, TrainedOnce
<1>. QED
  BY <1>1, TrainerInvariant, PTL

\* The ranks stand at most one collective step apart, and what was sized,
\* cached and saved has its type.
THEOREM TrainerTypeCorrect == Spec => []TypeOK
<1>1. IInv => TypeOK
  <2>. SUFFICES ASSUME IInv PROVE TypeOK
    OBVIOUS
  <2>1. Inputs /\ Sizing /\ Lockstep /\ Ends
    BY DEF IInv
  <2>2. records \in Seq(RecordType)
    <3>1. CASE records = <<>>
      BY <3>1
    <3>2. CASE records # <<>>
      BY <2>1, <3>2, StepSizes
    <3>. QED
      BY <3>1, <3>2
  <2>3. \A r \in Ranks :
           /\ rank[r].pc \in {"load", "epoch", "fetch", "step", "done", "failed"}
           /\ rank[r].epoch \in 0..Epochs
           /\ rank[r].step = rank[0].step
    BY <2>1 DEF Lockstep, RankType
  <2>4. checkpoint \in Nat
    <3>1. rank[0].step \in Nat
      BY <2>1, FirstRank DEF Lockstep, RankType
    <3>. QED
      BY <2>1, <3>1 DEF Lockstep
  <2>. QED
    BY <2>1, <2>2, <2>3, <2>4 DEF TypeOK, Sizing, Lockstep, Ends, RecordType
<1>. QED
  BY <1>1, TrainerInvariant, PTL

\* A step that is sized and can be cached is trained to its last step and
\* saved there: the loop is never left without a checkpoint by a training
\* in which no rank failed and no text was lost.
THEOREM EveryTrainingIsSaved == Spec => []TrainedMeansSaved
<1>1. IInv /\ TypeOK => TrainedMeansSaved
  <2>. SUFFICES ASSUME IInv, phase = "over", batchSize > 0, sameCode, failures = 0,
                       NothingIsLost
                PROVE  /\ outcome = "trained"
                       /\ checkpoint = (Len(records) \div batchSize) * Epochs
    BY DEF TrainedMeansSaved
  <2>1. outcome = "trained"
    BY DEF IInv, Ends
  <2>2. checkpoint = Epochs * StepsIn /\ Inputs /\ Sizing /\ records # <<>>
    BY <2>1, TrainedWhole DEF IInv
  <2>3. Epochs * StepsIn = StepsIn * Epochs
    BY <2>2, Numbers, StepSizes
  <2>. QED
    BY <2>1, <2>2, <2>3 DEF StepsIn
<1>. QED
  BY <1>1, TrainerInvariant, TrainerTypeCorrect, PTL

\* No row is cached of which an assistant text was lost.
NoLossIsCached ==
    /\ keeps \in BOOLEAN
    /\ \A i \in DOMAIN records : ~tokenized[records[i].history].loss.lost

\* The token cache refuses such rows, and the records stay as they are.
LEMMA NoLossIsCachedStays ==
  /\ Init => NoLossIsCached
  /\ NoLossIsCached /\ [Next]_vars => NoLossIsCached'
<1>1. Init => NoLossIsCached
  BY DEF Init, NoLossIsCached
<1>2. ASSUME NoLossIsCached, [Next]_vars PROVE NoLossIsCached'
  <2>1. ASSUME UNCHANGED <<keeps, tokenized, records>> PROVE NoLossIsCached'
    BY <1>2, <2>1 DEF NoLossIsCached
  <2>2. CASE SizeBatch
    BY <2>1, <2>2, Zenon DEF SizeBatch, inputs
  <2>3. CASE WriteTokenCache
    <3>. DEFINE rows == Upsample(Fitting, batchSize)
    <3>1. UNCHANGED <<keeps, tokenized>>
      BY <2>3, Zenon DEF WriteTokenCache, inputs
    <3>2. CASE \E i \in DOMAIN rows : RecordRaises(rows[i])
      <4>1. UNCHANGED records
        BY <2>3, <3>2, Zenon DEF WriteTokenCache
      <4>. QED
        BY <2>1, <3>1, <4>1
    <3>3. CASE ~\E i \in DOMAIN rows : RecordRaises(rows[i])
      <4>1. records' = [i \in DOMAIN rows |-> Record(rows[i])]
        BY <2>3, <3>3, Zenon DEF WriteTokenCache
      <4>. HIDE DEF rows
      <4>2. ASSUME NEW i \in DOMAIN records'
            PROVE  ~tokenized[records'[i].history].loss.lost
        <5>1. i \in DOMAIN rows /\ records'[i] = Record(rows[i])
          BY <4>1
        <5>2. records'[i].history = rows[i]
          BY <5>1 DEF Record
        <5>3. ~tokenized[rows[i]].loss.lost
          BY <3>3, <5>1, Zenon DEF RecordRaises
        <5>. QED
          BY <5>2, <5>3
      <4>. QED
        BY <1>2, <3>1, <4>2 DEF NoLossIsCached
    <3>. QED
      BY <3>2, <3>3
  <2>4. ASSUME NEW r \in Ranks, RankSteps(r) \/ RankFails(r)
        PROVE  NoLossIsCached'
    <3>1. CASE LoadDataset(r)
      BY <2>1, <3>1, Zenon DEF LoadDataset, inputs
    <3>2. CASE BeginEpoch(r)
      BY <2>1, <3>2, Zenon DEF BeginEpoch, inputs
    <3>3. CASE FetchBatch(r)
      BY <2>1, <3>3, Zenon DEF FetchBatch, inputs
    <3>4. CASE RankFails(r)
      BY <2>1, <3>4, Zenon DEF RankFails, inputs
    <3>. QED
      BY <2>4, <3>1, <3>2, <3>3, <3>4 DEF RankSteps
  <2>5. CASE TrainingStep
    BY <2>1, <2>5, Zenon DEF TrainingStep, inputs
  <2>6. CASE TorchrunFails
    BY <2>1, <2>6, Zenon DEF TorchrunFails, inputs
  <2>7. CASE TorchrunEnds
    BY <2>1, <2>7, Zenon DEF TorchrunEnds, inputs
  <2>8. CASE UNCHANGED vars
    BY <2>1, <2>8, Zenon DEF vars
  <2>. QED
    BY <1>2, <2>2, <2>3, <2>4, <2>5, <2>6, <2>7, <2>8 DEF Next
<1>. QED
  BY <1>1, <1>2

\* The loss is on what the model wrote and nowhere else: the mask of each
\* record is the assistant turns of its row with their end markers, whatever
\* the texts repeat and whether the template keeps thoughts or not, when the
\* texts stand apart from the template.
THEOREM LossOnAssistantTurns ==
  ASSUME TextsStandApart
  PROVE  Spec => []LossIsOnAssistantTurns
<1>1. IInv /\ NoLossIsCached => LossIsOnAssistantTurns
  <2>. SUFFICES ASSUME IInv, NoLossIsCached, NEW i \in DOMAIN records
                PROVE  records[i].mask = AssistantText(records[i].history)
    BY DEF LossIsOnAssistantTurns
  <2>1. Inputs /\ Sizing
    BY DEF IInv
  <2>2. records # <<>>
    OBVIOUS
  <2>3. records = Cached /\ batchSize > 0
    BY <2>1, <2>2, Zenon DEF Sizing
  <2>4. PICK h : h = Upsample(Fitting, batchSize)[i]
    OBVIOUS
  <2>5. h \in DOMAIN Histories /\ records[i] = Record(h)
    <3>1. /\ \A k \in 1..Len(Cached) :
                Upsample(Fitting, batchSize)[k] \in DOMAIN Histories
          /\ DOMAIN Upsample(Fitting, batchSize) = 1..Len(Cached)
      BY <2>1, <2>3, CachedRecords, Zenon
    <3>2. i \in DOMAIN Upsample(Fitting, batchSize)
      BY <2>3 DEF Cached
    <3>3. records[i] = Record(Upsample(Fitting, batchSize)[i])
      BY <2>3, <3>2, Zenon DEF Cached
    <3>. QED
      BY <2>4, <3>1, <3>2, <3>3
  <2>6. records[i].history = h /\ records[i].mask = tokenized[h].loss.mask
    BY <2>5 DEF Record
  <2>7. keeps \in BOOLEAN /\ ~tokenized[h].loss.lost
    BY <2>6 DEF NoLossIsCached
  <2>8. tokenized[h].loss = LossSpans(Messages(Histories[h]), keeps)
    BY <2>1, <2>5 DEF Inputs, Serialized
  <2>9. LossSpans(Messages(Histories[h]), keeps).mask
          = AssistantTurns(Messages(Histories[h]), keeps,
                           DOMAIN Messages(Histories[h]))
    BY <2>5, <2>7, <2>8, LossOnTurns
  <2>10. AssistantText(h) = AssistantTurns(Messages(Histories[h]), keeps,
                                           DOMAIN Messages(Histories[h]))
    BY Zenon DEF AssistantText, AssistantTurns
  <2>. QED
    BY <2>6, <2>8, <2>9, <2>10
<1>2. Spec => []NoLossIsCached
  BY NoLossIsCachedStays, PTL DEF Spec
<1>. QED
  BY <1>1, <1>2, TrainerInvariant, PTL

-----------------------------------------------------------------------------
(* The ranks together are one trainer                                      *)

\* A block of blocks is a block.
LEMMA NestedBlocks ==
  ASSUME NEW ranks \in Nat, ranks > 0, NEW share \in Nat, share > 0,
         NEW steps \in Nat, NEW x \in Nat, x < steps * (share * ranks)
  PROVE  (x \div ranks) \div share = x \div (share * ranks)
<1>. DEFINE b    == (x \div ranks) \div share
            a    == (x \div ranks) % share
            r    == x % ranks
            y    == a * ranks + r
            size == share * ranks
<1>1. /\ r \in 0..(ranks - 1) /\ b \in 0..(steps - 1) /\ a \in 0..(share - 1)
      /\ x = (b * share + a) * ranks + r
  BY BatchOfPlace
<1>2. size \in Nat /\ size > 0
  OBVIOUS
<1>. HIDE DEF a, b, r
<1>3. y \in 0..(size - 1)
  <2>1. PICK d \in Nat : share = a + 1 + d
    <3>1. share - (a + 1) \in Nat /\ share = a + 1 + (share - (a + 1))
      BY <1>1
    <3>. QED
      BY <3>1
  <2>2. size = a * ranks + ranks + d * ranks /\ d * ranks \in Nat /\ a * ranks \in Nat
    BY <1>1, <2>1
  <2>. QED
    BY <1>1, <2>2
<1>4. x = b * size + y
  BY <1>1
<1>5. b \in Nat
  BY <1>1
<1>. HIDE DEF y, size
<1>6. x \div size = b
  BY <1>2, <1>3, <1>4, <1>5, QuotientOf
<1>. QED
  BY <1>6 DEF b, size

\* The places of a shuffle a batch of all ranks is made of.
PlacesOf(b) == {p \in 1..Len(records) : BlockOf(p) = b}

\* They are batchSize places in a row.
LEMMA PlacesInARow ==
  ASSUME Inputs, Sizing, records # <<>>, NEW b \in 0..(StepsIn - 1)
  PROVE  /\ b * batchSize \in Nat
         /\ PlacesOf(b) = (b * batchSize + 1)..(b * batchSize + batchSize)
<1>. DEFINE size == batchSize
            low  == b * size
            n    == Len(records)
<1>1. /\ PerRank \in Nat /\ PerRank > 0 /\ size = PerRank * WorldSize
      /\ StepsIn \in Nat /\ n \in Nat /\ n = StepsIn * (PerRank * WorldSize)
      /\ WorldSize \in Nat /\ WorldSize > 0
  BY StepSizes, Numbers
<1>2. size \in Nat /\ size > 0 /\ n = StepsIn * size
  BY <1>1
<1>3. low \in Nat /\ low + size <= n
  <2>1. PICK d \in Nat : StepsIn = b + 1 + d
    <3>1. StepsIn - (b + 1) \in Nat /\ StepsIn = b + 1 + (StepsIn - (b + 1))
      BY <1>1
    <3>. QED
      BY <3>1
  <2>2. StepsIn * size = b * size + size + d * size /\ d * size \in Nat /\ b * size \in Nat
    BY <1>2, <2>1
  <2>. QED
    BY <1>2, <2>2
<1>4. ASSUME NEW p \in 1..n
      PROVE  BlockOf(p) = (p - 1) \div size
  <2>. DEFINE x == p - 1
  <2>1. x \in Nat /\ x < StepsIn * (PerRank * WorldSize)
    BY <1>1
  <2>2. BlockOf(p) = (x \div WorldSize) \div PerRank
    BY DEF BlockOf
  <2>. HIDE DEF x
  <2>3. (x \div WorldSize) \div PerRank = x \div (PerRank * WorldSize)
    BY <1>1, <2>1, NestedBlocks
  <2>. QED
    BY <1>1, <2>2, <2>3 DEF x
<1>5. PlacesOf(b) = {p \in 1..n : BlockOf(p) = b}
  BY DEF PlacesOf
<1>. HIDE DEF n, size
<1>6. ASSUME NEW p \in 1..n, BlockOf(p) = b
      PROVE  p \in (low + 1)..(low + size)
  <2>. DEFINE x == p - 1
  <2>1. x \in Nat /\ x < StepsIn * size /\ x \div size = b
    BY <1>1, <1>2, <1>4, <1>6
  <2>. HIDE DEF x
  <2>2. x % size \in 0..(size - 1) /\ x = (x \div size) * size + (x % size)
    BY <1>1, <1>2, <2>1, BlockBelow
  <2>3. x = low + (x % size)
    BY <2>1, <2>2
  <2>. HIDE DEF low
  <2>. QED
    BY <1>2, <1>3, <2>1, <2>2, <2>3 DEF x
<1>7. ASSUME NEW p \in (low + 1)..(low + size)
      PROVE  p \in 1..n /\ BlockOf(p) = b
  <2>. DEFINE x == p - 1
              y == p - 1 - low
  <2>1. p \in 1..n /\ x \in Nat /\ y \in 0..(size - 1) /\ x = low + y
    <3>. HIDE DEF low
    <3>. QED
      BY <1>1, <1>2, <1>3
  <2>2. BlockOf(p) = x \div size
    BY <1>4, <2>1
  <2>. HIDE DEF x, y
  <2>3. x = b * size + y
    BY <2>1
  <2>4. b \in Nat
    BY <1>1
  <2>5. x \div size = b
    BY <1>2, <2>1, <2>3, <2>4, QuotientOf
  <2>. QED
    BY <2>1, <2>2, <2>5
<1>. HIDE DEF low
<1>8. PlacesOf(b) = (low + 1)..(low + size)
  BY <1>5, <1>6, <1>7
<1>. QED
  BY <1>3, <1>8 DEF low, size

\* A batch of all ranks: whatever the shuffle, batchSize records.
LEMMA BatchIsWhole ==
  ASSUME Inputs, Sizing, records # <<>>, NEW order \in Shuffles(records, batchSize),
         NEW b \in 0..(StepsIn - 1)
  PROVE  LET batch == {order[p] : p \in PlacesOf(b)}
         IN  batch \in SUBSET (1..Len(records)) /\ Cardinality(batch) = batchSize
<1>. DEFINE S == PlacesOf(b)
            T == {order[p] : p \in S}
            f == [p \in S |-> order[p]]
            n == Len(records)
<1>1. order \in [1..n -> 1..n] /\ IsInjective(order)
  BY ShuffleFacts
<1>2. \A p \in S : p \in 1..n
  BY DEF PlacesOf
<1>3. IsFiniteSet(S) /\ Cardinality(S) = batchSize
  <2>. DEFINE low == b * batchSize
  <2>1. low \in Nat /\ S = (low + 1)..(low + batchSize)
    BY PlacesInARow
  <2>. HIDE DEF low, S
  <2>2. batchSize \in Nat /\ batchSize > 0
    BY DEF Sizing
  <2>3. /\ IsFiniteSet((low + 1)..(low + batchSize))
        /\ Cardinality((low + 1)..(low + batchSize))
              = IF low + 1 > low + batchSize THEN 0
                ELSE (low + batchSize) - (low + 1) + 1
    <3>1. low + 1 \in Int /\ low + batchSize \in Int
      BY <2>1, <2>2
    <3>. QED
      BY <3>1, FS_Interval, Zenon
  <2>. QED
    BY <2>1, <2>2, <2>3
<1>. HIDE DEF S, n
<1>4. f \in Bijection(S, T)
  <2>1. f \in [S -> T]
    OBVIOUS
  <2>2. \A p, q \in S : f[p] = f[q] => p = q
    BY <1>1, <1>2 DEF IsInjective, Injection
  <2>3. \A t \in T : \E p \in S : f[p] = t
    OBVIOUS
  <2>. HIDE DEF f, T
  <2>. QED
    BY <2>1, <2>2, <2>3 DEF Bijection, Injection, Surjection, IsInjective
<1>5. ExistsBijection(S, T)
  BY <1>4 DEF ExistsBijection
<1>6. Cardinality(T) = Cardinality(S)
  <2>. HIDE DEF T
  <2>. QED
    BY <1>3, <1>5, FS_Bijection, Zenon
<1>7. T \in SUBSET (1..n)
  BY <1>1, <1>2
<1>. QED
  BY <1>3, <1>6, <1>7 DEF S, n

\* What was trained in a step is of its epoch and its batch.
LEMMA LessonIsOfItsBatch ==
  ASSUME IInv, records # <<>>, NEW k, NEW i \in LessonOf(k)
  PROVE  \E e \in 1..Len(shuffles), p \in 1..Len(records) :
            /\ k = LessonStep(e, p) /\ i = shuffles[e][p]
            /\ k <= rank[0].step
<1>1. PICK t \in trained : t.step = k /\ t.record = i
  BY DEF LessonOf
<1>2. PICK e \in 1..Len(shuffles), p \in 1..Len(records) :
         LessonStep(e, p) <= rank[0].step /\ t = Lesson(e, p)
  BY <1>1 DEF IInv, Lessons
<1>3. t.step = LessonStep(e, p) /\ t.record = shuffles[e][p]
  BY <1>2 DEF Lesson
<1>. QED
  BY <1>1, <1>2, <1>3

\* A training step is the lesson of one whole batch of the epoch the ranks
\* are in, and leaves the lessons before it as they were.
LEMMA NextLesson ==
  ASSUME IInv, TrainingStep
  PROVE  /\ {t.record : t \in {u \in trained' : u.step = rank[0].step + 1}}
              = {shuffles[rank[0].epoch][p] : p \in PlacesOf(rank[0].batch)}
         /\ \A k \in 1..rank[0].step :
               {t.record : t \in {u \in trained' : u.step = k}} = LessonOf(k)
<1>. DEFINE e0 == rank[0].epoch
            b0 == rank[0].batch
            s  == rank[0].step
            order == shuffles[e0]
            New(r) == {[epoch |-> rank[r].epoch, record |-> i, rank |-> r,
                        step |-> rank[r].step + 1] :
                          i \in BatchOf(shuffles[rank[r].epoch], r, PerRank, rank[r].batch)}
            Now(r) == {[epoch |-> e0, record |-> i, rank |-> r, step |-> s + 1] :
                          i \in {order[p] : p \in Share(b0, r)}}
<1>1. /\ Inputs /\ Sizing /\ Lockstep /\ Lessons /\ records # <<>>
      /\ phase = "ranks" /\ \A r \in Ranks : rank[r].pc = "step"
  BY DEF IInv, Sizing, TrainingStep
<1>2. /\ e0 \in 1..Len(shuffles) /\ b0 \in 0..(StepsIn - 1) /\ s \in Nat
      /\ \A r \in Ranks : rank[r].epoch = e0 /\ rank[r].batch = b0 /\ rank[r].step = s
  BY <1>1, StandTogether
<1>3. trained' = trained \cup UNION {New(r) : r \in Ranks}
  BY DEF TrainingStep
<1>4. order \in Shuffles(records, batchSize)
  BY <1>1, <1>2 DEF Lockstep
<1>5. ASSUME NEW r \in Ranks PROVE New(r) = Now(r)
  <2>1. BatchOf(order, r, PerRank, b0) = {order[p] : p \in Share(b0, r)}
    <3>. HIDE DEF order
    <3>. QED
      BY <1>1, <1>2, <1>4, BatchShare
  <2>. QED
    BY <1>2, <2>1
<1>6. \A t \in trained : t.step <= s
  <2>1. ASSUME NEW t \in trained PROVE t.step <= s
    <3>1. PICK e \in 1..Len(shuffles), p \in 1..Len(records) :
             LessonStep(e, p) <= s /\ t = Lesson(e, p)
      BY <1>1 DEF Lessons
    <3>2. t.step = LessonStep(e, p)
      BY <3>1 DEF Lesson
    <3>. QED
      BY <3>1, <3>2
  <2>. QED
    BY <2>1
<1>7. \A t \in trained' : t \in trained \/ \E r \in Ranks : t \in Now(r)
  BY <1>3, <1>5
<1>8. \A r \in Ranks : \A t \in Now(r) : t \in trained'
  BY <1>3, <1>5
<1>9. \A t \in trained : t \in trained'
  BY <1>3
<1>. HIDE DEF New, s, e0, b0, order
<1>10. \A r \in Ranks : \A t \in Now(r) :
          /\ t.step = s + 1
          /\ \E p \in Share(b0, r) : t.record = order[p]
  OBVIOUS
<1>11. ASSUME NEW p \in PlacesOf(b0)
       PROVE  \E t \in trained' : t.step = s + 1 /\ t.record = order[p]
  <2>. DEFINE r == (p - 1) % WorldSize
              t == [epoch |-> e0, record |-> order[p], rank |-> r, step |-> s + 1]
  <2>1. r \in Ranks /\ p \in Share(b0, r)
    BY <1>1, StepSizes, Numbers DEF PlacesOf, Share, Ranks
  <2>2. t \in Now(r)
    BY <2>1
  <2>3. t.step = s + 1 /\ t.record = order[p]
    OBVIOUS
  <2>. QED
    BY <1>8, <2>1, <2>2, <2>3
<1>12. ASSUME NEW t \in trained', t.step = s + 1
       PROVE  \E p \in PlacesOf(b0) : t.record = order[p]
  <2>1. t \notin trained
    BY <1>2, <1>6, <1>12
  <2>2. PICK r \in Ranks : t \in Now(r)
    BY <1>7, <2>1
  <2>3. PICK p \in Share(b0, r) : t.record = order[p]
    BY <1>10, <2>2
  <2>. QED
    BY <2>3 DEF Share, PlacesOf
<1>13. ASSUME NEW k \in 1..s, NEW t \in trained', t.step = k
       PROVE  t \in trained
  <2>1. ASSUME NEW r \in Ranks, t \in Now(r) PROVE FALSE
    <3>1. t.step = s + 1
      BY <1>10, <2>1
    <3>. QED
      BY <1>2, <1>13, <3>1
  <2>. QED
    BY <1>7, <2>1
<1>14. ASSUME NEW k \in 1..s
       PROVE  {t.record : t \in {u \in trained' : u.step = k}} = LessonOf(k)
  <2>1. {u \in trained' : u.step = k} = {u \in trained : u.step = k}
    BY <1>9, <1>13
  <2>. QED
    BY <2>1 DEF LessonOf
<1>15. {t.record : t \in {u \in trained' : u.step = s + 1}} = {order[p] : p \in PlacesOf(b0)}
  BY <1>11, <1>12
<1>. QED
  BY <1>14, <1>15 DEF s, e0, b0, order

\* A row of the next lesson is in no lesson before it of the same epoch.
LEMMA LessonsApart ==
  ASSUME IInv, records # <<>>,
         NEW e0 \in 1..Len(shuffles), NEW b0 \in 0..(StepsIn - 1),
         rank[0].step = (e0 - 1) * StepsIn + b0,
         NEW k \in 1..rank[0].step,
         (k - 1) \div StepsIn = rank[0].step \div StepsIn,
         NEW q \in PlacesOf(b0)
  PROVE  shuffles[e0][q] \notin LessonOf(k)
<1>. DEFINE s == rank[0].step
            n == StepsIn
<1>. SUFFICES ASSUME shuffles[e0][q] \in LessonOf(k) PROVE FALSE
  OBVIOUS
<1>1. /\ Inputs /\ Sizing /\ Lockstep /\ n \in Nat /\ n > 0
      /\ shuffles \in Seq(Shuffles(records, batchSize)) /\ Len(shuffles) \in Nat
  BY StepSizes DEF IInv, Lockstep
<1>2. PICK e \in 1..Len(shuffles), p \in 1..Len(records) :
         k = LessonStep(e, p) /\ shuffles[e0][q] = shuffles[e][p] /\ k <= s
  BY LessonIsOfItsBatch
<1>3. e \in Nat /\ e >= 1 /\ e - 1 \in Nat /\ e0 - 1 \in Nat /\ e0 \in Nat
  BY <1>1
<1>4. k = (e - 1) * n + BlockOf(p) + 1 /\ BlockOf(p) \in 0..(n - 1)
  BY <1>1, <1>2, <1>3, BlockFacts
<1>5. q \in 1..Len(records) /\ BlockOf(q) = b0
  BY DEF PlacesOf
<1>. DEFINE d  == e - 1
            d0 == e0 - 1
            b  == BlockOf(p)
            x  == k - 1
<1>6. d \in Nat /\ d0 \in Nat /\ b \in 0..(n - 1) /\ b0 \in 0..(n - 1)
  BY <1>3, <1>4
<1>7. x \in Nat /\ x = d * n + b
  <2>1. PICK y : y = d * n
    OBVIOUS
  <2>2. y \in Nat
    BY <1>1, <1>6, <2>1
  <2>3. k = y + b + 1
    BY <1>4, <2>1, Zenon
  <2>. HIDE DEF b
  <2>4. x = y + b /\ x \in Nat
    BY <1>6, <2>2, <2>3
  <2>. QED
    BY <2>1, <2>4, Zenon
<1>8. s \in Nat /\ s = d0 * n + b0
  <2>1. d0 * n \in Nat
    BY <1>1, <1>6
  <2>. QED
    BY <2>1
<1>9. x < s
  BY <1>8, <1>2
<1>10. x \div n = s \div n
  OBVIOUS
<1>. HIDE DEF d, d0, b, x, s, n
<1>11. x \div n = d
  BY <1>1, <1>6, <1>7, QuotientOf
<1>12. s \div n = d0
  BY <1>1, <1>6, <1>8, QuotientOf
<1>13. d = d0
  BY <1>10, <1>11, <1>12
<1>14. b # b0
  <2>. SUFFICES ASSUME b = b0 PROVE FALSE
    OBVIOUS
  <2>1. x = s
    BY <1>7, <1>8, <1>13, Zenon
  <2>. QED
    BY <1>8, <1>9, <2>1
<1>15. e = e0
  BY <1>3, <1>13 DEF d, d0
<1>16. p = q
  <2>. DEFINE order == shuffles[e0]
  <2>1. order \in Shuffles(records, batchSize) /\ order[q] = order[p]
    BY <1>1, <1>2, <1>15
  <2>. HIDE DEF order
  <2>2. order \in [1..Len(records) -> 1..Len(records)] /\ IsInjective(order)
    BY <1>1, <2>1, ShuffleFacts
  <2>. QED
    BY <1>5, <2>1, <2>2 DEF IsInjective, Injection
<1>. QED
  BY <1>5, <1>14, <1>16 DEF b

\* A training step of the ranks is a batch of the one trainer.
LEMMA TrainingStepTrains ==
  ASSUME IInv, TrainingStep
  PROVE  Training!Train
<1>. DEFINE e0    == rank[0].epoch
            b0    == rank[0].batch
            s     == rank[0].step
            order == shuffles[e0]
            batch == {order[p] : p \in PlacesOf(b0)}
            taught  == [k \in 1..s |-> LessonOf(k)]
            After(k) == {t.record : t \in {u \in trained' : u.step = k}}
<1>1. /\ Inputs /\ Sizing /\ Lockstep /\ Ends /\ Lessons /\ records # <<>>
      /\ phase = "ranks" /\ \A r \in Ranks : rank[r].pc = "step"
      /\ UNCHANGED <<batchSize, records, outcome>> /\ 0 \in Ranks
  BY FirstRank DEF IInv, Sizing, TrainingStep
<1>2. /\ e0 \in 1..Len(shuffles) /\ b0 \in 0..(StepsIn - 1) /\ s \in Nat
      /\ s = (e0 - 1) * StepsIn + b0 /\ s < Epochs * StepsIn
  BY <1>1, StandTogether
<1>3. order \in Shuffles(records, batchSize)
  BY <1>1, <1>2 DEF Lockstep
<1>4. outcome = "none" /\ Len(records) \in Nat /\ Len(records) > 0
  BY <1>1, StepSizes DEF Ends
<1>5. batch \in SUBSET (1..Len(records)) /\ Cardinality(batch) = batchSize
  <2>. HIDE DEF order, b0
  <2>. QED
    BY <1>1, <1>2, <1>3, BatchIsWhole
<1>6. rank'[0].step = s + 1
  BY <1>1 DEF TrainingStep, Lockstep, RankType
<1>7. After(s + 1) = batch /\ \A k \in 1..s : After(k) = LessonOf(k)
  BY NextLesson
<1>8. checkpoint' = IF s + 1 = Epochs * StepsIn THEN s + 1 ELSE 0
  <2>1. IInv'
    BY TrainingStepKeeps
  <2>2. records' # <<>> /\ StepsIn' = StepsIn
    BY <1>1 DEF StepsIn
  <2>. QED
    BY <1>6, <2>1, <2>2 DEF IInv, Lockstep
<1>9. ASSUME NEW k \in 1..s, (k - 1) \div StepsIn = s \div StepsIn
      PROVE  LessonOf(k) \cap batch = {}
  <2>1. \A q \in PlacesOf(b0) : shuffles[e0][q] \notin LessonOf(k)
    BY <1>1, <1>2, <1>9, LessonsApart
  <2>. QED
    BY <2>1
<1>. HIDE DEF batch, order, e0, b0, s
<1>10. Len(taught) = s /\ DOMAIN taught = 1..s /\ \A k \in 1..s : taught[k] = LessonOf(k)
  BY <1>2
<1>11. [k \in 1..(s + 1) |-> After(k)] = Append(taught, batch)
  <2>1. \A k \in 1..(s + 1) : k \in 1..s \/ k = s + 1
    BY <1>2
  <2>2. Append(taught, batch)
          = [k \in 1..(s + 1) |-> IF k = s + 1 THEN batch ELSE taught[k]]
    BY <1>2, <1>10
  <2>3. \A k \in 1..s : k # s + 1
    BY <1>2
  <2>4. \A k \in 1..(s + 1) : After(k) = IF k = s + 1 THEN batch ELSE taught[k]
    <3>. HIDE DEF After, taught
    <3>. QED
      BY <1>7, <1>10, <2>1, <2>3, Zenon
  <2>. HIDE DEF After, taught
  <2>. QED
    BY <2>2, <2>4
<1>12. Len(Append(taught, batch)) = s + 1
  <2>. HIDE DEF After
  <2>1. DOMAIN Append(taught, batch) = 1..(s + 1)
    BY <1>11, Zenon
  <2>. QED
    BY <1>2, <1>10
<1>13. \A k \in DOMAIN taught :
          Training!SameEpoch(k, Len(taught) + 1) => taught[k] \cap batch = {}
  <2>1. ASSUME NEW k \in 1..s, Training!SameEpoch(k, s + 1)
        PROVE  LessonOf(k) \cap batch = {}
    <3>1. (k - 1) \div StepsIn = ((s + 1) - 1) \div StepsIn
      BY <1>1, <2>1 DEF Training!SameEpoch, Training!BatchesPerEpoch, StepsIn
    <3>2. (s + 1) - 1 = s
      BY <1>2
    <3>3. (k - 1) \div StepsIn = s \div StepsIn
      BY <3>1, <3>2
    <3>. QED
      BY <1>9, <3>3
  <2>. HIDE DEF taught
  <2>. QED
    BY <1>10, <2>1, Zenon
<1>. DEFINE lessons == [k \in 1..rank[0].step |-> LessonOf(k)]
            given == IF records = <<>> THEN 0 ELSE batchSize
<1>14. lessons = taught
  BY DEF s
<1>15. lessons' = Append(taught, batch)
  BY <1>6, <1>11 DEF LessonOf
<1>16. given = batchSize /\ given' = given
  BY <1>1
<1>17. Training!BatchesPerEpoch = StepsIn
  BY <1>1 DEF Training!BatchesPerEpoch, StepsIn
<1>18. \E b \in SUBSET (1..Len(records)) :
          /\ Cardinality(b) = given
          /\ \A k \in DOMAIN lessons :
                Training!SameEpoch(k, Len(lessons) + 1) => lessons[k] \cap b = {}
          /\ lessons' = Append(lessons, b)
  <2>. HIDE DEF lessons, taught, given
  <2>. QED
    BY <1>5, <1>13, <1>14, <1>15, <1>16, Zenon
<1>19. Len(lessons) < Epochs * Training!BatchesPerEpoch
  BY <1>2, <1>10, <1>14, <1>17 DEF s
<1>20. checkpoint' = IF Len(lessons') = Epochs * Training!BatchesPerEpoch
                     THEN Len(lessons') ELSE 0
  <2>1. Len(lessons') = s + 1
    BY <1>12, <1>15
  <2>. QED
    BY <1>8, <1>17, <2>1
<1>21. UNCHANGED <<Len(records), given, outcome>>
  BY <1>1, <1>16
<1>. QED
  BY <1>4, <1>18, <1>19, <1>20, <1>21 DEF Training!Train, Training!Cardinality, Cardinality

\* What the trainer leaves alone the contract does not see.
LEMMA ContractStutters ==
  ASSUME UNCHANGED <<records, batchSize, trained, checkpoint>>,
         rank'[0].step = rank[0].step
  PROVE  /\ UNCHANGED <<Len(records), IF records = <<>> THEN 0 ELSE batchSize,
                        [k \in 1..rank[0].step |-> LessonOf(k)], checkpoint>>
         /\ UNCHANGED outcome => UNCHANGED Training!vars
BY DEF LessonOf, Training!vars

\* Every step of the loop, the ranks and torchrun is one of the contract, or
\* changes nothing it speaks of.
LEMMA TrainerStep ==
  ASSUME IInv, [Next]_vars
  PROVE  [Training!Next]_(Training!vars)
<1>1. /\ Inputs /\ Sizing /\ Lockstep /\ Ends /\ 0 \in Ranks
      /\ rank \in [Ranks -> RankType]
  BY FirstRank DEF IInv, Lockstep
<1>2. CASE SizeBatch
  <2>1. records = <<>> /\ records' = <<>> /\ outcome = "none"
        /\ UNCHANGED <<trained, checkpoint, rank>>
    BY <1>1, <1>2 DEF SizeBatch, Sizing, Ends
  <2>2. outcome' = "raised" \/ outcome' = "skipped" \/ outcome' = outcome
    BY <1>2 DEF SizeBatch, End
  <2>3. UNCHANGED <<Len(records), IF records = <<>> THEN 0 ELSE batchSize,
                    [k \in 1..rank[0].step |-> LessonOf(k)], checkpoint>>
    BY <2>1 DEF LessonOf
  <2>. QED
    BY <2>1, <2>2, <2>3 DEF Training!Next, Training!End, Training!vars
<1>3. CASE WriteTokenCache
  <2>1. records = <<>> /\ outcome = "none" /\ phase = "cache"
        /\ UNCHANGED <<batchSize, trained, checkpoint, rank>>
    BY <1>1, <1>3 DEF WriteTokenCache, Sizing, Ends
  <2>2. UNCHANGED <<[k \in 1..rank[0].step |-> LessonOf(k)], checkpoint>>
    BY <2>1 DEF LessonOf
  <2>3. \/ outcome' = "raised" /\ records' = records
        \/ outcome' = outcome /\ phase' = "ranks"
    BY <1>3 DEF WriteTokenCache, End
  <2>4. CASE outcome' = "raised" /\ records' = records
    <3>1. UNCHANGED <<Len(records), IF records = <<>> THEN 0 ELSE batchSize>>
      BY <2>1, <2>4
    <3>2. Training!End
      BY <2>1, <2>2, <2>4, <3>1 DEF Training!End
    <3>. QED
      BY <3>2 DEF Training!Next
  <2>5. CASE outcome' = outcome /\ phase' = "ranks"
    <3>1. batchSize > 0 /\ batchSize \in Nat /\ batchSize' = batchSize
      BY <1>1, <2>1 DEF Sizing
    <3>2. records' = Cached
      BY <1>3, <2>1, <2>5 DEF WriteTokenCache, End, Cached
    <3>3. /\ Cached \in Seq(RecordType) /\ Len(Cached) >= batchSize
          /\ Len(Cached) % batchSize = 0
      BY <1>1, <3>1, CachedRecords
    <3>4. /\ Len(records') \in Nat \ {0} /\ batchSize' \in 1..Len(records')
          /\ Len(records') % batchSize' = 0
      <4>. DEFINE n == Len(records')
      <4>1. n \in Nat /\ n >= batchSize' /\ n % batchSize' = 0
        BY <3>1, <3>2, <3>3
      <4>. HIDE DEF n
      <4>2. n \in Nat \ {0} /\ batchSize' \in 1..n
        BY <3>1, <4>1
      <4>. QED
        BY <4>1, <4>2 DEF n
    <3>5. Len(records) = 0
      BY <2>1
    <3>6. records' # <<>>
      BY <3>4
    <3>7. Training!Give
      BY <2>1, <2>2, <2>5, <3>4, <3>5, <3>6 DEF Training!Give
    <3>. QED
      BY <3>7 DEF Training!Next
  <2>. QED
    BY <2>3, <2>4, <2>5
<1>4. ASSUME NEW r \in Ranks, RankSteps(r) \/ RankFails(r)
      PROVE  UNCHANGED Training!vars
  <2>1. UNCHANGED <<records, batchSize, trained, checkpoint, outcome>>
    BY <1>4 DEF RankSteps, RankFails, LoadDataset, BeginEpoch, FetchBatch
  <2>2. rank'[0].step = rank[0].step
    <3>1. CASE LoadDataset(r)
      BY <1>1, <3>1 DEF LoadDataset, RankType
    <3>2. CASE BeginEpoch(r)
      <4>1. CASE rank[r].epoch = Epochs
        <5>1. rank' = [rank EXCEPT ![r].pc = "done"]
          BY <3>2, <4>1 DEF BeginEpoch
        <5>. QED
          BY <1>1, <5>1 DEF RankType
      <4>2. CASE rank[r].epoch # Epochs
        <5>. DEFINE k == [rank[r] EXCEPT !.pc = "fetch", !.epoch = @ + 1, !.batch = 0]
        <5>1. rank' = [rank EXCEPT ![r].pc = "fetch", ![r].epoch = @ + 1, ![r].batch = 0]
          BY <3>2, <4>2 DEF BeginEpoch
        <5>2. rank' = [rank EXCEPT ![r] = k]
          BY <1>1, <5>1 DEF RankType
        <5>3. k.step = rank[r].step
          BY <1>1 DEF RankType
        <5>. HIDE DEF k
        <5>. QED
          BY <1>1, <5>2, <5>3
      <4>. QED
        BY <4>1, <4>2
    <3>3. CASE FetchBatch(r)
      BY <1>1, <3>3 DEF FetchBatch, RankType
    <3>4. CASE RankFails(r)
      BY <1>1, <3>4 DEF RankFails, RankType
    <3>. QED
      BY <1>4, <3>1, <3>2, <3>3, <3>4 DEF RankSteps
  <2>. QED
    BY <2>1, <2>2, ContractStutters
<1>5. CASE TrainingStep
  BY <1>5, TrainingStepTrains DEF Training!Next
<1>6. CASE TorchrunFails \/ TorchrunEnds
  <2>1. /\ outcome = "none"
        /\ UNCHANGED <<records, batchSize, trained, checkpoint, rank>>
    BY <1>1, <1>6 DEF TorchrunFails, TorchrunEnds, Ends
  <2>2. outcome' = "raised" \/ (outcome' = "trained" /\ checkpoint # 0)
    BY <1>6 DEF TorchrunFails, TorchrunEnds, End
  <2>3. checkpoint \in Nat
    <3>1. rank[0].step \in Nat
      BY <1>1 DEF RankType
    <3>. QED
      BY <1>1, <3>1 DEF Lockstep
  <2>4. UNCHANGED <<Len(records), IF records = <<>> THEN 0 ELSE batchSize,
                    [k \in 1..rank[0].step |-> LessonOf(k)], checkpoint>>
    BY <2>1, ContractStutters
  <2>5. checkpoint # 0 => checkpoint > 0
    BY <2>3
  <2>6. Training!End
    BY <2>1, <2>2, <2>4, <2>5 DEF Training!End
  <2>. QED
    BY <2>6 DEF Training!Next
<1>7. CASE UNCHANGED vars
  <2>1. UNCHANGED <<records, batchSize, trained, checkpoint, outcome>>
        /\ rank'[0].step = rank[0].step
    BY <1>7 DEF vars
  <2>. QED
    BY <2>1, ContractStutters
<1>. QED
  BY <1>2, <1>3, <1>4, <1>5, <1>6, <1>7 DEF Next

\* The ranks together are one trainer that takes every row once an epoch, in
\* whole batches, and saves what it made of all of them: what TrainingContract
\* promises the outer loop, at every step and not only when it ends well.
THEOREM RanksTrainAsOne == Spec => TrainsAsOne
<1>1. Init => Training!Init
  <2>. SUFFICES ASSUME Init PROVE Training!Init
    OBVIOUS
  <2>1. rank[0].step = 0
    BY FirstRank DEF Init
  <2>2. [k \in 1..rank[0].step |-> LessonOf(k)] = <<>>
    BY <2>1
  <2>. QED
    BY <2>2 DEF Init, Training!Init
<1>2. IInv /\ [Next]_vars => [Training!Next]_(Training!vars)
  BY TrainerStep
<1>. QED
  BY <1>1, <1>2, TrainerInvariant, PTL DEF Spec, TrainsAsOne, Training!Spec
=============================================================================
