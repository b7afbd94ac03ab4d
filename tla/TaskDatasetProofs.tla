-------------------------- MODULE TaskDatasetProofs --------------------------
(***************************************************************************)
(* Proofs about the data of on-policy training, for any dataset, banding,  *)
(* split, batch size and number of sessions and preloaders: first the task *)
(* pools, the eval split and the SDPO caches made of them (TaskDataset),   *)
(* then the cache of the difficulty probe they are banded by               *)
(* (DifficultyProbe), for any number of tasks, workers and models, any     *)
(* window, and crashes at any point.                                       *)
(***************************************************************************)
EXTENDS TaskDataset, DifficultyProbe, RowSelectionProofs

-----------------------------------------------------------------------------
(* The inductive invariant of the dataset                                  *)

\* The rows of the pool: of the eligible ones of an identity, the first.
PoolSet(filter) ==
    {i \in Eligible(filter) :
        \A j \in Eligible(filter) : Dataset[j].identity = Dataset[i].identity => i <= j}

\* A list that can be a pool: rows of different identities, in the order of
\* the dataset.
IsPool(tasks) ==
    \E S \in SUBSET Rows :
        /\ tasks = Ascending(S)
        /\ \A i, j \in S : Dataset[i].identity = Dataset[j].identity => i = j

\* The bad-task cache and the preflight that writes it.
DiskTypes ==
    /\ badFile \in {None, Torn} \/ Filter \in Filters
    /\ preflight = [pc |-> preflight.pc, payload |-> preflight.payload]
    /\ preflight.pc \in {"off", "scan", "open", "write"}
    /\ preflight.payload = None \/ LoadedFilter(preflight.payload) \in Filters
    /\ preflights \in 0..MaxPreflights

\* The RFT session, and what all sessions have evaluated, trained on, drawn
\* and committed.
RunTypes ==
    /\ session = [pc |-> session.pc, step |-> session.step, name |-> session.name,
                  pools |-> session.pools, fixed |-> session.fixed,
                  batch |-> session.batch, eval |-> session.eval]
    /\ session.pc \in {"off", "start", "train", "eval", "commit", "pointer"}
    /\ session.name = None \/ session.name \in Filters
    /\ DOMAIN session.pools \subseteq Filters
    /\ session.step \in 0..Steps
    /\ session.batch \in Seq(Rows)
    /\ session.fixed \subseteq Ids /\ session.eval \subseteq Ids
    /\ sessions \in 0..MaxSessions
    /\ manifest = None \/ manifest \subseteq Ids
    /\ committed \in -1..(Steps - 1)
    /\ \A e \in evaluated : e \subseteq Ids
    /\ trained \subseteq Rows
    /\ DOMAIN drawn \subseteq Rows
    /\ drawn = [i \in DOMAIN drawn |-> drawn[i]]
    /\ \A i \in DOMAIN drawn : drawn[i] \in Nat

\* The preloaders and the files of their cache.
SdpoTypes ==
    /\ job = [p \in Preloaders |->
                 [pc |-> job[p].pc, key |-> job[p].key, train |-> job[p].train,
                  val |-> job[p].val]]
    /\ \A p \in Preloaders :
          /\ job[p].pc \in {"off", "build", "split", "train", "between", "val",
                            "served", "raised", "killed"}
          /\ job[p].train \in Seq(Rows) /\ job[p].val \in Seq(Rows)
    /\ \A path \in DOMAIN parquet :
          parquet[path] = Torn \/ parquet[path] \in Seq(Rows)

OtherTypes == split \in Splits /\ stops \in 0..MaxStops /\ steady \in BOOLEAN

Types == DiskTypes /\ RunTypes /\ SdpoTypes /\ OtherTypes

\* A session is at the step after the last one committed, its pools are
\* lists that a filter can make, and it holds a batch only once it drew one.
AtStep ==
    /\ \A n \in DOMAIN session.pools : IsPool(session.pools[n])
    /\ session.pc = "off" => session.name = None /\ session.pools = <<>> /\ session.batch = <<>>
    /\ session.pc # "off" => session.step = committed + 1 /\ committed < Steps - 1
    /\ session.pc = "start" => split.count > 0
    /\ session.pc \in {"start", "train"} => session.batch = <<>>

\* While no cache is published under a session (steady), every pool of a
\* session is that of the one filter the session goes by, the one on disk.
OneFilter ==
    steady =>
        /\ \A n \in DOMAIN session.pools : session.pools[n] = TaskPool(n)
        /\ \A n, m \in DOMAIN session.pools : n = m
        /\ session.name # None =>
              \A n \in DOMAIN session.pools : n = session.name
        /\ Readable =>
              /\ session.name # None => session.name = Filter
              /\ \A n \in DOMAIN session.pools : n = Filter

\* What a session that goes by the pool of n evaluates on.
Held(n) == IdsOf(Samples(session.pools[n], "eval", split))

\* Row i has the identity of none of the tasks of ids.
Apart(i, ids) == \A j \in Rows :
    Dataset[j].id \in ids => Dataset[i].identity # Dataset[j].identity

\* The session is past the start, where it reserves its fixed tasks.
Started == session.pc \in {"train", "eval", "commit", "pointer"}

\* A session past its start has in memory the tasks that it reserved, as many
\* as asked for; they are on disk once a step is committed, and when this
\* one is about to be.  What it drew has the identity of none of them, and
\* what it evaluated on is all of them.
Holding ==
    Started =>
        /\ Cardinality(session.fixed) = split.count
        /\ ~PartitionRefused("eval")
        /\ DOMAIN session.pools # {}
        /\ committed # -1 \/ session.pc = "pointer" => manifest = session.fixed
        /\ steady =>
              /\ \A n \in DOMAIN session.pools : session.fixed = Held(n)
              /\ session.pc \in {"commit", "pointer"} => session.eval = session.fixed
              /\ \A i \in ToSet(session.batch) : Apart(i, session.fixed)

\* Every committed step was evaluated on the tasks of the manifest, and
\* trained on nothing that has the identity of one of them.
Recorded ==
    steady =>
        /\ \A e \in evaluated :
              committed # -1 /\ e = manifest /\ Cardinality(e) = split.count
        /\ \A i \in trained : committed # -1 /\ Apart(i, manifest)

\* What is reserved stays so, whether by the session or by the steps so far.
Reserved == split.count > 0 => Holding /\ Recorded

\* The order the trainer walks a set of tasks in.
Line(S) == StageOrder(Ascending(S), Stage, TrainPartition)

\* How often place q of a circle is met by the first n draws.
Visits(q, n, size) == (n \div size) + IF q < n % size THEN 1 ELSE 0

\* What was drawn so far is what one walk around the line would have drawn,
\* from some step on to the step in progress.
Drawn ==
    LET line == Line(DOMAIN drawn)
        size == Len(line)
    IN  /\ \E w \in 0..(committed + 1) :
              \A k \in 1..size :
                  drawn[line[k]] = Visits(k - 1, (committed + 1) * BatchSize, size)
                                     - Visits(k - 1, w * BatchSize, size)
        /\ session.pc \in {"eval", "commit", "pointer"} =>
              /\ line # <<>>
              /\ session.batch = TaskBatch(line, session.step, BatchSize)

\* The rows that the SDPO job of a key is made of.
RowsOf(key) == SdpoRows(TaskPool(key))

\* What belongs into the file of a key and a kind.
Content(key, kind) ==
    IF kind = "train" THEN SdpoTrainRows(RowsOf(key), split)
    ELSE SdpoEvalRows(RowsOf(key), split)

\* A preloader holds the two halves of the rows of its key, and what it has
\* written so far is on disk.
JobGood(p) ==
    /\ job[p].pc \in {"split", "train", "between", "val"} /\ job[p].key \notin spoiled =>
          /\ RowsOf(job[p].key) # <<>>
          /\ job[p].train = Content(job[p].key, "train")
          /\ job[p].val = Content(job[p].key, "val")
    /\ job[p].pc \in {"train", "between", "val", "served"} => IsFile(job[p].key, "train")
    /\ job[p].pc \in {"val", "served"} => IsFile(job[p].key, "val")

\* A file of the cache holds its half of the rows, or a preloader is in the
\* middle of writing it.
FileGood(path) ==
    /\ path = <<path[1], path[2]>> /\ path[2] \in {"train", "val"}
    /\ path[1] \notin spoiled =>
          /\ RowsOf(path[1]) # <<>>
          /\ \/ parquet[path] = Torn /\ Writers(path[1], path[2]) # {}
             \/ parquet[path] = Content(path[1], path[2])

Pairs ==
    /\ \A p \in Preloaders : JobGood(p)
    /\ \A path \in DOMAIN parquet : FileGood(path)

IInv == Types /\ AtStep /\ OneFilter /\ Reserved /\ Drawn /\ Pairs

-----------------------------------------------------------------------------
(* Lists of tasks                                                          *)

\* The rows of the dataset are numbered.
LEMMA RowNumbers ==
  /\ Rows = 1..Len(Dataset) /\ Len(Dataset) \in Nat
  /\ \A S \in SUBSET Rows : S \in SUBSET Int /\ IsFiniteSet(S)
<1>1. Rows = 1..Len(Dataset) /\ Len(Dataset) \in Nat
  BY DatasetAssumption DEF Rows
<1>2. ASSUME NEW S \in SUBSET Rows PROVE S \in SUBSET Int /\ IsFiniteSet(S)
  <2>1. IsFiniteSet(1..Len(Dataset))
    BY <1>1, FS_Interval
  <2>2. IsFiniteSet(S)
    BY <1>1, <2>1, FS_Subset
  <2>. QED
    BY <1>1, <2>2
<1>. QED
  BY <1>1, <1>2

\* What the proofs need of a row.
LEMMA RowFields ==
  /\ \A i \in Rows : Dataset[i].rftRank \in Nat /\ Dataset[i].sdpoRank \in Nat
  /\ \A i, j \in Rows : Dataset[i].id = Dataset[j].id => i = j
<1>1. ASSUME NEW i \in Rows
      PROVE  Dataset[i].rftRank \in Nat /\ Dataset[i].sdpoRank \in Nat
  <2>. DEFINE Row == [valid : BOOLEAN, id : STRING, image : STRING,
                      identity : STRING, family : STRING, long : BOOLEAN,
                      fault : STRING, rftRank : Nat, sdpoRank : Nat]
  <2>1. Dataset[i] \in Row
    <3>1. Dataset \in Seq(Row) /\ i \in DOMAIN Dataset
      BY DatasetAssumption DEF Rows
    <3>. HIDE DEF Row
    <3>. QED
      BY <3>1
  <2>. QED
    BY <2>1
<1>2. \A i, j \in Rows : Dataset[i].id = Dataset[j].id => i = j
  BY DatasetAssumption DEF Rows
<1>. QED
  BY <1>1, <1>2

\* A set of tasks in the order of the dataset: a list of them, each once.
LEMMA TaskList ==
  ASSUME NEW S \in SUBSET Rows
  PROVE  /\ S \in SUBSET Int /\ IsFiniteSet(S) /\ Cardinality(S) \in Nat
         /\ Ascending(S) \in Seq(S) /\ Ascending(S) \in Seq(Rows)
         /\ Len(Ascending(S)) = Cardinality(S)
         /\ DOMAIN Ascending(S) = 1..Cardinality(S)
         /\ ToSet(Ascending(S)) = S
         /\ \A k, l \in 1..Cardinality(S) : Ascending(S)[k] = Ascending(S)[l] => k = l
         /\ Ascending(S) = <<>> <=> S = {}
<1>1. S \in SUBSET Int /\ IsFiniteSet(S)
  BY RowNumbers
<1>. DEFINE A == Ascending(S)
            N == Cardinality(S)
<1>2. /\ A \in [1..N -> S] /\ N \in Nat
      /\ \A k, l \in 1..N : k < l => A[k] < A[l]
      /\ \A i \in S : PlaceIn(S, i) \in 1..N /\ A[PlaceIn(S, i)] = i
  BY <1>1, AscendingLists
<1>. HIDE DEF A, N
<1>3. A \in Seq(S) /\ Len(A) = N /\ DOMAIN A = 1..N
  BY <1>2
<1>4. A \in Seq(Rows)
  BY <1>2
<1>5. ToSet(A) = S
  BY <1>2 DEF ToSet
<1>6. ASSUME NEW k \in 1..N, NEW l \in 1..N, A[k] = A[l] PROVE k = l
  <2>1. A[k] \in Int /\ A[l] \in Int
    BY <1>1, <1>2
  <2>. QED
    BY <1>2, <1>6, <2>1
<1>7. A = <<>> <=> S = {}
  <2>1. ASSUME A = <<>> PROVE S = {}
    BY <1>5, <2>1 DEF ToSet
  <2>2. ASSUME S = {} PROVE A = <<>>
    <3>1. N = 0
      BY <2>2, FS_EmptySet DEF N
    <3>. QED
      BY <1>3, <3>1
  <2>. QED
    BY <2>1, <2>2
<1>. QED
  BY <1>1, <1>2, <1>3, <1>4, <1>5, <1>6, <1>7 DEF A, N

\* The tasks at the places of a list where they are in R are those of R, in
\* the order of the dataset.
LEMMA PartOfList ==
  ASSUME NEW S \in SUBSET Rows, NEW R \in SUBSET S,
         NEW K, K = {k \in DOMAIN Ascending(S) : Ascending(S)[k] \in R}
  PROVE  Picked(Ascending(S), K) = Ascending(R)
<1>. DEFINE A == Ascending(S)
<1>1. /\ S \in SUBSET Int /\ IsFiniteSet(S)
      /\ DOMAIN A = 1..Cardinality(S) /\ ToSet(A) = S
  BY TaskList
<1>2. K \in SUBSET (1..Cardinality(S))
  BY <1>1
<1>3. R = {A[k] : k \in K}
  BY <1>1 DEF ToSet
<1>. QED
  BY <1>1, <1>2, <1>3, PickedAscending

\* What a split takes from a list of tasks, and what it leaves.
LEMMA SplitList ==
  ASSUME NEW S \in SUBSET Rows, NEW H
  PROVE  /\ Train(Ascending(S), H) = Ascending(S \ H)
         /\ Eval(Ascending(S), H) = Ascending(S \cap H)
         /\ SdpoRows(Ascending(S)) = Ascending({i \in S : ~Dataset[i].long})
<1>. DEFINE A == Ascending(S)
<1>1. \A k \in DOMAIN A : A[k] \in S
  BY TaskList DEF ToSet
<1>2. Train(A, H) = Ascending(S \ H)
  <2>. DEFINE K == {k \in DOMAIN A : A[k] \notin H}
  <2>1. K = {k \in DOMAIN A : A[k] \in S \ H}
    BY <1>1
  <2>2. S \ H \in SUBSET S
    OBVIOUS
  <2>. HIDE DEF K
  <2>3. Picked(A, K) = Ascending(S \ H)
    BY <2>1, <2>2, PartOfList
  <2>. QED
    BY <2>3 DEF Train, K
<1>3. Eval(A, H) = Ascending(S \cap H)
  <2>. DEFINE K == {k \in DOMAIN A : A[k] \in H}
  <2>1. K = {k \in DOMAIN A : A[k] \in S \cap H}
    BY <1>1
  <2>2. S \cap H \in SUBSET S
    OBVIOUS
  <2>. HIDE DEF K
  <2>3. Picked(A, K) = Ascending(S \cap H)
    BY <2>1, <2>2, PartOfList
  <2>. QED
    BY <2>3 DEF Eval, K
<1>4. SdpoRows(A) = Ascending({i \in S : ~Dataset[i].long})
  <2>. DEFINE K == {k \in DOMAIN A : ~Dataset[A[k]].long}
              R == {i \in S : ~Dataset[i].long}
  <2>1. K = {k \in DOMAIN A : A[k] \in R}
    BY <1>1
  <2>2. R \in SUBSET S
    OBVIOUS
  <2>. HIDE DEF K, R
  <2>3. Picked(A, K) = Ascending(R)
    BY <2>1, <2>2, PartOfList
  <2>. QED
    BY <2>3 DEF SdpoRows, K, R
<1>. QED
  BY <1>2, <1>3, <1>4 DEF A

\* The pool is a list of eligible tasks of different identities.
LEMMA PoolList ==
  ASSUME NEW filter
  PROVE  /\ PoolSet(filter) \in SUBSET Rows
         /\ TaskPool(filter) = Ascending(PoolSet(filter))
         /\ \A i, j \in PoolSet(filter) :
               Dataset[i].identity = Dataset[j].identity => i = j
         /\ IsPool(TaskPool(filter))
<1>1. PoolSet(filter) \in SUBSET Rows
  BY DEF PoolSet, Eligible
<1>2. TaskPool(filter) = Ascending(PoolSet(filter))
  BY Zenon DEF TaskPool, PoolSet
<1>3. ASSUME NEW i \in PoolSet(filter), NEW j \in PoolSet(filter),
             Dataset[i].identity = Dataset[j].identity
      PROVE  i = j
  <2>1. i \in Int /\ j \in Int
    BY <1>1, RowNumbers
  <2>2. i <= j /\ j <= i
    BY <1>3 DEF PoolSet
  <2>. QED
    BY <2>1, <2>2
<1>. QED
  BY <1>1, <1>2, <1>3 DEF IsPool

-----------------------------------------------------------------------------
(* Splits *)

\* A split leaves a task to train on.
LEMMA TargetBelow ==
  ASSUME NEW total \in Nat, total > 0,
         NEW s \in [count : Nat, percent : 0..99, minRows : Nat]
  PROVE  /\ FractionTarget(total, s) \in Nat /\ FractionTarget(total, s) < total
         /\ EvalTarget(total, s) \in Nat
         /\ ~SplitRaises(total, s) => EvalTarget(total, s) < total
<1>1. FractionTarget(total, s) \in Nat /\ FractionTarget(total, s) < total
  <2>1. PICK wanted \in Int : wanted = (total * s.percent) \div 100
    <3>1. total * s.percent \in Nat
      OBVIOUS
    <3>. QED
      BY <3>1
  <2>2. wanted \in Nat
    <3>1. PICK product \in Nat : product = total * s.percent
      OBVIOUS
    <3>2. wanted = product \div 100
      BY <2>1, <3>1
    <3>. QED
      BY <3>2
  <2>3. s.minRows \in Nat
    OBVIOUS
  <2>. QED
    BY <2>1, <2>2, <2>3 DEF FractionTarget
<1>2. s.count \in Nat
  OBVIOUS
<1>. QED
  BY <1>1, <1>2 DEF EvalTarget, SplitRaises

\* A set of tasks that is not empty has a last one in the order of a ranking.
LEMMA LastOfRank ==
  ASSUME NEW S \in SUBSET Rows, S # {}, NEW rank, \A i \in S : rank[i] \in Nat
  PROVE  \E l \in S : \A i \in S : i # l =>
            rank[i] < rank[l] \/ (rank[i] = rank[l] /\ i < l)
<1>0. S \in SUBSET Int /\ IsFiniteSet(S) /\ \A i \in S : i \in Int
  BY RowNumbers
<1>1. ASSUME NEW T \in SUBSET Int, IsFiniteSet(T), T # {}
      PROVE  \E m \in T : \A x \in T : x <= m
  <2>. DEFINE N == Cardinality(T)
              A == Ascending(T)
  <2>1. /\ A \in [1..N -> T] /\ N \in Nat
        /\ \A k, l \in 1..N : k < l => A[k] < A[l]
        /\ \A i \in T : PlaceIn(T, i) \in 1..N /\ A[PlaceIn(T, i)] = i
    BY <1>1, AscendingLists
  <2>. HIDE DEF N, A
  <2>2. N \in 1..N
    <3>1. PICK x \in T : TRUE
      BY <1>1
    <3>2. PlaceIn(T, x) \in 1..N
      BY <2>1
    <3>. QED
      BY <2>1, <3>2
  <2>3. ASSUME NEW x \in T PROVE x <= A[N]
    <3>1. PICK k \in 1..N : A[k] = x
      BY <2>1
    <3>2. x \in Int /\ A[N] \in Int
      BY <2>1, <2>2
    <3>3. k = N \/ k < N
      BY <2>1
    <3>. QED
      BY <2>1, <2>2, <3>1, <3>2, <3>3
  <2>. QED
    BY <2>1, <2>2, <2>3
<1>2. PICK top \in {rank[i] : i \in S} : \A x \in {rank[i] : i \in S} : x <= top
  <2>. DEFINE T == {rank[i] : i \in S}
  <2>1. IsFiniteSet(T)
    <3>. DEFINE f == [i \in S |-> rank[i]]
    <3>1. f \in Surjection(S, T)
      BY DEF Surjection
    <3>. HIDE DEF f, T
    <3>. QED
      BY <1>0, <3>1, FS_Surjection
  <2>2. T \in SUBSET Int /\ T # {}
    OBVIOUS
  <2>. HIDE DEF T
  <2>3. \E m \in T : \A x \in T : x <= m
    BY <1>1, <2>1, <2>2
  <2>. QED
    BY <2>3 DEF T
<1>3. PICK l \in {i \in S : rank[i] = top} :
         \A x \in {i \in S : rank[i] = top} : x <= l
  <2>. DEFINE T == {i \in S : rank[i] = top}
  <2>1. T \in SUBSET S /\ T # {}
    BY <1>2
  <2>2. IsFiniteSet(T) /\ T \in SUBSET Int
    <3>. HIDE DEF T
    <3>. QED
      BY <1>0, <2>1, FS_Subset
  <2>. HIDE DEF T
  <2>3. \E m \in T : \A x \in T : x <= m
    BY <1>1, <2>1, <2>2
  <2>. QED
    BY <2>3 DEF T
<1>4. ASSUME NEW i \in S, i # l PROVE rank[i] < rank[l] \/ (rank[i] = rank[l] /\ i < l)
  <2>1. rank[i] <= top /\ rank[l] = top /\ rank[i] \in Nat /\ top \in Nat
    BY <1>2, <1>3
  <2>2. CASE rank[i] = top
    BY <1>0, <1>3, <1>4, <2>1, <2>2
  <2>3. CASE rank[i] # top
    BY <2>1, <2>3
  <2>. QED
    BY <2>2, <2>3
<1>. QED
  BY <1>3, <1>4

\* A split that reserves fewer tasks than there are leaves one.
LEMMA NotAllHeldOut ==
  ASSUME NEW S \in SUBSET Rows, S # {}, NEW target \in Nat, target < Cardinality(S),
         NEW rank, \A i \in S : rank[i] \in Nat,
         NEW H, H = {i \in S : Cardinality({j \in S : rank[j] < rank[i]
                                             \/ (rank[j] = rank[i] /\ j < i)}) < target}
  PROVE  S \ H # {}
<1>1. PICK l \in S : \A i \in S : i # l =>
            rank[i] < rank[l] \/ (rank[i] = rank[l] /\ i < l)
  BY LastOfRank
<1>. DEFINE before == {j \in S : rank[j] < rank[l] \/ (rank[j] = rank[l] /\ j < l)}
<1>2. IsFiniteSet(S) /\ Cardinality(S) \in Nat /\ l \in Int
  BY RowNumbers, TaskList
<1>3. before = S \ {l}
  <2>1. rank[l] \in Nat
    OBVIOUS
  <2>2. ASSUME NEW j \in S, j # l PROVE j \in before
    BY <1>1, <2>2
  <2>3. l \notin before
    BY <1>2, <2>1
  <2>. QED
    BY <2>2, <2>3
<1>4. Cardinality(S \ {l}) = Cardinality(S) - 1
  BY <1>2, FS_RemoveElement
<1>5. ~ (Cardinality(before) < target)
  <2>. HIDE DEF before
  <2>. QED
    BY <1>2, <1>3, <1>4
<1>. QED
  BY <1>5

\* Both splits hold out tasks of the list and leave one to train on.
LEMMA HeldTasks ==
  ASSUME NEW S \in SUBSET Rows, S # {},
         NEW s \in [count : Nat, percent : 0..99, minRows : Nat]
  PROVE  /\ ~SplitRaises(Cardinality(S), s) => S \ RftEval(Ascending(S), s) # {}
         /\ S \ SdpoEval(Ascending(S), s) # {}
<1>1. /\ Len(Ascending(S)) = Cardinality(S) /\ ToSet(Ascending(S)) = S
      /\ Cardinality(S) \in Nat /\ Cardinality(S) > 0
  BY TaskList, FS_EmptySet
<1>2. \A i \in S : Dataset[i].rftRank \in Nat /\ Dataset[i].sdpoRank \in Nat
  BY RowFields
<1>3. ASSUME ~SplitRaises(Cardinality(S), s) PROVE S \ RftEval(Ascending(S), s) # {}
  <2>. DEFINE rank == [i \in S |-> Dataset[i].rftRank]
              target == EvalTarget(Cardinality(S), s)
              H == {i \in S : Cardinality({j \in S : rank[j] < rank[i]
                                             \/ (rank[j] = rank[i] /\ j < i)}) < target}
  <2>1. target \in Nat /\ target < Cardinality(S)
    BY <1>1, <1>3, TargetBelow
  <2>2. \A i \in S : rank[i] \in Nat
    BY <1>2
  <2>3. RftEval(Ascending(S), s) = H
    <3>1. RftEval(Ascending(S), s)
            = {i \in S : Cardinality({j \in S : RftRank(j) < RftRank(i)
                  \/ (RftRank(j) = RftRank(i) /\ j < i)}) < target}
      BY <1>1 DEF RftEval, EvalTasks
    <3>2. ASSUME NEW i \in S
          PROVE  {j \in S : RftRank(j) < RftRank(i) \/ (RftRank(j) = RftRank(i) /\ j < i)}
                  = {j \in S : rank[j] < rank[i] \/ (rank[j] = rank[i] /\ j < i)}
      BY DEF RftRank
    <3>. QED
      BY <3>1, <3>2
  <2>. HIDE DEF rank, target
  <2>4. S \ H # {}
    BY <2>1, <2>2, NotAllHeldOut
  <2>. QED
    BY <2>3, <2>4
<1>4. S \ SdpoEval(Ascending(S), s) # {}
  <2>. DEFINE rank == [i \in S |-> Dataset[i].sdpoRank]
              target == FractionTarget(Cardinality(S), s)
              H == {i \in S : Cardinality({j \in S : rank[j] < rank[i]
                                             \/ (rank[j] = rank[i] /\ j < i)}) < target}
  <2>1. target \in Nat /\ target < Cardinality(S)
    BY <1>1, TargetBelow
  <2>2. \A i \in S : rank[i] \in Nat
    BY <1>2
  <2>3. SdpoEval(Ascending(S), s) = H
    <3>1. SdpoEval(Ascending(S), s)
            = {i \in S : Cardinality({j \in S : SdpoRank(j) < SdpoRank(i)
                  \/ (SdpoRank(j) = SdpoRank(i) /\ j < i)}) < target}
      BY <1>1 DEF SdpoEval, EvalTasks
    <3>2. ASSUME NEW i \in S
          PROVE  {j \in S : SdpoRank(j) < SdpoRank(i) \/ (SdpoRank(j) = SdpoRank(i) /\ j < i)}
                  = {j \in S : rank[j] < rank[i] \/ (rank[j] = rank[i] /\ j < i)}
      BY DEF SdpoRank
    <3>. QED
      BY <3>1, <3>2
  <2>. HIDE DEF rank, target
  <2>4. S \ H # {}
    BY <2>1, <2>2, NotAllHeldOut
  <2>. QED
    BY <2>3, <2>4
<1>. QED
  BY <1>3, <1>4

\* The tasks of a partition of the pool S.
SampleSet(S, partition, s) ==
    IF partition = "all" \/ CachedPartition \in {"train", "eval"} THEN S
    ELSE IF partition = "train" THEN S \ RftEval(Ascending(S), s)
    ELSE S \cap RftEval(Ascending(S), s)

\* A partition of the pool is a list of its tasks, and there are some to
\* train on.
LEMMA SamplesList ==
  ASSUME NEW S \in SUBSET Rows, NEW partition,
         NEW s \in [count : Nat, percent : 0..99, minRows : Nat]
  PROVE  /\ SampleSet(S, partition, s) \in SUBSET S
         /\ Samples(Ascending(S), partition, s) = Ascending(SampleSet(S, partition, s))
         /\ partition \in {"all", "train"} /\ ~SamplesRaise(Ascending(S), partition, s)
               => SampleSet(S, partition, s) # {}
<1>1. SampleSet(S, partition, s) \in SUBSET S
  BY Zenon DEF SampleSet
<1>2. Samples(Ascending(S), partition, s) = Ascending(SampleSet(S, partition, s))
  BY SplitList DEF Samples, SampleSet
<1>3. ASSUME partition \in {"all", "train"}, ~SamplesRaise(Ascending(S), partition, s)
      PROVE  SampleSet(S, partition, s) # {}
  <2>1. S # {} /\ Len(Ascending(S)) = Cardinality(S)
    BY <1>3, TaskList DEF SamplesRaise
  <2>2. CASE partition = "all" \/ CachedPartition \in {"train", "eval"}
    BY <2>1, <2>2 DEF SampleSet
  <2>3. CASE partition = "train" /\ CachedPartition \notin {"train", "eval"}
    <3>1. ~SplitRaises(Cardinality(S), s)
      BY <1>3, <2>1, <2>3 DEF SamplesRaise
    <3>2. S \ RftEval(Ascending(S), s) # {}
      BY <2>1, <3>1, HeldTasks
    <3>. QED
      BY <2>3, <3>2 DEF SampleSet
  <2>. QED
    BY <1>3, <2>2, <2>3
<1>. QED
  BY <1>1, <1>2, <1>3

-----------------------------------------------------------------------------
(* The order of a stage *)

\* T lists the elements of X, each once.
ListsOnce(T, X) ==
    /\ T \in Seq(X)
    /\ \A x \in X : \E k \in 1..Len(T) : T[k] = x
    /\ \A k, l \in 1..Len(T) : T[k] = T[l] => k = l

\* A list that goes on with the elements of another.
LEMMA ListsOnceConcat ==
  ASSUME NEW X, NEW Y, X \cap Y = {}, NEW P, NEW Q, ListsOnce(P, X), ListsOnce(Q, Y)
  PROVE  ListsOnce(P \o Q, X \cup Y)
<1>1. /\ P \in Seq(X) /\ \A x \in X : \E k \in 1..Len(P) : P[k] = x
      /\ \A k, l \in 1..Len(P) : P[k] = P[l] => k = l
  BY DEF ListsOnce
<1>2. /\ Q \in Seq(Y) /\ \A x \in Y : \E k \in 1..Len(Q) : Q[k] = x
      /\ \A k, l \in 1..Len(Q) : Q[k] = Q[l] => k = l
  BY DEF ListsOnce
<1>3. P \in Seq(X \cup Y) /\ Q \in Seq(X \cup Y)
  BY <1>1, <1>2
<1>. DEFINE R == P \o Q
<1>4. /\ R \in Seq(X \cup Y) /\ Len(R) = Len(P) + Len(Q)
      /\ Len(P) \in Nat /\ Len(Q) \in Nat
      /\ \A k \in 1..Len(R) : R[k] = IF k <= Len(P) THEN P[k] ELSE Q[k - Len(P)]
  BY <1>3
<1>. HIDE DEF R
<1>5. /\ \A k \in 1..Len(P) : k \in 1..Len(R) /\ R[k] = P[k] /\ P[k] \in X
      /\ \A k \in 1..Len(Q) : /\ k + Len(P) \in 1..Len(R) /\ R[k + Len(P)] = Q[k]
                              /\ Q[k] \in Y
  <2>1. /\ \A k \in 1..Len(P) : P[k] \in X
        /\ \A k \in 1..Len(Q) : Q[k] \in Y
    BY <1>1, <1>2
  <2>2. ASSUME NEW k \in 1..Len(P) PROVE k \in 1..Len(R) /\ R[k] = P[k]
    BY <1>4
  <2>3. ASSUME NEW k \in 1..Len(Q)
        PROVE  k + Len(P) \in 1..Len(R) /\ R[k + Len(P)] = Q[k]
    <3>1. /\ k + Len(P) \in 1..Len(R) /\ ~(k + Len(P) <= Len(P))
          /\ (k + Len(P)) - Len(P) = k
      BY <1>4
    <3>. QED
      BY <1>4, <3>1
  <2>. QED
    BY <2>1, <2>2, <2>3
<1>6. ASSUME NEW x \in X \cup Y PROVE \E k \in 1..Len(R) : R[k] = x
  <2>1. CASE x \in X
    <3>1. PICK k \in 1..Len(P) : P[k] = x
      BY <1>1, <2>1
    <3>. QED
      BY <1>5, <3>1
  <2>2. CASE x \in Y
    <3>1. PICK k \in 1..Len(Q) : Q[k] = x
      BY <1>2, <2>2
    <3>2. PICK l \in 1..Len(R) : l = k + Len(P)
      BY <1>5
    <3>. QED
      BY <1>5, <3>1, <3>2
  <2>. QED
    BY <2>1, <2>2
<1>7. ASSUME NEW k \in 1..Len(R), NEW l \in 1..Len(R), R[k] = R[l] PROVE k = l
  <2>1. \A j \in 1..Len(R) : j \in 1..Len(P) \/ (j - Len(P) \in 1..Len(Q) /\ j > Len(P))
    BY <1>4
  <2>2. CASE k \in 1..Len(P) /\ l \in 1..Len(P)
    BY <1>1, <1>5, <1>7, <2>2
  <2>3. CASE k - Len(P) \in 1..Len(Q) /\ k > Len(P) /\ l - Len(P) \in 1..Len(Q) /\ l > Len(P)
    <3>1. R[k] = Q[k - Len(P)] /\ R[l] = Q[l - Len(P)]
      BY <1>4, <2>3
    <3>2. k - Len(P) = l - Len(P)
      BY <1>2, <1>7, <2>3, <3>1
    <3>. QED
      BY <1>4, <3>2
  <2>4. ASSUME NEW i \in 1..Len(R), NEW j \in 1..Len(R), i \in 1..Len(P),
               j - Len(P) \in 1..Len(Q), j > Len(P)
        PROVE  R[i] # R[j]
    <3>1. R[i] \in X
      BY <1>5, <2>4
    <3>2. R[j] = Q[j - Len(P)] /\ Q[j - Len(P)] \in Y
      BY <1>4, <1>5, <2>4
    <3>. QED
      BY <3>1, <3>2
  <2>. QED
    BY <1>7, <2>1, <2>2, <2>3, <2>4
<1>. QED
  BY <1>4, <1>6, <1>7 DEF ListsOnce, R

\* The easier tasks may come first: they are the same tasks.
LEMMA StageOrderLists ==
  ASSUME NEW S \in SUBSET Rows, NEW stage, NEW partition
  PROVE  ListsOnce(StageOrder(Ascending(S), stage, partition), S)
<1>. DEFINE Part(n) == {i \in S : BandPriority(TaskBand(i)) = n}
<1>1. ASSUME NEW R \in SUBSET Rows PROVE ListsOnce(Ascending(R), R)
  <2>1. /\ Ascending(R) \in Seq(R) /\ Len(Ascending(R)) = Cardinality(R)
        /\ DOMAIN Ascending(R) = 1..Cardinality(R) /\ ToSet(Ascending(R)) = R
        /\ \A k, l \in 1..Cardinality(R) : Ascending(R)[k] = Ascending(R)[l] => k = l
    BY TaskList
  <2>2. \A x \in R : \E k \in 1..Len(Ascending(R)) : Ascending(R)[k] = x
    BY <2>1 DEF ToSet
  <2>. QED
    BY <2>1, <2>2 DEF ListsOnce
<1>2. ASSUME NEW n
      PROVE  Picked(Ascending(S), {k \in DOMAIN Ascending(S) :
                 BandPriority(TaskBand(Ascending(S)[k])) = n}) = Ascending(Part(n))
  <2>1. \A k \in DOMAIN Ascending(S) : Ascending(S)[k] \in S
    BY TaskList DEF ToSet
  <2>2. {k \in DOMAIN Ascending(S) : BandPriority(TaskBand(Ascending(S)[k])) = n}
          = {k \in DOMAIN Ascending(S) : Ascending(S)[k] \in Part(n)}
    BY <2>1
  <2>3. Part(n) \in SUBSET S
    OBVIOUS
  <2>. HIDE DEF Part
  <2>. QED
    BY <2>2, <2>3, PartOfList
<1>3. StageOrder(Ascending(S), stage, partition)
        \in {Ascending(S), Ascending(Part(0)) \o Ascending(Part(1))
                             \o Ascending(Part(2)) \o Ascending(Part(3))}
  <2>. DEFINE Sel(n) == Picked(Ascending(S), {k \in DOMAIN Ascending(S) :
                             BandPriority(TaskBand(Ascending(S)[k])) = n})
  <2>1. StageOrder(Ascending(S), stage, partition) = Ascending(S)
        \/ StageOrder(Ascending(S), stage, partition) = Sel(0) \o Sel(1) \o Sel(2) \o Sel(3)
    BY Zenon DEF StageOrder
  <2>2. /\ Sel(0) = Ascending(Part(0)) /\ Sel(1) = Ascending(Part(1))
        /\ Sel(2) = Ascending(Part(2)) /\ Sel(3) = Ascending(Part(3))
    BY <1>2, Zenon
  <2>. HIDE DEF Part, Sel
  <2>. QED
    BY <2>1, <2>2, Zenon
<1>4. \A i \in S : BandPriority(TaskBand(i)) \in {0, 1, 2, 3}
  BY DEF BandPriority
<1>5. ListsOnce(Ascending(Part(0)) \o Ascending(Part(1))
                  \o Ascending(Part(2)) \o Ascending(Part(3)), S)
  <2>1. /\ \A n \in {0, 1, 2, 3} : ListsOnce(Ascending(Part(n)), Part(n))
        /\ Part(0) \cap Part(1) = {}
        /\ (Part(0) \cup Part(1)) \cap Part(2) = {}
        /\ (Part(0) \cup Part(1) \cup Part(2)) \cap Part(3) = {}
        /\ Part(0) \cup Part(1) \cup Part(2) \cup Part(3) = S
    <3>1. \A n \in {0, 1, 2, 3} : Part(n) \in SUBSET Rows
      OBVIOUS
    <3>2. \A n \in {0, 1, 2, 3} : ListsOnce(Ascending(Part(n)), Part(n))
      BY <1>1, <3>1, Zenon
    <3>. QED
      BY <1>4, <3>2
  <2>. HIDE DEF Part
  <2>2. ListsOnce(Ascending(Part(0)) \o Ascending(Part(1)), Part(0) \cup Part(1))
    BY <2>1, ListsOnceConcat
  <2>3. ListsOnce((Ascending(Part(0)) \o Ascending(Part(1))) \o Ascending(Part(2)),
                  (Part(0) \cup Part(1)) \cup Part(2))
    BY <2>1, <2>2, ListsOnceConcat
  <2>. QED
    BY <2>1, <2>3, ListsOnceConcat
<1>. HIDE DEF Part
<1>. QED
  BY <1>1, <1>3, <1>5

-----------------------------------------------------------------------------
(* Batches *)

\* The visit n + 1 is paid to place n modulo size.
LEMMA VisitStep ==
  ASSUME NEW size \in Nat, size > 0, NEW q \in 0..(size - 1), NEW n \in Nat
  PROVE  /\ Visits(q, n, size) \in Nat
         /\ Visits(q, n + 1, size) = Visits(q, n, size) + IF n % size = q THEN 1 ELSE 0
<1>1. PICK p \in Nat, a \in 0..(size - 1) :
         n = p * size + a /\ n \div size = p /\ n % size = a
  BY QuotientRemainder, Zenon
<1>. DEFINE next == n + 1
<1>2. n \div size = p /\ n % size = a
  BY <1>1
<1>3. Visits(q, n, size) = p + IF q < a THEN 1 ELSE 0
  BY <1>2, Zenon DEF Visits
<1>4. CASE a < size - 1
  <2>. DEFINE b == a + 1
  <2>1. next \in Nat /\ b \in 0..(size - 1) /\ next = p * size + b
    BY <1>1, <1>4
  <2>2. next \div size = p /\ next % size = b
    <3>. HIDE DEF next, b
    <3>1. next \in Nat
      BY <2>1
    <3>2. \A i \in Nat, j \in 0..(size - 1) :
             next = i * size + j => next \div size = i /\ next % size = j
      BY <3>1, QuotientRemainder, Zenon
    <3>. QED
      BY <2>1, <3>2, Zenon
  <2>3. Visits(q, next, size) = p + IF q < b THEN 1 ELSE 0
    BY <2>2, Zenon DEF Visits
  <2>. QED
    BY <1>4, <1>2, <1>3, <2>3
<1>5. CASE a = size - 1
  <2>. DEFINE o == p + 1
             b == 0
  <2>1. next \in Nat /\ o \in Nat /\ b \in 0..(size - 1) /\ next = o * size + b
    BY <1>1, <1>5
  <2>2. next \div size = o /\ next % size = b
    <3>. HIDE DEF next, o, b
    <3>1. next \in Nat
      BY <2>1
    <3>2. \A i \in Nat, j \in 0..(size - 1) :
             next = i * size + j => next \div size = i /\ next % size = j
      BY <3>1, QuotientRemainder, Zenon
    <3>. QED
      BY <2>1, <3>2, Zenon
  <2>3. Visits(q, next, size) = o + IF q < b THEN 1 ELSE 0
    BY <2>2, Zenon DEF Visits
  <2>. QED
    BY <1>5, <1>2, <1>3, <2>3
<1>. QED
  BY <1>4, <1>5

\* How often n visits in a row, from the visit start on, come to a place.
LEMMA VisitsCount ==
  ASSUME NEW size \in Nat, size > 0, NEW q \in 0..(size - 1), NEW start \in Nat, NEW n \in Nat
  PROVE  Cardinality({j \in 1..n : (start + j - 1) % size = q})
           = Visits(q, start + n, size) - Visits(q, start, size)
<1>. DEFINE hits(m) == {j \in 1..m : (start + j - 1) % size = q}
            T == {m \in Nat : Cardinality(hits(m))
                                = Visits(q, start + m, size) - Visits(q, start, size)}
<1>1. 0 \in T
  <2>1. hits(0) = {}
    OBVIOUS
  <2>2. start + 0 = start /\ Visits(q, start, size) \in Nat
    BY VisitStep
  <2>. QED
    BY <2>1, <2>2, FS_EmptySet
<1>2. ASSUME NEW m \in Nat, m \in T PROVE m + 1 \in T
  <2>1. /\ Visits(q, start, size) \in Nat /\ Visits(q, start + m, size) \in Nat
        /\ Visits(q, (start + m) + 1, size)
             = Visits(q, start + m, size) + IF (start + m) % size = q THEN 1 ELSE 0
    <3>1. PICK to \in Nat : to = start + m
      OBVIOUS
    <3>2. Visits(q, start, size) \in Nat
      BY VisitStep, Zenon
    <3>3. /\ Visits(q, to, size) \in Nat
          /\ Visits(q, to + 1, size) = Visits(q, to, size) + IF to % size = q THEN 1 ELSE 0
      BY VisitStep, Zenon
    <3>. QED
      BY <3>1, <3>2, <3>3, Zenon
  <2>2. IsFiniteSet(hits(m)) /\ m + 1 \notin hits(m)
    <3>1. IsFiniteSet(1..m) /\ hits(m) \in SUBSET (1..m)
      BY FS_Interval
    <3>. HIDE DEF hits
    <3>2. IsFiniteSet(hits(m))
      BY <3>1, FS_Subset, Zenon
    <3>. QED
      BY <3>1, <3>2
  <2>3. hits(m + 1) = IF (start + m) % size = q THEN hits(m) \cup {m + 1} ELSE hits(m)
    <3>1. ASSUME NEW j PROVE j \in 1..(m + 1) <=> j \in 1..m \/ j = m + 1
      OBVIOUS
    <3>2. start + (m + 1) - 1 = start + m
      OBVIOUS
    <3>. QED
      BY <3>1, <3>2
  <2>4. Cardinality(hits(m) \cup {m + 1}) = Cardinality(hits(m)) + 1
    <3>. HIDE DEF hits
    <3>. QED
      BY <2>2, FS_AddElement
  <2>5. Cardinality(hits(m)) = Visits(q, start + m, size) - Visits(q, start, size)
    BY <1>2
  <2>6. start + (m + 1) = (start + m) + 1
    OBVIOUS
  <2>. HIDE DEF hits
  <2>7. Cardinality(hits(m + 1)) = Visits(q, start + (m + 1), size) - Visits(q, start, size)
    BY <2>1, <2>3, <2>4, <2>5, <2>6
  <2>. QED
    BY <2>7
<1>3. n \in T
  <2>. HIDE DEF T
  <2>. QED
    BY <1>1, <1>2, Induction
<1>. QED
  BY <1>3

\* Visits in a row come to any two places equally often, give or take one.
LEMMA VisitsEven ==
  ASSUME NEW size \in Nat, size > 0, NEW q \in 0..(size - 1), NEW r \in 0..(size - 1),
         NEW from \in Nat, NEW to \in Nat
  PROVE  (Visits(q, to, size) - Visits(q, from, size))
           - (Visits(r, to, size) - Visits(r, from, size)) \in -1..1
<1>1. PICK p \in Nat, a \in 0..(size - 1) :
         from = p * size + a /\ from \div size = p /\ from % size = a
  BY QuotientRemainder, Zenon
<1>2. PICK o \in Nat, b \in 0..(size - 1) :
         to = o * size + b /\ to \div size = o /\ to % size = b
  BY QuotientRemainder, Zenon
<1>. QED
  BY <1>1, <1>2 DEF Visits

\* A batch draws a task as often as its visits come to the task's place.
LEMMA BatchDraws ==
  ASSUME NEW X, NEW T, ListsOnce(T, X), Len(T) > 0, NEW step \in Nat, NEW size \in Nat,
         NEW q \in 1..Len(T)
  PROVE  Occurrences(TaskBatch(T, step, size), T[q])
           = Visits(q - 1, (step + 1) * size, Len(T)) - Visits(q - 1, step * size, Len(T))
<1>. DEFINE L == Len(T)
<1>1. L \in Nat /\ L > 0 /\ \A k, l \in 1..L : T[k] = T[l] => k = l
  BY DEF ListsOnce
<1>2. PICK from \in Nat : from = step * size
  OBVIOUS
<1>3. PICK start \in 0..(L - 1) : start = from % L
  BY <1>1
<1>. DEFINE B == TaskBatch(T, step, size)
<1>4. B = [k \in 1..size |-> T[((start + k - 1) % L) + 1]]
  BY <1>2, <1>3 DEF TaskBatch
<1>. HIDE DEF B, L
<1>5. ASSUME NEW k \in 1..size
      PROVE  (start + k - 1) % L = (from + k - 1) % L /\ (from + k - 1) % L \in 0..(L - 1)
  <2>1. PICK p \in Nat, a \in 0..(L - 1) :
           from = p * L + a /\ from \div L = p /\ from % L = a
    BY <1>1, QuotientRemainder, Zenon
  <2>2. PICK x \in Nat : x = start + k - 1
    BY <1>1
  <2>3. PICK o \in Nat, b \in 0..(L - 1) : x = o * L + b /\ x \div L = o /\ x % L = b
    BY <1>1, QuotientRemainder, Zenon
  <2>4. from + k - 1 = (p + o) * L + b /\ from + k - 1 \in Nat /\ p + o \in Nat
    BY <1>1, <1>3, <2>1, <2>2, <2>3
  <2>5. PICK y \in Nat, r \in Nat : y = from + k - 1 /\ r = p + o
    BY <2>4
  <2>6. \A i \in Nat, j \in 0..(L - 1) : y = i * L + j => y \div L = i /\ y % L = j
    BY <1>1, QuotientRemainder, Zenon
  <2>7. y % L = b
    BY <2>4, <2>5, <2>6, Zenon
  <2>. QED
    BY <2>2, <2>3, <2>5, <2>7
<1>6. {k \in DOMAIN B : B[k] = T[q]} = {k \in 1..size : (from + k - 1) % L = q - 1}
  <2>1. ASSUME NEW k \in 1..size PROVE B[k] = T[q] <=> (from + k - 1) % L = q - 1
    <3>1. PICK m \in 0..(L - 1) : m = (from + k - 1) % L
      BY <1>5
    <3>2. B[k] = T[m + 1]
      BY <1>4, <1>5, <3>1
    <3>3. m + 1 \in 1..L /\ q \in 1..L
      BY <1>1, <3>1 DEF L
    <3>4. T[m + 1] = T[q] <=> m + 1 = q
      BY <1>1, <3>3
    <3>. QED
      BY <3>1, <3>2, <3>3, <3>4
  <2>2. DOMAIN B = 1..size
    BY <1>4
  <2>. QED
    BY <2>1, <2>2
<1>7. q - 1 \in 0..(L - 1)
  BY <1>1 DEF L
<1>8. Cardinality({k \in 1..size : (from + k - 1) % L = q - 1})
        = Visits(q - 1, from + size, L) - Visits(q - 1, from, L)
  BY <1>1, <1>7, VisitsCount
<1>9. from + size = (step + 1) * size
  BY <1>2
<1>. QED
  BY <1>2, <1>6, <1>8, <1>9 DEF Occurrences, B, L

\* A batch is made of tasks of the list; one of its length is the list.
LEMMA BatchOfList ==
  ASSUME NEW X, NEW T \in Seq(X), Len(T) > 0, NEW step \in Nat, NEW size \in Nat
  PROVE  /\ TaskBatch(T, step, size) \in Seq(X)
         /\ size = Len(T) => TaskBatch(T, step, size) = T
<1>. DEFINE L == Len(T)
            B == TaskBatch(T, step, size)
<1>1. L \in Nat /\ L > 0 /\ T \in [1..L -> X]
  OBVIOUS
<1>2. PICK from \in Nat : from = step * size
  OBVIOUS
<1>3. PICK start \in 0..(L - 1) : start = from % L
  BY <1>1
<1>4. B = [k \in 1..size |-> T[((start + k - 1) % L) + 1]]
  BY <1>2, <1>3 DEF TaskBatch
<1>. HIDE DEF B, L
<1>5. ASSUME NEW k \in 1..size PROVE ((start + k - 1) % L) + 1 \in 1..L
  BY <1>1
<1>6. B \in [1..size -> X]
  <2>1. ASSUME NEW k \in 1..size PROVE T[((start + k - 1) % L) + 1] \in X
    BY <1>1, <1>5
  <2>. QED
    BY <1>4, <2>1
<1>7. ASSUME size = L PROVE B = T
  <2>1. start = 0
    <3>1. from = step * L + 0 /\ 0 \in 0..(L - 1)
      BY <1>1, <1>2, <1>7
    <3>. QED
      BY <1>1, <1>3, <3>1, QuotientRemainder, Zenon
  <2>2. ASSUME NEW k \in 1..L PROVE B[k] = T[k]
    <3>. DEFINE x == start + k - 1
               b == k - 1
               o == 0
    <3>1. x \in Nat /\ o \in Nat /\ b \in 0..(L - 1) /\ x = o * L + b
      BY <1>1, <2>1
    <3>2. x % L = b
      <4>. HIDE DEF x, b, o
      <4>1. \A i \in Nat, j \in 0..(L - 1) :
               x = i * L + j => x \div L = i /\ x % L = j
        <5>1. x \in Nat /\ L \in Nat /\ L > 0
          BY <1>1, <3>1
        <5>. QED
          BY <5>1, QuotientRemainder, Zenon
      <4>. QED
        BY <3>1, <4>1, Zenon
    <3>. QED
      BY <1>1, <1>4, <1>7, <3>2
  <2>. QED
    BY <1>1, <1>6, <1>7, <2>2
<1>. QED
  BY <1>6, <1>7 DEF B, L

-----------------------------------------------------------------------------
(* Settings *)

\* What is made of the dataset is settled by the settings of the run.
LEMMA SettingsStay ==
  ASSUME UNCHANGED settings
  PROVE  /\ banding' = banding /\ split' = split
         /\ \A f : TaskPool(f)' = TaskPool(f)
         /\ \A f : RowsOf(f)' = RowsOf(f)
         /\ \A f, kind : Content(f, kind)' = Content(f, kind)
         /\ TrainPartition' = TrainPartition
         /\ \A partition : PartitionRefused(partition)' = PartitionRefused(partition)
         /\ \A tasks, partition : Samples(tasks, partition, split)'
                                    = Samples(tasks, partition, split)
         /\ \A S : Line(S)' = Line(S)
<1>0. banding' = banding /\ split' = split
  BY DEF settings
<1>1. IsPartialProbe' = IsPartialProbe
  BY <1>0, Zenon DEF IsPartialProbe
<1>2. CachedPartition' = CachedPartition
  BY <1>0, <1>1, Zenon DEF CachedPartition
<1>3. ProbeBands' = ProbeBands
  BY <1>0, Zenon DEF ProbeBands
<1>4. \A i : IsLabelled(i)' = IsLabelled(i)
  BY <1>1, <1>3, Zenon DEF IsLabelled
<1>5. \A i : TaskBand(i)' = TaskBand(i)
  BY <1>0, <1>3, Zenon DEF TaskBand
<1>6. \A f : Eligible(f)' = Eligible(f)
  BY <1>4, Zenon DEF Eligible
<1>7. \A f : TaskPool(f)' = TaskPool(f)
  BY <1>6, Zenon DEF TaskPool
<1>8. \A f : RowsOf(f)' = RowsOf(f)
  BY <1>7, Zenon DEF RowsOf
<1>9. \A f, kind : Content(f, kind)' = Content(f, kind)
  BY <1>0, <1>8, Zenon DEF Content
<1>10. TrainPartition' = TrainPartition
  BY <1>0, Zenon DEF TrainPartition, HoldsOut
<1>11. \A partition : PartitionRefused(partition)' = PartitionRefused(partition)
  BY <1>2, Zenon DEF PartitionRefused
<1>12. \A tasks, partition : Samples(tasks, partition, split)'
                               = Samples(tasks, partition, split)
  BY <1>0, <1>2, Zenon DEF Samples
<1>13. \A tasks, partition : StageOrder(tasks, Stage, partition)'
                               = StageOrder(tasks, Stage, partition)
  BY <1>2, <1>5, Zenon DEF StageOrder
<1>14. \A S : Line(S)' = Line(S)
  BY <1>10, <1>13, Zenon DEF Line
<1>. QED
  BY <1>0, <1>7, <1>8, <1>9, <1>10, <1>11, <1>12, <1>14

\* A session that keeps its pools would evaluate on what it would have.
LEMMA HeldStays ==
  ASSUME UNCHANGED settings, session'.pools = session.pools
  PROVE  \A n : Held(n)' = Held(n)
<1>1. split' = split /\ \A tasks : Samples(tasks, "eval", split)' = Samples(tasks, "eval", split)
  BY SettingsStay
<1>. QED
  BY <1>1, Zenon DEF Held

\* The other actors leave the session and its counts alone.
LEMMA RunStays ==
  ASSUME RunTypes, AtStep, Reserved, Drawn,
         UNCHANGED <<settings, runVars>>, steady' => steady
  PROVE  RunTypes' /\ AtStep' /\ Reserved' /\ Drawn'
<1>1. UNCHANGED settings /\ split' = split
  BY SettingsStay
<1>2. UNCHANGED <<session, sessions, manifest, committed, evaluated, trained, drawn>>
  BY DEF runVars
<1>3. RunTypes'
  BY <1>2, Zenon DEF RunTypes
<1>4. AtStep'
  BY <1>1, <1>2, Zenon DEF AtStep
<1>5. Reserved'
  <2>1. \A n : Held(n)' = Held(n)
    BY <1>1, <1>2, HeldStays
  <2>2. PartitionRefused("eval")' = PartitionRefused("eval")
    BY <1>1, SettingsStay
  <2>3. split.count > 0 /\ Holding => Holding'
    BY <1>1, <1>2, <2>1, <2>2, Zenon DEF Holding, Started, Apart
  <2>4. Recorded => Recorded'
    BY <1>1, <1>2, Zenon DEF Recorded, Apart
  <2>. QED
    BY <1>1, <2>3, <2>4, Zenon DEF Reserved
<1>6. Drawn'
  <2>1. \A R : Line(R)' = Line(R)
    BY <1>1, SettingsStay
  <2>2. drawn' = drawn /\ committed' = committed /\ session' = session
    BY <1>2
  <2>3. Line(DOMAIN drawn)' = Line(DOMAIN drawn)
    BY <2>1, <2>2, Zenon
  <2>4. PICK line : line = Line(DOMAIN drawn)
    OBVIOUS
  <2>5. /\ \E w \in 0..(committed + 1) :
              \A k \in 1..Len(line) :
                 drawn[line[k]] = Visits(k - 1, (committed + 1) * BatchSize, Len(line))
                                    - Visits(k - 1, w * BatchSize, Len(line))
        /\ session.pc \in {"eval", "commit", "pointer"} =>
              /\ line # <<>>
              /\ session.batch = TaskBatch(line, session.step, BatchSize)
    BY <2>4, Zenon DEF Drawn
  <2>6. Line(DOMAIN drawn)' = line
    BY <2>3, <2>4, Zenon
  <2>. QED
    BY <2>2, <2>5, <2>6, Zenon DEF Drawn
<1>. QED
  BY <1>3, <1>4, <1>5, <1>6

\* The other actors leave the jobs and their files alone.
LEMMA SdpoStays ==
  ASSUME SdpoTypes, Pairs, UNCHANGED <<settings, sdpoVars>>
  PROVE  SdpoTypes' /\ Pairs'
<1>1. UNCHANGED settings
  OBVIOUS
<1>2. UNCHANGED <<job, parquet, spoiled>>
  BY DEF sdpoVars
<1>3. SdpoTypes'
  BY <1>2, Zenon DEF SdpoTypes
<1>4. Pairs'
  <2>1. /\ \A f : RowsOf(f)' = RowsOf(f)
        /\ \A f, kind : Content(f, kind)' = Content(f, kind)
    BY <1>1, SettingsStay
  <2>2. \A key, kind : IsFile(key, kind)' = IsFile(key, kind)
    BY <1>2, Zenon DEF IsFile
  <2>3. \A key, kind : Writers(key, kind)' = Writers(key, kind)
    BY <1>2, Zenon DEF Writers
  <2>4. \A p : JobGood(p)' = JobGood(p)
    BY <1>2, <2>1, <2>2, Zenon DEF JobGood
  <2>5. \A path : FileGood(path)' = FileGood(path)
    BY <1>2, <2>1, <2>3, Zenon DEF FileGood
  <2>. QED
    BY <1>2, <2>4, <2>5, Zenon DEF Pairs
<1>. QED
  BY <1>3, <1>4

\* The other actors leave the preflight and its cache alone.
LEMMA DiskStays ==
  ASSUME DiskTypes, UNCHANGED diskVars
  PROVE  DiskTypes'
BY Zenon DEF DiskTypes, diskVars, Filter

\* As long as the cache and the session are what they were, so is the filter
\* of the session's pools.
LEMMA OneFilterStays ==
  ASSUME OneFilter, UNCHANGED <<settings, badFile, session>>, steady' => steady
  PROVE  OneFilter'
<1>1. \A f : TaskPool(f)' = TaskPool(f)
  BY SettingsStay
<1>. QED
  BY <1>1, Zenon DEF OneFilter, Readable, Filter

\* The empty line has no place.
LEMMA LineLists ==
  ASSUME NEW S \in SUBSET Rows
  PROVE  /\ ListsOnce(Line(S), S) /\ Line(S) \in Seq(Rows) /\ Len(Line(S)) \in Nat
         /\ ToSet(Line(S)) = S
         /\ Line(S) = <<>> <=> S = {}
         /\ Line(S) # <<>> => Len(Line(S)) > 0
<1>1. ListsOnce(Line(S), S)
  BY StageOrderLists DEF Line
<1>2. /\ Line(S) \in Seq(S) /\ \A x \in S : \E k \in 1..Len(Line(S)) : Line(S)[k] = x
  BY <1>1 DEF ListsOnce
<1>. DEFINE L == Line(S)
<1>. HIDE DEF L
<1>3. L \in Seq(S) /\ \A x \in S : \E k \in 1..Len(L) : L[k] = x
  BY <1>2 DEF L
<1>4. ToSet(L) = S
  BY <1>3 DEF ToSet
<1>5. L = <<>> <=> S = {}
  <2>1. ASSUME L = <<>> PROVE S = {}
    BY <1>4, <2>1 DEF ToSet
  <2>2. ASSUME S = {} PROVE L = <<>>
    BY <1>3, <2>2
  <2>. QED
    BY <2>1, <2>2
<1>6. L \in Seq(Rows) /\ Len(L) \in Nat /\ (L # <<>> => Len(L) > 0)
  BY <1>3
<1>. QED
  BY <1>1, <1>4, <1>5, <1>6 DEF L

\* The constants that bound the counters.
LEMMA Bounds ==
  /\ Steps \in Nat /\ MaxSessions \in Nat /\ MaxPreflights \in Nat /\ MaxStops \in Nat
  /\ BatchSize \in Nat /\ BatchSize > 0 /\ Chunk \in Nat /\ Chunk > 0
  /\ \A s \in Splits : s \in [count : Nat, percent : 0..99, minRows : Nat]
  /\ Torn \notin Seq(Rows)
BY TaskDatasetAssumption

\* The invariant holds at first.
LEMMA DataInit == Init => IInv
<1>. SUFFICES ASSUME Init PROVE IInv
  OBVIOUS
<1>. USE DEF Init
<1>1. DiskTypes
  BY Bounds DEF DiskTypes
<1>2. RunTypes
  <2>1. /\ session = [pc |-> "off", step |-> 0, name |-> None, pools |-> <<>>,
                       fixed |-> {}, batch |-> <<>>, eval |-> {}]
        /\ session.pc = "off" /\ session.step = 0 /\ session.name = None
        /\ session.pools = <<>> /\ session.batch = <<>>
        /\ session.fixed = {} /\ session.eval = {}
    BY DEF Idle
  <2>2. <<>> \in Seq(Rows) /\ DOMAIN <<>> = {}
    OBVIOUS
  <2>3. /\ sessions \in 0..MaxSessions /\ session.step \in 0..Steps
        /\ committed \in -1..(Steps - 1)
    BY <2>1, Bounds
  <2>4. drawn = [i \in DOMAIN drawn |-> drawn[i]]
    OBVIOUS
  <2>. QED
    BY <2>1, <2>2, <2>3, <2>4 DEF RunTypes
<1>3. SdpoTypes
  <2>1. \A p \in Preloaders : job[p] = Unstarted
    OBVIOUS
  <2>2. DOMAIN parquet = {} /\ <<>> \in Seq(Rows)
    OBVIOUS
  <2>. QED
    BY <2>1, <2>2 DEF SdpoTypes, Unstarted
<1>4. OtherTypes
  BY Bounds DEF OtherTypes
<1>5. AtStep
  BY DEF AtStep, Idle
<1>6. OneFilter
  BY DEF OneFilter, Idle
<1>7. Reserved
  BY DEF Reserved, Holding, Started, Recorded, Idle
<1>8. Drawn
  <2>1. DOMAIN drawn = {} /\ Line({}) = <<>>
    BY LineLists
  <2>2. committed + 1 = 0 /\ 0 \in 0..(committed + 1)
    OBVIOUS
  <2>. QED
    BY <2>1, <2>2 DEF Drawn, Idle
<1>9. Pairs
  <2>1. DOMAIN parquet = {}
    OBVIOUS
  <2>2. \A p \in Preloaders : job[p].pc = "off"
    BY DEF Unstarted
  <2>. QED
    BY <2>1, <2>2 DEF Pairs, JobGood
<1>. QED
  BY <1>1, <1>2, <1>3, <1>4, <1>5, <1>6, <1>7, <1>8, <1>9 DEF IInv, Types

-----------------------------------------------------------------------------
(* The preflight *)

\* What a scan finds is about ids and images of the dataset.
LEMMA PayloadFilter ==
  ASSUME NEW late
  PROVE  LoadedFilter(Payload({ProbeRecord(i, Reason(i, late)) : i \in SelectedRows}))
           \in Filters
<1>. DEFINE found == {ProbeRecord(i, Reason(i, late)) : i \in SelectedRows}
<1>1. SelectedRows \in SUBSET Rows
  BY DEF SelectedRows
<1>2. \A r \in found : r.id \in Ids /\ r.image \in Images
  <2>1. ASSUME NEW id, NEW image, NEW status, NEW reason
        PROVE  /\ [id |-> id, image |-> image, status |-> status, reason |-> reason].id = id
               /\ [id |-> id, image |-> image, status |-> status, reason |-> reason].image = image
    OBVIOUS
  <2>2. \A i, reason : /\ ProbeRecord(i, reason).id = Dataset[i].id
                       /\ ProbeRecord(i, reason).image = Dataset[i].image
    BY <2>1, Zenon DEF ProbeRecord
  <2>3. \A i \in SelectedRows : Dataset[i].id \in Ids /\ Dataset[i].image \in Images
    BY <1>1 DEF Ids, Images
  <2>. QED
    BY <2>2, <2>3, Zenon
<1>3. /\ Payload(found).ids \in SUBSET Ids /\ Payload(found).images \in SUBSET Images
      /\ Payload(found).records = found
  <2>1. \A j \in SelectedRows : Dataset[j].id \in Ids
    BY <1>1 DEF Ids
  <2>. HIDE DEF found
  <2>. QED
    BY <1>2, <2>1 DEF Payload
<1>. HIDE DEF found
<1>4. LoadedFilter(Payload(found)) \in Filters
  <2>. DEFINE file == Payload(found)
  <2>. HIDE DEF file
  <2>1. /\ file.ids \in SUBSET Ids /\ file.images \in SUBSET Images
        /\ \A r \in file.records : r.id \in Ids /\ r.image \in Images
    BY <1>2, <1>3 DEF file
  <2>2. LoadedFilter(file) \in Filters
    BY <2>1 DEF LoadedFilter, Filters
  <2>. QED
    BY <2>2 DEF file
<1>. QED
  BY <1>4 DEF found

\* The preflight moves the cache under the readers: only a cache published
\* while no session runs leaves the run steady.
LEMMA PreflightKeeps ==
  ASSUME IInv, Preflight
  PROVE  IInv'
<1>. DiskTypes /\ RunTypes /\ SdpoTypes /\ OtherTypes /\ AtStep /\ OneFilter
     /\ Reserved /\ Drawn /\ Pairs
  BY DEF IInv, Types
<1>1. UNCHANGED <<settings, runVars, sdpoVars>> /\ (steady' => steady)
  <2>1. CASE StartPreflight
    BY <2>1, Zenon DEF StartPreflight
  <2>2. CASE Scan
    BY <2>2, Zenon DEF Scan
  <2>3. CASE OpenCache
    BY <2>3, Zenon DEF OpenCache
  <2>4. CASE CloseCache
    BY <2>4, Zenon DEF CloseCache
  <2>5. CASE KillPreflight
    BY <2>5, Zenon DEF KillPreflight
  <2>. QED
    BY <2>1, <2>2, <2>3, <2>4, <2>5 DEF Preflight
<1>2. RunTypes' /\ AtStep' /\ Reserved' /\ Drawn'
  BY <1>1, RunStays
<1>3. SdpoTypes' /\ Pairs'
  BY <1>1, SdpoStays
<1>4. session' = session /\ split' = split
  BY <1>1 DEF runVars, settings
<1>5. /\ badFile \in {None, Torn} \/ Filter \in Filters
      /\ preflight = [pc |-> preflight.pc, payload |-> preflight.payload]
      /\ preflight.pc \in {"off", "scan", "open", "write"}
      /\ preflight.payload = None \/ LoadedFilter(preflight.payload) \in Filters
      /\ preflights \in 0..MaxPreflights
  BY DEF DiskTypes
<1>6. split \in Splits /\ stops \in 0..MaxStops /\ steady \in BOOLEAN
  BY DEF OtherTypes
<1>7. ASSUME UNCHANGED badFile PROVE OneFilter'
  BY <1>1, <1>4, <1>7, OneFilterStays
<1>8. CASE StartPreflight
  <2>1. /\ preflight' = [pc |-> "scan", payload |-> preflight.payload]
        /\ preflights' = preflights + 1 /\ preflights < MaxPreflights
        /\ UNCHANGED <<badFile, stops, steady>>
    BY <1>5, <1>8 DEF StartPreflight
  <2>2. DiskTypes'
    <3>1. preflights' \in 0..MaxPreflights
      BY <1>5, <2>1, Bounds
    <3>. QED
      BY <1>5, <2>1, <3>1 DEF DiskTypes, Filter
  <2>3. OtherTypes'
    BY <1>4, <1>6, <2>1 DEF OtherTypes
  <2>. QED
    BY <1>2, <1>3, <1>7, <2>1, <2>2, <2>3 DEF IInv, Types
<1>9. CASE Scan
  <2>1. PICK late : preflight' = [pc |-> "open",
                        payload |-> Payload({ProbeRecord(i, Reason(i, late)) :
                                                i \in SelectedRows})]
    BY <1>9 DEF Scan
  <2>2. UNCHANGED <<badFile, preflights, stops, steady>>
    BY <1>9 DEF Scan
  <2>3. /\ preflight'.pc = "open"
        /\ preflight' = [pc |-> preflight'.pc, payload |-> preflight'.payload]
        /\ LoadedFilter(preflight'.payload) \in Filters
    BY <2>1, PayloadFilter
  <2>4. DiskTypes'
    BY <1>5, <2>2, <2>3 DEF DiskTypes, Filter
  <2>5. OtherTypes'
    BY <1>4, <1>6, <2>2 DEF OtherTypes
  <2>. QED
    BY <1>2, <1>3, <1>7, <2>2, <2>4, <2>5 DEF IInv, Types
<1>10. CASE OpenCache
  <2>1. /\ preflight' = [pc |-> "write", payload |-> preflight.payload]
        /\ badFile' = Torn
        /\ UNCHANGED <<preflights, stops, steady>>
    BY <1>5, <1>10 DEF OpenCache
  <2>2. DiskTypes'
    BY <1>5, <2>1 DEF DiskTypes
  <2>3. OtherTypes'
    BY <1>4, <1>6, <2>1 DEF OtherTypes
  <2>4. OneFilter'
    <3>1. \A f : TaskPool(f)' = TaskPool(f)
      BY <1>1, SettingsStay
    <3>2. ~Readable'
      BY <2>1 DEF Readable
    <3>3. ~Readable' /\ UNCHANGED <<session, steady>>
      BY <1>4, <2>1, <3>2
    <3>. QED
      BY <3>1, <3>3, Zenon DEF OneFilter
  <2>. QED
    BY <1>2, <1>3, <2>2, <2>3, <2>4 DEF IInv, Types
<1>11. CASE CloseCache
  <2>1. /\ preflight' = [pc |-> "off", payload |-> None]
        /\ badFile' = preflight.payload
        /\ steady' = (steady /\ session.pc = "off")
        /\ UNCHANGED <<preflights, stops>>
    BY <1>11 DEF CloseCache
  <2>2. DiskTypes'
    BY <1>5, <2>1 DEF DiskTypes, Filter
  <2>3. OtherTypes'
    BY <1>4, <1>6, <2>1 DEF OtherTypes
  <2>4. OneFilter'
    <3>1. SUFFICES ASSUME steady' PROVE OneFilter'
      BY Zenon DEF OneFilter
    <3>2. session.name = None /\ session.pools = <<>>
      BY <2>1, <3>1 DEF AtStep
    <3>3. session'.name = None /\ DOMAIN session'.pools = {}
      BY <1>4, <3>2
    <3>. QED
      BY <3>3, Zenon DEF OneFilter
  <2>. QED
    BY <1>2, <1>3, <2>2, <2>3, <2>4 DEF IInv, Types
<1>12. CASE KillPreflight
  <2>1. /\ preflight' = [pc |-> "off", payload |-> None]
        /\ stops' = stops + 1 /\ stops < MaxStops
        /\ UNCHANGED <<badFile, preflights, steady>>
    BY <1>12 DEF KillPreflight
  <2>2. DiskTypes'
    BY <1>5, <2>1 DEF DiskTypes, Filter
  <2>3. OtherTypes'
    BY <1>4, <1>6, <2>1, Bounds DEF OtherTypes
  <2>. QED
    BY <1>2, <1>3, <1>7, <2>1, <2>2, <2>3 DEF IInv, Types
<1>. QED
  BY <1>8, <1>9, <1>10, <1>11, <1>12 DEF Preflight

-----------------------------------------------------------------------------
(* The session of the loop                                                 *)

\* The part of the invariant that is about the session.
RunInv == RunTypes /\ AtStep /\ OneFilter /\ Reserved /\ Drawn

\* What no step of a session changes.
Around == UNCHANGED <<settings, badFile, steady>>

\* The filter of the pools stays the one the cache holds while no pool is
\* built and no other filter named.
LEMMA OneFilterKept ==
  ASSUME OneFilter, Around, session'.name \in {None, session.name},
         session'.pools \in {<<>>, session.pools}
  PROVE  OneFilter'
<1>1. UNCHANGED <<badFile, steady>> /\ \A f : TaskPool(f)' = TaskPool(f)
  BY SettingsStay DEF Around
<1>2. CASE session'.pools = session.pools
  BY <1>1, <1>2, Zenon DEF OneFilter, Readable, Filter
<1>3. CASE session'.pools = <<>>
  <2>1. DOMAIN session'.pools = {}
    BY <1>3
  <2>2. Readable' = Readable /\ Filter' = Filter /\ steady' = steady
    BY <1>1, Zenon DEF Readable, Filter
  <2>. QED
    BY <2>1, <2>2, Zenon DEF OneFilter
<1>. QED
  BY <1>2, <1>3

\* What is recorded stays so while nothing is recorded.
LEMMA RecordedKept ==
  ASSUME Recorded, UNCHANGED <<manifest, committed, evaluated, trained, settings, steady>>
  PROVE  Recorded'
<1>1. split' = split
  BY DEF settings
<1>. QED
  BY <1>1, Zenon DEF Recorded, Apart

\* The fixed tasks stay reserved while the session holds what it held and
\* nothing is recorded.
LEMMA ReservedKept ==
  ASSUME Reserved, Around, UNCHANGED <<manifest, committed, evaluated, trained>>,
         Started' /\ split.count > 0
           => /\ session'.pc = session.pc /\ session'.pools = session.pools
              /\ session'.fixed = session.fixed /\ session'.batch = session.batch
              /\ session'.eval = session.eval
  PROVE  Reserved'
<1>1. /\ UNCHANGED <<settings, badFile, steady>> /\ split' = split
      /\ PartitionRefused("eval")' = PartitionRefused("eval")
  BY SettingsStay DEF Around
<1>2. SUFFICES ASSUME split.count > 0 PROVE Reserved'
  BY <1>1, Zenon DEF Reserved
<1>3. Holding /\ Recorded
  BY <1>2, Zenon DEF Reserved
<1>4. Recorded'
  BY <1>1, <1>3, RecordedKept
<1>5. ASSUME Started' PROVE Holding'
  <2>1. /\ session'.pc = session.pc /\ session'.pools = session.pools
        /\ session'.fixed = session.fixed /\ session'.batch = session.batch
        /\ session'.eval = session.eval
    BY <1>2, <1>5
  <2>2. \A n : Held(n)' = Held(n)
    BY <1>1, <2>1, HeldStays
  <2>. QED
    BY <1>1, <1>3, <2>1, <2>2, Zenon DEF Holding, Started, Apart
<1>6. Holding'
  BY <1>5, Zenon DEF Holding
<1>. QED
  BY <1>4, <1>6, Zenon DEF Reserved

\* The draws are still even while none is counted.
LEMMA DrawnKept ==
  ASSUME Drawn, Around, UNCHANGED <<committed, drawn>>,
         session'.pc \in {"eval", "commit", "pointer"} =>
            /\ session.pc \in {"eval", "commit", "pointer"}
            /\ session'.batch = session.batch /\ session'.step = session.step
  PROVE  Drawn'
<1>1. \A S : Line(S)' = Line(S)
  BY SettingsStay DEF Around
<1>. QED
  BY <1>1, Zenon DEF Drawn

\* A session that starts knows no filter yet.
LEMMA StartSessionKeeps ==
  ASSUME RunInv, split \in Splits, StartSession
  PROVE  RunInv'
<1>. RunTypes /\ AtStep /\ OneFilter /\ Reserved /\ Drawn
  BY DEF RunInv
<1>1. /\ session.pc = "off" /\ sessions < MaxSessions /\ committed < Steps - 1
      /\ session' = [Idle EXCEPT !.pc = IF split.count > 0 THEN "start" ELSE "train",
                                 !.step = committed + 1]
      /\ sessions' = sessions + 1
      /\ UNCHANGED <<manifest, committed, evaluated, trained, drawn, settings, badFile, steady>>
  BY DEF StartSession, diskVars
<1>2. Around /\ split' = split
  BY <1>1 DEF Around, settings
<1>3. /\ session' = [pc |-> session'.pc, step |-> committed + 1, name |-> None,
                     pools |-> <<>>, fixed |-> {}, batch |-> <<>>, eval |-> {}]
      /\ session'.pc = IF split.count > 0 THEN "start" ELSE "train"
      /\ session'.step = committed + 1 /\ session'.name = None
      /\ session'.pools = <<>> /\ session'.batch = <<>>
      /\ session'.fixed = {} /\ session'.eval = {}
  BY <1>1 DEF Idle
<1>4. session.name = None /\ session.pools = <<>> /\ session.batch = <<>>
  BY <1>1 DEF AtStep
<1>5. RunTypes'
  <2>1. sessions' \in 0..MaxSessions /\ committed + 1 \in 0..Steps
    <3>1. sessions \in 0..MaxSessions /\ committed \in -1..(Steps - 1)
      BY DEF RunTypes
    <3>2. MaxSessions \in Nat /\ Steps \in Nat
      BY Bounds
    <3>. QED
      BY <1>1, <3>1, <3>2
  <2>2. <<>> \in Seq(Rows) /\ DOMAIN <<>> = {}
    OBVIOUS
  <2>3. /\ session'.pc \in {"off", "start", "train", "eval", "commit", "pointer"}
        /\ session' = [pc |-> session'.pc, step |-> session'.step, name |-> session'.name,
                       pools |-> session'.pools, fixed |-> session'.fixed,
                       batch |-> session'.batch, eval |-> session'.eval]
    BY <1>3
  <2>4. /\ UNCHANGED <<manifest, committed, evaluated, trained, drawn>>
        /\ DOMAIN session'.pools \subseteq Filters
        /\ session'.step \in 0..Steps /\ session'.batch \in Seq(Rows)
    BY <1>1, <1>3, <2>1, <2>2, Zenon
  <2>. QED
    BY <1>3, <2>1, <2>3, <2>4 DEF RunTypes
<1>6. AtStep'
  BY <1>1, <1>2, <1>3 DEF AtStep
<1>7. OneFilter'
  BY <1>2, <1>3, OneFilterKept
<1>8. Reserved'
  <2>1. Started' => ~(split.count > 0)
    BY <1>3 DEF Started
  <2>. QED
    BY <1>1, <1>2, <1>3, <2>1, ReservedKept
<1>9. Drawn'
  BY <1>1, <1>2, <1>3, DrawnKept
<1>. QED
  BY <1>5, <1>6, <1>7, <1>8, <1>9 DEF RunInv

\* A session that ends, or is killed, leaves nothing but what was committed.
LEMMA EndSessionKeeps ==
  ASSUME RunInv, EndSession
  PROVE  RunInv'
<1>. RunTypes /\ AtStep /\ OneFilter /\ Reserved /\ Drawn
  BY DEF RunInv
<1>1. /\ session' = Idle
      /\ UNCHANGED <<settings, sessions, manifest, committed, evaluated, trained, drawn,
                     badFile, steady>>
  BY DEF EndSession, diskVars
<1>2. Around
  BY <1>1 DEF Around
<1>3. /\ session' = [pc |-> "off", step |-> 0, name |-> None,
                     pools |-> <<>>, fixed |-> {}, batch |-> <<>>, eval |-> {}]
      /\ session'.pc = "off" /\ session'.step = 0 /\ session'.name = None
      /\ session'.pools = <<>> /\ session'.batch = <<>>
      /\ session'.fixed = {} /\ session'.eval = {}
  BY <1>1 DEF Idle
<1>4. RunTypes'
  <2>1. 0 \in 0..Steps
    BY Bounds
  <2>2. <<>> \in Seq(Rows) /\ DOMAIN <<>> = {}
    OBVIOUS
  <2>. QED
    BY <1>1, <1>3, <2>1, <2>2 DEF RunTypes
<1>5. AtStep'
  BY <1>3 DEF AtStep
<1>6. OneFilter'
  BY <1>2, <1>3, OneFilterKept
<1>7. Reserved'
  BY <1>1, <1>2, <1>3, ReservedKept DEF Started
<1>8. Drawn'
  BY <1>1, <1>2, <1>3, DrawnKept
<1>. QED
  BY <1>4, <1>5, <1>6, <1>7, <1>8 DEF RunInv

\* The session names the filter that the cache holds.
LEMMA NamePoolKeeps ==
  ASSUME RunInv, DiskTypes, NamePool
  PROVE  RunInv'
<1>. RunTypes /\ AtStep /\ OneFilter /\ Reserved /\ Drawn
  BY DEF RunInv
<1>1. /\ Reading /\ session.name = None /\ Readable
      /\ session' = [session EXCEPT !.name = Filter]
      /\ UNCHANGED <<settings, sessions, manifest, committed, evaluated, trained, drawn,
                     badFile, steady>>
  BY DEF NamePool, diskVars
<1>2. Around /\ split' = split
  BY <1>1 DEF Around, settings
<1>3. /\ session' = [pc |-> session.pc, step |-> session.step, name |-> Filter,
                     pools |-> session.pools, fixed |-> session.fixed,
                     batch |-> session.batch, eval |-> session.eval]
      /\ session'.pc = session.pc /\ session'.step = session.step /\ session'.name = Filter
      /\ session'.pools = session.pools /\ session'.batch = session.batch
      /\ session'.fixed = session.fixed /\ session'.eval = session.eval
  BY <1>1 DEF RunTypes
<1>4. Filter \in Filters
  BY <1>1 DEF DiskTypes, Readable, Filter, LoadedFilter, Filters
<1>5. RunTypes'
  BY <1>1, <1>3, <1>4 DEF RunTypes
<1>6. AtStep'
  <2>1. session.pc # "off"
    BY <1>1 DEF Reading
  <2>. QED
    BY <1>1, <1>2, <1>3, <2>1 DEF AtStep
<1>7. OneFilter'
  <2>1. \A f : TaskPool(f)' = TaskPool(f)
    BY <1>1, SettingsStay
  <2>2. Readable' = Readable /\ Filter' = Filter /\ steady' = steady
    BY <1>1 DEF Readable, Filter
  <2>3. ASSUME steady
        PROVE  /\ \A n \in DOMAIN session.pools : session.pools[n] = TaskPool(n)
               /\ \A n, m \in DOMAIN session.pools : n = m
               /\ \A n \in DOMAIN session.pools : n = Filter
    BY <1>1, <2>3 DEF OneFilter
  <2>4. ASSUME steady
        PROVE  /\ \A n \in DOMAIN session'.pools : session'.pools[n] = TaskPool(n)'
               /\ \A n, m \in DOMAIN session'.pools : n = m
               /\ \A n \in DOMAIN session'.pools : n = Filter'
               /\ session'.name = Filter'
    BY <1>3, <2>1, <2>2, <2>3, <2>4, Zenon
  <2>. QED
    BY <2>2, <2>4, Zenon DEF OneFilter
<1>8. Reserved'
  BY <1>1, <1>2, <1>3, ReservedKept
<1>9. Drawn'
  BY <1>1, <1>2, <1>3, DrawnKept
<1>. QED
  BY <1>5, <1>6, <1>7, <1>8, <1>9 DEF RunInv

\* The first pool of a steady session is the pool of the cache; a session
\* that has reserved its fixed tasks builds no other.
LEMMA BuildPoolKeeps ==
  ASSUME RunInv, BuildPool
  PROVE  RunInv'
<1>. RunTypes /\ AtStep /\ OneFilter /\ Reserved /\ Drawn
  BY DEF RunInv
<1>1. /\ Reading /\ Named /\ Readable
      /\ session' = [session EXCEPT !.pools = Stored(@, session.name, TaskPool(Filter))]
      /\ UNCHANGED <<settings, sessions, manifest, committed, evaluated, trained, drawn,
                     badFile, steady>>
  BY DEF BuildPool, diskVars
<1>2. Around /\ split' = split
  BY <1>1 DEF Around, settings
<1>. DEFINE pools == Stored(session.pools, session.name, TaskPool(Filter))
<1>3. /\ session' = [pc |-> session.pc, step |-> session.step, name |-> session.name,
                     pools |-> pools, fixed |-> session.fixed,
                     batch |-> session.batch, eval |-> session.eval]
      /\ session'.pc = session.pc /\ session'.step = session.step
      /\ session'.name = session.name
      /\ session'.pools = pools /\ session'.batch = session.batch
      /\ session'.fixed = session.fixed /\ session'.eval = session.eval
  <2>. HIDE DEF pools
  <2>1. session' = [session EXCEPT !.pools = pools]
    BY <1>1 DEF pools
  <2>. QED
    BY <2>1 DEF RunTypes
<1>4. /\ DOMAIN pools = DOMAIN session.pools \cup {session.name}
      /\ pools[session.name] = TaskPool(Filter)
      /\ \A n \in DOMAIN session.pools : pools[n] = session.pools[n]
      /\ session.name # None /\ session.name \notin DOMAIN session.pools
  BY <1>1 DEF Stored, Named
<1>. HIDE DEF pools
<1>5. RunTypes'
  <2>1. DOMAIN pools \subseteq Filters
    BY <1>4 DEF RunTypes
  <2>. QED
    BY <1>1, <1>3, <2>1 DEF RunTypes
<1>6. AtStep'
  <2>1. session.pc # "off"
    BY <1>1 DEF Reading
  <2>2. \A n \in DOMAIN pools : IsPool(pools[n])
    BY <1>4, PoolList DEF AtStep
  <2>. QED
    BY <1>1, <1>2, <1>3, <2>1, <2>2 DEF AtStep
<1>7. ASSUME steady PROVE DOMAIN session.pools = {} /\ session.name = Filter
  BY <1>1, <1>4, <1>7 DEF OneFilter
<1>8. OneFilter'
  <2>1. \A f : TaskPool(f)' = TaskPool(f)
    BY <1>1, SettingsStay
  <2>2. Readable' = Readable /\ Filter' = Filter /\ steady' = steady
    BY <1>1 DEF Readable, Filter
  <2>3. ASSUME steady
        PROVE  /\ \A n \in DOMAIN pools : n = Filter
               /\ \A n \in DOMAIN pools : pools[n] = TaskPool(n)
    BY <1>4, <1>7, <2>3
  <2>. QED
    BY <1>3, <1>7, <2>1, <2>2, <2>3, Zenon DEF OneFilter
<1>9. Reserved'
  <2>1. PartitionRefused("eval")' = PartitionRefused("eval")
    BY <1>1, SettingsStay
  <2>2. SUFFICES ASSUME split.count > 0 PROVE Reserved'
    BY <1>2, Zenon DEF Reserved
  <2>3. Holding /\ Recorded
    BY <2>2, Zenon DEF Reserved
  <2>4. ASSUME Started'
        PROVE  /\ Cardinality(session.fixed) = split.count
               /\ ~PartitionRefused("eval") /\ DOMAIN pools # {} /\ ~steady
               /\ committed # -1 \/ session.pc = "pointer" => manifest = session.fixed
    <3>1. Started
      BY <1>3, <2>4 DEF Started
    <3>2. /\ Cardinality(session.fixed) = split.count
          /\ ~PartitionRefused("eval") /\ DOMAIN session.pools # {}
          /\ committed # -1 \/ session.pc = "pointer" => manifest = session.fixed
      BY <2>3, <3>1, Zenon DEF Holding
    <3>. QED
      BY <1>4, <1>7, <3>2
  <2>5. Holding'
    BY <1>1, <1>2, <1>3, <2>1, <2>4, Zenon DEF Holding
  <2>6. Recorded'
    BY <1>1, <2>3, RecordedKept
  <2>. QED
    BY <2>5, <2>6, Zenon DEF Reserved
<1>10. Drawn'
  BY <1>1, <1>2, <1>3, DrawnKept
<1>. QED
  BY <1>5, <1>6, <1>8, <1>9, <1>10 DEF RunInv

\* A pool of the session is a list of tasks of different identities, and so
\* are its partitions.
LEMMA PoolTasks ==
  ASSUME AtStep, HasPool, split \in Splits, NEW partition
  PROVE  \E S \in SUBSET Rows :
            /\ Pool = Ascending(S)
            /\ \A i, j \in S : Dataset[i].identity = Dataset[j].identity => i = j
            /\ Samples(Pool, partition, split) = Ascending(SampleSet(S, partition, split))
            /\ SampleSet(S, partition, split) \in SUBSET S
            /\ partition \in {"all", "train"} /\ ~SamplesRaise(Pool, partition, split)
                  => SampleSet(S, partition, split) # {}
            /\ ToSet(Samples(Pool, partition, split)) = SampleSet(S, partition, split)
            /\ IdsOf(Samples(Pool, partition, split)) \in SUBSET Ids
<1>1. session.name \in DOMAIN session.pools /\ Pool = session.pools[session.name]
  BY DEF HasPool, Pool
<1>2. PICK S \in SUBSET Rows :
         /\ Pool = Ascending(S)
         /\ \A i, j \in S : Dataset[i].identity = Dataset[j].identity => i = j
  BY <1>1 DEF AtStep, IsPool
<1>3. split \in [count : Nat, percent : 0..99, minRows : Nat]
  BY Bounds
<1>4. /\ SampleSet(S, partition, split) \in SUBSET S
      /\ Samples(Pool, partition, split) = Ascending(SampleSet(S, partition, split))
      /\ partition \in {"all", "train"} /\ ~SamplesRaise(Pool, partition, split)
             => SampleSet(S, partition, split) # {}
  BY <1>2, <1>3, SamplesList
<1>5. ToSet(Samples(Pool, partition, split)) = SampleSet(S, partition, split)
  <2>1. SampleSet(S, partition, split) \in SUBSET Rows
    BY <1>4
  <2>. QED
    BY <1>4, <2>1, TaskList
<1>6. IdsOf(Samples(Pool, partition, split)) \in SUBSET Ids
  <2>1. SampleSet(S, partition, split) \in SUBSET Rows
    BY <1>4
  <2>. QED
    BY <1>5, <2>1 DEF IdsOf, Ids
<1>. QED
  BY <1>2, <1>4, <1>5, <1>6

\* The fixed tasks are those of the pool, and those of the run once it has
\* some.
LEMMA ReserveKeeps ==
  ASSUME RunInv, split \in Splits, ReserveFixedPool
  PROVE  RunInv'
<1>. RunTypes /\ AtStep /\ OneFilter /\ Reserved /\ Drawn
  BY DEF RunInv
<1>. DEFINE fixed == IdsOf(Samples(Pool, "eval", split))
<1>1. /\ session.pc = "start" /\ HasPool /\ ~SamplesRaise(Pool, "eval", split)
      /\ Cardinality(fixed) = split.count /\ ~FixedPoolRefused(fixed)
      /\ session' = [session EXCEPT !.pc = "train", !.name = None, !.fixed = fixed]
      /\ UNCHANGED <<settings, sessions, manifest, committed, evaluated, trained, drawn,
                     badFile, steady>>
  BY DEF ReserveFixedPool, diskVars
<1>2. Around /\ split' = split /\ split.count > 0 /\ session.batch = <<>>
  BY <1>1 DEF Around, settings, AtStep
<1>4. fixed \in SUBSET Ids
  BY <1>1, PoolTasks
<1>5. ~PartitionRefused("eval")
  BY <1>1, Zenon DEF SamplesRaise
<1>. HIDE DEF fixed
<1>3. /\ session' = [pc |-> "train", step |-> session.step, name |-> None,
                     pools |-> session.pools, fixed |-> fixed,
                     batch |-> session.batch, eval |-> session.eval]
      /\ session'.pc = "train" /\ session'.step = session.step
      /\ session'.name = None /\ session'.fixed = fixed
      /\ session'.pools = session.pools /\ session'.batch = session.batch
      /\ session'.eval = session.eval
  BY <1>1 DEF RunTypes
<1>6. RunTypes'
  BY <1>1, <1>3, <1>4 DEF RunTypes
<1>7. AtStep'
  BY <1>1, <1>2, <1>3 DEF AtStep
<1>8. OneFilter'
  BY <1>2, <1>3, OneFilterKept
<1>9. Drawn'
  BY <1>1, <1>2, <1>3, DrawnKept
<1>10. committed # -1 => manifest = fixed
  <2>1. committed \in -1..(Steps - 1) /\ Steps \in Nat
    BY Bounds DEF RunTypes
  <2>. QED
    BY <1>1, <2>1 DEF FixedPoolRefused, StoredFixed
<1>11. Reserved'
  <2>1. PartitionRefused("eval")' = PartitionRefused("eval")
    BY <1>1, SettingsStay
  <2>2. session.name \in DOMAIN session.pools
    BY <1>1 DEF HasPool
  <2>3. ASSUME steady PROVE \A n \in DOMAIN session.pools : fixed = Held(n)'
    <3>1. \A n \in DOMAIN session.pools : n = session.name
      BY <2>2, <2>3, Zenon DEF OneFilter
    <3>2. \A n : Held(n)' = Held(n)
      BY <1>1, <1>3, HeldStays, SettingsStay
    <3>3. fixed = Held(session.name)
      BY DEF fixed, Held, Pool
    <3>. QED
      BY <3>1, <3>2, <3>3
  <2>4. ToSet(session'.batch) = {}
    BY <1>2, <1>3 DEF ToSet
  <2>5. Holding'
    BY <1>1, <1>2, <1>3, <1>5, <1>10, <2>1, <2>2, <2>3, <2>4 DEF Holding
  <2>6. Recorded'
    BY <1>1, <1>2, RecordedKept, Zenon DEF Reserved
  <2>. QED
    BY <2>5, <2>6, Zenon DEF Reserved
<1>. QED
  BY <1>6, <1>7, <1>8, <1>9, <1>11 DEF RunInv

\* The list that a step is drawn from: the line of the partition's tasks.
LEMMA TrainLine ==
  ASSUME RunInv, split \in Splits, HasPool, ~SamplesRaise(Pool, TrainPartition, split)
  PROVE  \E S \in SUBSET Rows :
            /\ Pool = Ascending(S)
            /\ \A i, j \in S : Dataset[i].identity = Dataset[j].identity => i = j
            /\ SampleSet(S, TrainPartition, split) \in SUBSET S
            /\ SampleSet(S, TrainPartition, split) # {}
            /\ StageOrder(Samples(Pool, TrainPartition, split), Stage, TrainPartition)
                 = Line(SampleSet(S, TrainPartition, split))
            /\ ToSet(Line(SampleSet(S, TrainPartition, split)))
                 = SampleSet(S, TrainPartition, split)
<1>1. TrainPartition \in {"all", "train"}
  BY DEF TrainPartition
<1>2. PICK S \in SUBSET Rows :
            /\ Pool = Ascending(S)
            /\ \A i, j \in S : Dataset[i].identity = Dataset[j].identity => i = j
            /\ Samples(Pool, TrainPartition, split)
                 = Ascending(SampleSet(S, TrainPartition, split))
            /\ SampleSet(S, TrainPartition, split) \in SUBSET S
            /\ SampleSet(S, TrainPartition, split) # {}
  <2>. HIDE DEF RunInv
  <2>1. AtStep
    BY DEF RunInv
  <2>. QED
    BY <1>1, <2>1, PoolTasks
<1>3. SampleSet(S, TrainPartition, split) \in SUBSET Rows
  BY <1>2
<1>4. ToSet(Line(SampleSet(S, TrainPartition, split))) = SampleSet(S, TrainPartition, split)
  BY <1>3, LineLists
<1>. QED
  BY <1>2, <1>4 DEF Line

\* A task of the train partition states another problem than any that is
\* held out.
LEMMA TrainApartFromEval ==
  ASSUME NEW S \in SUBSET Rows,
         \A i, j \in S : Dataset[i].identity = Dataset[j].identity => i = j,
         NEW s \in [count : Nat, percent : 0..99, minRows : Nat],
         ~PartitionRefused("train"), ~PartitionRefused("eval"),
         NEW i \in SampleSet(S, "train", s), NEW j \in Rows,
         Dataset[j].id \in IdsOf(Samples(Ascending(S), "eval", s))
  PROVE  Dataset[i].identity # Dataset[j].identity
<1>1. CachedPartition \notin {"train", "eval"}
  BY NoneAssumption DEF PartitionRefused
<1>. DEFINE H == RftEval(Ascending(S), s)
<1>2. SampleSet(S, "train", s) = S \ H /\ SampleSet(S, "eval", s) = S \cap H
  BY <1>1 DEF SampleSet
<1>3. ToSet(Samples(Ascending(S), "eval", s)) = S \cap H
  <2>1. S \cap H \in SUBSET Rows
    OBVIOUS
  <2>2. ToSet(Ascending(S \cap H)) = S \cap H
    BY <2>1, TaskList
  <2>3. Samples(Ascending(S), "eval", s) = Ascending(SampleSet(S, "eval", s))
    BY SamplesList
  <2>. QED
    BY <1>2, <2>2, <2>3, Zenon
<1>. HIDE DEF H
<1>4. PICK k \in S \cap H : Dataset[k].id = Dataset[j].id
  BY <1>3 DEF IdsOf
<1>5. j = k
  BY <1>4, RowFields
<1>. QED
  BY <1>2, <1>4, <1>5

\* A batch is drawn from the train partition of a pool whose other tasks are
\* reserved, in the order that the counts of the draws are about.
LEMMA CollectTrainKeeps ==
  ASSUME RunInv, split \in Splits, CollectTrain
  PROVE  RunInv'
<1>. RunTypes /\ AtStep /\ OneFilter /\ Reserved /\ Drawn
  BY DEF RunInv
<1>1. session.pc = "train" /\ HasPool /\ ~SamplesRaise(Pool, TrainPartition, split)
  BY DEF CollectTrain
<1>2. PICK S \in SUBSET Rows :
         /\ Pool = Ascending(S)
         /\ \A i, j \in S : Dataset[i].identity = Dataset[j].identity => i = j
         /\ SampleSet(S, TrainPartition, split) \in SUBSET S
         /\ SampleSet(S, TrainPartition, split) # {}
         /\ StageOrder(Samples(Pool, TrainPartition, split), Stage, TrainPartition)
              = Line(SampleSet(S, TrainPartition, split))
         /\ ToSet(Line(SampleSet(S, TrainPartition, split)))
              = SampleSet(S, TrainPartition, split)
  BY <1>1, TrainLine
<1>3. PICK X : X = SampleSet(S, TrainPartition, split)
  OBVIOUS
<1>4. PICK line : line = Line(X)
  OBVIOUS
<1>5. /\ X \in SUBSET Rows /\ X \in SUBSET S /\ X # {} /\ ToSet(line) = X
      /\ ListsOnce(line, X) /\ line \in Seq(X) /\ line \in Seq(Rows)
      /\ line # <<>> /\ Len(line) \in Nat /\ Len(line) > 0
      /\ StageOrder(Samples(Pool, TrainPartition, split), Stage, TrainPartition) = line
  <2>1. X \in SUBSET Rows /\ X \in SUBSET S /\ X # {}
    BY <1>2, <1>3
  <2>2. /\ ListsOnce(Line(X), X) /\ Line(X) \in Seq(Rows) /\ Len(Line(X)) \in Nat
        /\ ToSet(Line(X)) = X /\ Line(X) # <<>> /\ Len(Line(X)) > 0
    BY <2>1, LineLists
  <2>3. ListsOnce(line, X) => line \in Seq(X)
    BY DEF ListsOnce
  <2>. QED
    BY <1>2, <1>3, <1>4, <2>1, <2>2, <2>3, Zenon
<1>6. /\ session' = [session EXCEPT
                        !.pc = IF HoldsOut THEN "eval" ELSE "commit",
                        !.name = None,
                        !.batch = TaskBatch(line, session.step, BatchSize)]
      /\ drawn' = IF DOMAIN drawn = ToSet(line) THEN drawn
                  ELSE [i \in ToSet(line) |-> 0]
      /\ UNCHANGED <<settings, sessions, manifest, committed, evaluated, trained,
                     badFile, steady>>
  BY <1>5 DEF CollectTrain, diskVars
<1>7. Around /\ split' = split
  BY <1>6 DEF Around, settings
<1>8. PICK taken : taken = TaskBatch(line, session.step, BatchSize)
  OBVIOUS
<1>9. /\ session' = [pc |-> session'.pc, step |-> session.step, name |-> None,
                     pools |-> session.pools, fixed |-> session.fixed,
                     batch |-> taken, eval |-> session.eval]
      /\ session'.pc = IF HoldsOut THEN "eval" ELSE "commit"
      /\ session'.step = session.step /\ session'.name = None
      /\ session'.pools = session.pools /\ session'.batch = taken
      /\ session'.fixed = session.fixed /\ session'.eval = session.eval
  BY <1>6, <1>8 DEF RunTypes
<1>10. session.step \in Nat /\ taken \in Seq(X) /\ taken \in Seq(Rows)
  <2>1. session.step \in Nat
    BY Bounds DEF RunTypes
  <2>2. taken \in Seq(X)
    BY <1>5, <1>8, <2>1, BatchOfList, Bounds
  <2>. QED
    BY <1>5, <2>1, <2>2
<1>11. /\ DOMAIN drawn' = X
       /\ drawn' = [i \in X |-> drawn'[i]]
       /\ drawn' = drawn \/ \A i \in X : drawn'[i] = 0
       /\ \A i \in X : drawn'[i] \in Nat
  BY <1>5, <1>6 DEF RunTypes
<1>12. RunTypes'
  BY <1>5, <1>6, <1>9, <1>10, <1>11 DEF RunTypes
<1>13. AtStep'
  BY <1>1, <1>6, <1>7, <1>9 DEF AtStep
<1>14. OneFilter'
  BY <1>7, <1>9, OneFilterKept
<1>15. Reserved'
  <2>1. /\ PartitionRefused("eval")' = PartitionRefused("eval")
        /\ \A n : Held(n)' = Held(n)
    BY <1>6, <1>9, HeldStays, SettingsStay
  <2>2. SUFFICES ASSUME split.count > 0 PROVE Reserved'
    BY <1>7, Zenon DEF Reserved
  <2>3. session'.pc = "eval" /\ Started
    BY <1>1, <1>9, <2>2 DEF HoldsOut, Started
  <2>4. /\ Cardinality(session.fixed) = split.count
        /\ ~PartitionRefused("eval") /\ DOMAIN session.pools # {}
        /\ committed # -1 => manifest = session.fixed
        /\ steady => \A n \in DOMAIN session.pools : session.fixed = Held(n)
    BY <2>2, <2>3, Zenon DEF Reserved, Holding
  <2>5. ASSUME steady, NEW i \in ToSet(taken) PROVE Apart(i, session.fixed)
    <3>1. session.fixed = IdsOf(Samples(Ascending(S), "eval", split))
      BY <1>1, <1>2, <2>4, <2>5 DEF Held, HasPool, Pool
    <3>2. TrainPartition = "train"
      BY <2>2 DEF TrainPartition, HoldsOut
    <3>3. ~PartitionRefused("train")
      BY <1>1, <3>2 DEF SamplesRaise
    <3>4. i \in SampleSet(S, "train", split)
      BY <1>3, <1>10, <2>5, <3>2 DEF ToSet
    <3>5. split \in [count : Nat, percent : 0..99, minRows : Nat]
      BY Bounds
    <3>6. ASSUME NEW j \in Rows, Dataset[j].id \in session.fixed
          PROVE  Dataset[i].identity # Dataset[j].identity
      BY <1>2, <2>4, <3>1, <3>3, <3>4, <3>5, <3>6, TrainApartFromEval
    <3>. QED
      BY <3>6 DEF Apart
  <2>6. ASSUME steady PROVE \A i \in ToSet(taken) : Apart(i, session.fixed)'
    BY <1>9, <2>5, <2>6, Zenon DEF Apart
  <2>7. Holding'
    BY <1>6, <1>7, <1>9, <2>1, <2>3, <2>4, <2>6 DEF Holding
  <2>8. Recorded'
    BY <1>6, <1>7, <2>2, RecordedKept, Zenon DEF Reserved
  <2>. QED
    BY <2>7, <2>8, Zenon DEF Reserved
<1>16. Drawn'
  <2>1. Line(DOMAIN drawn)' = line
    <3>1. \A R : Line(R)' = Line(R)
      BY <1>6, SettingsStay
    <3>. QED
      BY <1>4, <1>11, <3>1
  <2>2. \E w \in 0..(committed + 1) :
           \A k \in 1..Len(line) :
              drawn'[line[k]] = Visits(k - 1, (committed + 1) * BatchSize, Len(line))
                                 - Visits(k - 1, w * BatchSize, Len(line))
    <3>1. CASE DOMAIN drawn = X
      <4>1. drawn' = drawn /\ Line(DOMAIN drawn) = line
        BY <1>4, <1>5, <1>6, <3>1
      <4>. QED
        BY <4>1, Zenon DEF Drawn
    <3>2. CASE DOMAIN drawn # X
      <4>1. \A i \in X : drawn'[i] = 0
        BY <1>5, <1>6, <3>2
      <4>2. PICK n \in Nat : n = (committed + 1) * BatchSize
        <5>1. committed + 1 \in Nat /\ BatchSize \in Nat
          BY Bounds DEF RunTypes
        <5>. QED
          BY <5>1
      <4>3. ASSUME NEW k \in 1..Len(line)
            PROVE  drawn'[line[k]] = Visits(k - 1, n, Len(line)) - Visits(k - 1, n, Len(line))
        <5>1. k - 1 \in 0..(Len(line) - 1) /\ line[k] \in X
          BY <1>5
        <5>2. Visits(k - 1, n, Len(line)) \in Nat
          <6>1. PICK q \in 0..(Len(line) - 1) : q = k - 1
            BY <5>1
          <6>2. Visits(q, n, Len(line)) \in Nat
            BY <1>5, VisitStep, Zenon
          <6>. QED
            BY <6>1, <6>2, Zenon
        <5>. QED
          BY <4>1, <5>1, <5>2
      <4>4. committed + 1 \in 0..(committed + 1)
        BY Bounds DEF RunTypes
      <4>. QED
        BY <4>2, <4>3, <4>4
    <3>. QED
      BY <3>1, <3>2
  <2>3. /\ committed' = committed /\ session'.step = session.step
        /\ line # <<>> /\ session'.batch = TaskBatch(line, session'.step, BatchSize)
    BY <1>5, <1>6, <1>8, <1>9, Zenon
  <2>. QED
    BY <2>1, <2>2, <2>3, Zenon DEF Drawn
<1>. QED
  BY <1>12, <1>13, <1>14, <1>15, <1>16 DEF RunInv

\* What is evaluated is what is reserved.
LEMMA CollectEvalKeeps ==
  ASSUME RunInv, split \in Splits, CollectEval
  PROVE  RunInv'
<1>. RunTypes /\ AtStep /\ OneFilter /\ Reserved /\ Drawn
  BY DEF RunInv
<1>1. PICK tasks : tasks = Samples(Pool, "eval", split)
  OBVIOUS
<1>2. PICK drew : drew = IF tasks = <<>> THEN {}
                         ELSE IdsOf(TaskBatch(tasks, session.step, EvalBatchSize))
  OBVIOUS
<1>3. /\ session.pc = "eval" /\ HasPool /\ ~SamplesRaise(Pool, "eval", split)
      /\ session' = [session EXCEPT !.pc = "commit", !.name = None, !.eval = drew]
      /\ UNCHANGED <<settings, sessions, manifest, committed, evaluated, trained, drawn,
                     badFile, steady>>
  BY <1>1, <1>2 DEF CollectEval, diskVars
<1>4. Around /\ split' = split
  BY <1>3 DEF Around, settings
<1>5. /\ session' = [pc |-> "commit", step |-> session.step, name |-> None,
                     pools |-> session.pools, fixed |-> session.fixed,
                     batch |-> session.batch, eval |-> drew]
      /\ session'.pc = "commit" /\ session'.step = session.step
      /\ session'.name = None
      /\ session'.pools = session.pools /\ session'.batch = session.batch
      /\ session'.fixed = session.fixed /\ session'.eval = drew
  BY <1>3 DEF RunTypes
<1>6. PICK X \in SUBSET Rows : tasks = Ascending(X)
  <2>1. PICK S \in SUBSET Rows :
            /\ Samples(Pool, "eval", split) = Ascending(SampleSet(S, "eval", split))
            /\ SampleSet(S, "eval", split) \in SUBSET S
    BY <1>3, PoolTasks
  <2>. QED
    BY <1>1, <2>1
<1>7. /\ tasks \in Seq(X) /\ Len(tasks) = Cardinality(X) /\ ToSet(tasks) = X
      /\ (X # {} <=> tasks # <<>>) /\ IsFiniteSet(X) /\ Len(tasks) \in Nat
      /\ tasks # <<>> => Len(tasks) > 0
  BY <1>6, TaskList
<1>8. session.step \in Nat /\ EvalBatchSize \in Nat
  BY Bounds DEF RunTypes, EvalBatchSize
<1>9. drew \in SUBSET Ids
  <2>1. ASSUME tasks # <<>> PROVE IdsOf(TaskBatch(tasks, session.step, EvalBatchSize)) \in SUBSET Ids
    <3>1. TaskBatch(tasks, session.step, EvalBatchSize) \in Seq(X)
      BY <1>7, <1>8, <2>1, BatchOfList
    <3>. HIDE DEF TaskBatch
    <3>2. ToSet(TaskBatch(tasks, session.step, EvalBatchSize)) \in SUBSET Rows
      BY <1>6, <3>1 DEF ToSet
    <3>. QED
      BY <3>2 DEF IdsOf, Ids
  <2>. QED
    BY <1>2, <2>1
<1>10. RunTypes'
  BY <1>3, <1>5, <1>9 DEF RunTypes
<1>11. AtStep'
  BY <1>3, <1>4, <1>5 DEF AtStep
<1>12. OneFilter'
  BY <1>4, <1>5, OneFilterKept
<1>13. Drawn'
  BY <1>3, <1>4, <1>5, DrawnKept
<1>14. Reserved'
  <2>1. /\ PartitionRefused("eval")' = PartitionRefused("eval")
        /\ \A n : Held(n)' = Held(n)
    BY <1>3, <1>5, HeldStays, SettingsStay
  <2>2. SUFFICES ASSUME split.count > 0 PROVE Reserved'
    BY <1>4, Zenon DEF Reserved
  <2>3. Started
    BY <1>3 DEF Started
  <2>4. /\ Cardinality(session.fixed) = split.count
        /\ ~PartitionRefused("eval") /\ DOMAIN session.pools # {}
        /\ committed # -1 => manifest = session.fixed
        /\ steady => /\ \A n \in DOMAIN session.pools : session.fixed = Held(n)
                     /\ \A i \in ToSet(session.batch) : Apart(i, session.fixed)
    BY <2>2, <2>3, Zenon DEF Reserved, Holding
  <2>5. ASSUME steady PROVE drew = session.fixed
    <3>1. session.fixed = IdsOf(tasks)
      BY <1>1, <1>3, <2>4, <2>5 DEF Held, HasPool, Pool
    <3>2. IdsOf(tasks) = {Dataset[i].id : i \in X}
      BY <1>7 DEF IdsOf
    <3>3. Cardinality(X) = Cardinality({Dataset[i].id : i \in X})
      <4>. DEFINE f == [i \in X |-> Dataset[i].id]
                  R == {Dataset[i].id : i \in X}
      <4>1. f \in Bijection(X, R)
        <5>1. \A i, j \in X : f[i] = f[j] => i = j
          BY <1>6, RowFields
        <5>. QED
          BY <5>1 DEF Bijection, Injection, Surjection, IsInjective
      <4>. HIDE DEF f, R
      <4>2. ExistsBijection(X, R)
        BY <4>1, Zenon DEF ExistsBijection
      <4>3. Cardinality(R) = Cardinality(X)
        <5>1. IsFiniteSet(X)
          BY <1>7
        <5>. QED
          BY <4>2, <5>1, FS_Bijection, Zenon
      <4>. QED
        BY <4>3 DEF R
    <3>4. Len(tasks) = split.count /\ EvalBatchSize = split.count
      BY <1>7, <2>2, <2>4, <3>1, <3>2, <3>3 DEF EvalBatchSize
    <3>5. tasks # <<>> /\ Len(tasks) > 0
      BY <2>2, <3>4
    <3>6. TaskBatch(tasks, session.step, EvalBatchSize) = tasks
      BY <1>7, <1>8, <3>4, <3>5, BatchOfList
    <3>. QED
      BY <1>2, <3>1, <3>5, <3>6
  <2>6. ASSUME steady PROVE \A i \in ToSet(session.batch) : Apart(i, session.fixed)'
    BY <1>5, <2>4, <2>6, Zenon DEF Apart
  <2>7. Holding'
    BY <1>3, <1>4, <1>5, <2>1, <2>4, <2>5, <2>6 DEF Holding
  <2>8. Recorded'
    BY <1>3, <1>4, <2>2, RecordedKept, Zenon DEF Reserved
  <2>. QED
    BY <2>7, <2>8, Zenon DEF Reserved
<1>. QED
  BY <1>10, <1>11, <1>12, <1>13, <1>14 DEF RunInv

\* The manifest on disk gets the tasks that the session holds, which are the
\* ones it has already once a step is committed.
LEMMA WriteManifestKeeps ==
  ASSUME RunInv, split \in Splits, WriteManifest
  PROVE  RunInv'
<1>. RunTypes /\ AtStep /\ OneFilter /\ Reserved /\ Drawn
  BY DEF RunInv
<1>1. /\ session.pc = "commit" /\ manifest' = session.fixed
      /\ session' = [session EXCEPT !.pc = "pointer"]
      /\ UNCHANGED <<settings, sessions, committed, evaluated, trained, drawn,
                     badFile, steady>>
  BY DEF WriteManifest, diskVars
<1>2. Around /\ split' = split
  BY <1>1 DEF Around, settings
<1>3. /\ session' = [pc |-> "pointer", step |-> session.step, name |-> session.name,
                     pools |-> session.pools, fixed |-> session.fixed,
                     batch |-> session.batch, eval |-> session.eval]
      /\ session'.pc = "pointer" /\ session'.step = session.step
      /\ session'.name = session.name
      /\ session'.pools = session.pools /\ session'.batch = session.batch
      /\ session'.fixed = session.fixed /\ session'.eval = session.eval
  BY <1>1 DEF RunTypes
<1>4. RunTypes'
  BY <1>1, <1>3 DEF RunTypes
<1>5. AtStep'
  BY <1>1, <1>2, <1>3 DEF AtStep
<1>6. OneFilter'
  BY <1>2, <1>3, OneFilterKept
<1>7. Drawn'
  BY <1>1, <1>2, <1>3, DrawnKept
<1>8. Reserved'
  <2>1. /\ PartitionRefused("eval")' = PartitionRefused("eval")
        /\ \A n : Held(n)' = Held(n)
    BY <1>1, <1>3, HeldStays, SettingsStay
  <2>2. SUFFICES ASSUME split.count > 0 PROVE Reserved'
    BY <1>2, Zenon DEF Reserved
  <2>3. Started
    BY <1>1 DEF Started
  <2>4. /\ Cardinality(session.fixed) = split.count
        /\ ~PartitionRefused("eval") /\ DOMAIN session.pools # {}
        /\ committed # -1 => manifest = session.fixed
        /\ steady => /\ \A n \in DOMAIN session.pools : session.fixed = Held(n)
                     /\ session.eval = session.fixed
                     /\ \A i \in ToSet(session.batch) : Apart(i, session.fixed)
    BY <1>1, <2>2, <2>3 DEF Reserved, Holding
  <2>5. ASSUME steady PROVE \A i \in ToSet(session.batch) : Apart(i, session.fixed)'
    BY <1>3, <2>4, <2>5, Zenon DEF Apart
  <2>6. Holding'
    BY <1>1, <1>2, <1>3, <2>1, <2>4, <2>5 DEF Holding
  <2>7. Recorded
    BY <2>2, Zenon DEF Reserved
  <2>8. Recorded'
    <3>1. committed # -1 => manifest' = manifest
      BY <1>1, <2>4
    <3>. QED
      BY <1>1, <1>2, <2>7, <3>1, Zenon DEF Recorded, Apart
  <2>. QED
    BY <2>6, <2>8, Zenon DEF Reserved
<1>. QED
  BY <1>4, <1>5, <1>6, <1>7, <1>8 DEF RunInv

\* A committed step counts the tasks of its batch once more.
LEMMA CommitKeeps ==
  ASSUME RunInv, split \in Splits, CommitStep
  PROVE  RunInv'
<1>. RunTypes /\ AtStep /\ OneFilter /\ Reserved /\ Drawn
  BY DEF RunInv
<1>1. /\ session.pc = "pointer"
      /\ committed' = session.step
      /\ trained' = trained \cup ToSet(session.batch)
      /\ drawn' = [i \in DOMAIN drawn |-> drawn[i] + Occurrences(session.batch, i)]
      /\ session' = IF session.step = Steps - 1 THEN Idle
                    ELSE [session EXCEPT !.pc = "train", !.step = @ + 1,
                                         !.batch = <<>>, !.eval = {}]
      /\ evaluated' = IF HoldsOut THEN evaluated \cup {session.eval} ELSE evaluated
      /\ UNCHANGED <<settings, sessions, manifest, badFile, steady>>
  BY DEF CommitStep, diskVars
<1>2. Around /\ split' = split
  BY <1>1 DEF Around, settings
<1>3. /\ session.step = committed + 1 /\ committed < Steps - 1
      /\ committed \in -1..(Steps - 1) /\ committed \in Int /\ Steps \in Nat
  BY <1>1, Bounds DEF AtStep, RunTypes
<1>4. /\ session' = [pc |-> session'.pc, step |-> session'.step, name |-> session'.name,
                     pools |-> session'.pools, fixed |-> session'.fixed,
                     batch |-> <<>>, eval |-> {}]
      /\ session'.batch = <<>> /\ session'.eval = {}
      /\ \/ /\ session'.pc = "off" /\ session'.step = 0 /\ session'.name = None
            /\ session'.pools = <<>> /\ session'.fixed = {}
         \/ /\ session.step # Steps - 1
            /\ session'.pc = "train" /\ session'.step = session.step + 1
            /\ session'.name = session.name /\ session'.pools = session.pools
            /\ session'.fixed = session.fixed
  <2>1. CASE session.step = Steps - 1
    BY <1>1, <2>1 DEF Idle
  <2>2. CASE session.step # Steps - 1
    <3>1. session' = [pc |-> "train", step |-> session.step + 1, name |-> session.name,
                      pools |-> session.pools, fixed |-> session.fixed,
                      batch |-> <<>>, eval |-> {}]
      BY <1>1, <2>2 DEF RunTypes
    <3>. QED
      BY <2>2, <3>1
  <2>. QED
    BY <2>1, <2>2
<1>5. \A i : Occurrences(session.batch, i) \in Nat
  <2>1. ASSUME NEW i PROVE Occurrences(session.batch, i) \in Nat
    <3>. DEFINE K == {k \in DOMAIN session.batch : session.batch[k] = i}
    <3>1. IsFiniteSet(1..Len(session.batch)) /\ DOMAIN session.batch = 1..Len(session.batch)
      <4>1. session.batch \in Seq(Rows)
        BY DEF RunTypes
      <4>2. Len(session.batch) \in Nat /\ DOMAIN session.batch = 1..Len(session.batch)
        BY <4>1
      <4>3. PICK n \in Nat : n = Len(session.batch)
        BY <4>2
      <4>4. IsFiniteSet(1..n)
        BY FS_Interval
      <4>. QED
        BY <4>2, <4>3, <4>4, Zenon
    <3>2. K \in SUBSET (1..Len(session.batch))
      BY <3>1
    <3>. HIDE DEF K
    <3>3. IsFiniteSet(K)
      BY <3>1, <3>2, FS_Subset, Zenon
    <3>. QED
      BY <3>3, FS_CardinalityType, Zenon DEF Occurrences, K
  <2>. QED
    BY <2>1
<1>6. RunTypes'
  <2>1. /\ session'.step \in 0..Steps /\ committed' \in -1..(Steps - 1)
        /\ <<>> \in Seq(Rows) /\ DOMAIN <<>> = {}
    BY <1>1, <1>3, <1>4
  <2>2. trained' \subseteq Rows
    BY <1>1 DEF RunTypes, ToSet
  <2>3. /\ DOMAIN drawn' = DOMAIN drawn
        /\ drawn' = [i \in DOMAIN drawn |-> drawn'[i]]
        /\ \A i \in DOMAIN drawn : drawn'[i] \in Nat
    <3>1. \A i \in DOMAIN drawn : drawn[i] \in Nat
      BY DEF RunTypes
    <3>. QED
      BY <1>1, <1>5, <3>1
  <2>4. /\ session'.pc \in {"off", "start", "train", "eval", "commit", "pointer"}
        /\ session'.name = None \/ session'.name \in Filters
        /\ DOMAIN session'.pools \subseteq Filters
        /\ session'.fixed \subseteq Ids
    BY <1>4, <2>1 DEF RunTypes
  <2>5. \A e \in evaluated' : e \subseteq Ids
    BY <1>1 DEF RunTypes
  <2>. QED
    BY <1>1, <1>4, <2>1, <2>2, <2>3, <2>4, <2>5 DEF RunTypes
<1>7. AtStep'
  <2>1. session'.pc # "off" => session'.step = committed' + 1 /\ committed' < Steps - 1
    BY <1>1, <1>3, <1>4
  <2>2. \A n \in DOMAIN session'.pools : IsPool(session'.pools[n])
    BY <1>4 DEF AtStep
  <2>. QED
    BY <1>4, <2>1, <2>2 DEF AtStep
<1>8. OneFilter'
  BY <1>2, <1>4, OneFilterKept
<1>9. Reserved'
  <2>1. PartitionRefused("eval")' = PartitionRefused("eval")
    BY <1>1, SettingsStay
  <2>2. SUFFICES ASSUME split.count > 0 PROVE Reserved'
    BY <1>2, Zenon DEF Reserved
  <2>3. HoldsOut /\ Started
    BY <1>1, <2>2 DEF HoldsOut, Started
  <2>4. /\ Cardinality(session.fixed) = split.count
        /\ ~PartitionRefused("eval") /\ DOMAIN session.pools # {}
        /\ manifest = session.fixed
        /\ steady => /\ \A n \in DOMAIN session.pools : session.fixed = Held(n)
                     /\ session.eval = session.fixed
                     /\ \A i \in ToSet(session.batch) : Apart(i, session.fixed)
    BY <1>1, <2>2, <2>3 DEF Reserved, Holding
  <2>5. ASSUME Started' PROVE Holding'
    <3>1. session'.pc = "train" /\ session'.pools = session.pools /\ session'.fixed = session.fixed
      BY <1>4, <2>5 DEF Started
    <3>2. \A n : Held(n)' = Held(n)
      BY <1>1, <3>1, HeldStays
    <3>3. ToSet(session'.batch) = {}
      BY <1>4 DEF ToSet
    <3>. QED
      BY <1>1, <1>2, <2>1, <2>4, <3>1, <3>2, <3>3 DEF Holding
  <2>6. Holding'
    BY <2>5, Zenon DEF Holding
  <2>7. ASSUME steady
        PROVE  /\ \A e \in evaluated' : e = manifest /\ Cardinality(e) = split.count
               /\ \A i \in trained' : Apart(i, manifest)
    <3>1. /\ \A e \in evaluated : e = manifest /\ Cardinality(e) = split.count
          /\ \A i \in trained : Apart(i, manifest)
      BY <2>2, <2>7, Zenon DEF Reserved, Recorded
    <3>. QED
      BY <1>1, <2>3, <2>4, <2>7, <3>1
  <2>8. committed' # -1
    BY <1>1, <1>3
  <2>9. Recorded'
    BY <1>1, <1>2, <2>7, <2>8, Zenon DEF Recorded, Apart
  <2>. QED
    BY <2>6, <2>9, Zenon DEF Reserved
<1>10. Drawn'
  <2>1. PICK line : line = Line(DOMAIN drawn)
    OBVIOUS
  <2>2. Line(DOMAIN drawn)' = line
    <3>1. \A R : Line(R)' = Line(R)
      BY <1>1, SettingsStay
    <3>2. DOMAIN drawn' = DOMAIN drawn
      BY <1>1
    <3>. QED
      BY <2>1, <3>1, <3>2
  <2>3. PICK n \in Nat : n = committed + 1
    BY <1>3
  <2>4. PICK w \in 0..n : \A k \in 1..Len(line) :
           drawn[line[k]] = Visits(k - 1, n * BatchSize, Len(line))
                              - Visits(k - 1, w * BatchSize, Len(line))
    BY <2>1, <2>3 DEF Drawn
  <2>5. session.batch = TaskBatch(line, n, BatchSize) /\ line # <<>> /\ session.step = n
    BY <1>1, <1>3, <2>1, <2>3, Zenon DEF Drawn
  <2>6. /\ ListsOnce(line, DOMAIN drawn) /\ line \in Seq(DOMAIN drawn)
        /\ Len(line) \in Nat /\ Len(line) > 0
    <3>1. DOMAIN drawn \in SUBSET Rows
      BY DEF RunTypes
    <3>2. /\ ListsOnce(Line(DOMAIN drawn), DOMAIN drawn) /\ Len(Line(DOMAIN drawn)) \in Nat
          /\ Line(DOMAIN drawn) # <<>> => Len(Line(DOMAIN drawn)) > 0
      BY <3>1, LineLists
    <3>3. ListsOnce(line, DOMAIN drawn) => line \in Seq(DOMAIN drawn)
      BY DEF ListsOnce
    <3>. QED
      BY <2>1, <2>5, <3>2, <3>3, Zenon
  <2>7. ASSUME NEW k \in 1..Len(line)
        PROVE  drawn'[line[k]] = Visits(k - 1, (n + 1) * BatchSize, Len(line))
                                   - Visits(k - 1, w * BatchSize, Len(line))
    <3>1. line[k] \in DOMAIN drawn
      BY <2>6
    <3>2. drawn'[line[k]] = drawn[line[k]] + Occurrences(session.batch, line[k])
      BY <1>1, <3>1
    <3>3. Occurrences(session.batch, line[k])
            = Visits(k - 1, (n + 1) * BatchSize, Len(line))
                - Visits(k - 1, n * BatchSize, Len(line))
      BY <2>5, <2>6, BatchDraws, Bounds
    <3>4. /\ Visits(k - 1, (n + 1) * BatchSize, Len(line)) \in Nat
          /\ Visits(k - 1, n * BatchSize, Len(line)) \in Nat
          /\ Visits(k - 1, w * BatchSize, Len(line)) \in Nat
      <4>1. /\ (n + 1) * BatchSize \in Nat /\ n * BatchSize \in Nat /\ w * BatchSize \in Nat
            /\ k - 1 \in 0..(Len(line) - 1)
        BY <2>6, Bounds
      <4>. QED
        BY <2>6, <4>1, VisitStep
    <3>. QED
      BY <2>4, <3>2, <3>3, <3>4
  <2>8. committed' + 1 = n + 1 /\ w \in 0..(n + 1)
    BY <1>1, <2>5
  <2>9. session'.pc \notin {"eval", "commit", "pointer"}
    BY <1>4
  <2>. QED
    BY <2>2, <2>7, <2>8, <2>9, Zenon DEF Drawn
<1>. QED
  BY <1>6, <1>7, <1>8, <1>9, <1>10 DEF RunInv

\* No step of a session breaks the invariant, and none touches the cache or
\* the files of the preload jobs.
LEMMA SessionKeeps ==
  ASSUME IInv, Session
  PROVE  IInv'
<1>. DiskTypes /\ RunInv /\ SdpoTypes /\ OtherTypes /\ Pairs
  BY DEF IInv, Types, RunInv
<1>1. UNCHANGED <<settings, diskVars, sdpoVars, steady>>
  BY DEF Session, StartSession, NamePool, BuildPool, PoolUnavailable,
         ReserveFixedPool, RefuseFixedPool, CollectTrain, CollectEval,
         CollectRaises, WriteManifest, CommitStep, KillSession, EndSession
<1>2. stops' = stops \/ (stops < MaxStops /\ stops' = stops + 1)
  BY DEF Session, StartSession, NamePool, BuildPool, PoolUnavailable,
         ReserveFixedPool, RefuseFixedPool, CollectTrain, CollectEval,
         CollectRaises, WriteManifest, CommitStep, KillSession
<1>3. DiskTypes' /\ SdpoTypes' /\ Pairs'
  BY <1>1, DiskStays, SdpoStays
<1>4. split \in Splits
  BY DEF OtherTypes
<1>5. OtherTypes'
  BY <1>1, <1>2, Bounds DEF OtherTypes, settings
<1>6. RunInv'
  <2>1. CASE StartSession
    BY <1>4, <2>1, StartSessionKeeps
  <2>2. CASE NamePool
    BY <2>2, NamePoolKeeps
  <2>3. CASE BuildPool
    BY <2>3, BuildPoolKeeps
  <2>4. CASE EndSession
    BY <2>4, EndSessionKeeps
  <2>5. CASE ReserveFixedPool
    BY <1>4, <2>5, ReserveKeeps
  <2>6. CASE CollectTrain
    BY <1>4, <2>6, CollectTrainKeeps
  <2>7. CASE CollectEval
    BY <1>4, <2>7, CollectEvalKeeps
  <2>8. CASE CommitStep
    BY <1>4, <2>8, CommitKeeps
  <2>9. CASE WriteManifest
    BY <1>4, <2>9, WriteManifestKeeps
  <2>10. PoolUnavailable \/ RefuseFixedPool \/ CollectRaises \/ KillSession => EndSession
    BY Zenon DEF PoolUnavailable, RefuseFixedPool, CollectRaises, KillSession
  <2>. QED
    BY <2>1, <2>2, <2>3, <2>4, <2>5, <2>6, <2>7, <2>8, <2>9,
       <2>10 DEF Session
<1>. QED
  BY <1>3, <1>5, <1>6 DEF IInv, Types, RunInv

-----------------------------------------------------------------------------
(* The preload jobs                                                        *)

\* A job is a record of its four fields.
LEMMA JobShape ==
  ASSUME SdpoTypes, NEW p \in Preloaders
  PROVE  /\ DOMAIN job = Preloaders
         /\ job[p] = [pc |-> job[p].pc, key |-> job[p].key, train |-> job[p].train,
                      val |-> job[p].val]
<1>1. job = [q \in Preloaders |->
                [pc |-> job[q].pc, key |-> job[q].key, train |-> job[q].train,
                 val |-> job[q].val]]
  BY DEF SdpoTypes
<1>2. DOMAIN job = Preloaders
  BY <1>1
<1>. QED
  BY <1>1, <1>2

\* A job goes on to pc x.
LEMMA PcAssigned ==
  ASSUME SdpoTypes, NEW p \in Preloaders, NEW x
  PROVE  [job EXCEPT ![p].pc = x]
           = [job EXCEPT ![p] = [pc |-> x, key |-> job[p].key, train |-> job[p].train,
                                val |-> job[p].val]]
<1>1. PICK r : r = job[p]
  OBVIOUS
<1>2. p \in DOMAIN job /\ r = [pc |-> r.pc, key |-> r.key, train |-> r.train, val |-> r.val]
  BY <1>1, JobShape, Zenon
<1>3. PICK s : s = [r EXCEPT !.pc = x]
  OBVIOUS
<1>4. s = [pc |-> x, key |-> r.key, train |-> r.train, val |-> r.val]
  BY <1>2, <1>3, SMT
<1>5. [job EXCEPT ![p].pc = x] = [job EXCEPT ![p] = s]
  BY <1>1, <1>3, SMT
<1>. QED
  BY <1>1, <1>4, <1>5, Zenon

\* A job names its pair.
WithKey(p, y, x) == [job EXCEPT ![p].key = y, ![p].pc = x]

LEMMA KeyAssigned ==
  ASSUME SdpoTypes, NEW p \in Preloaders, NEW x, NEW y
  PROVE  WithKey(p, y, x)
           = [job EXCEPT ![p] = [pc |-> x, key |-> y, train |-> job[p].train,
                                val |-> job[p].val]]
<1>1. PICK r : r = job[p]
  OBVIOUS
<1>2. p \in DOMAIN job /\ r = [pc |-> r.pc, key |-> r.key, train |-> r.train, val |-> r.val]
  BY <1>1, JobShape, Zenon
<1>3. PICK u : u = [r EXCEPT !.key = y]
  OBVIOUS
<1>4. u = [pc |-> r.pc, key |-> y, train |-> r.train, val |-> r.val]
  BY <1>2, <1>3, SMT
<1>5. [u EXCEPT !.pc = x] = [pc |-> x, key |-> y, train |-> r.train, val |-> r.val]
  BY <1>4, SMT
<1>6. [job EXCEPT ![p].key = y, ![p].pc = x] = [job EXCEPT ![p] = [u EXCEPT !.pc = x]]
  <2>1. [job EXCEPT ![p].key = y] = [job EXCEPT ![p] = u]
    BY <1>1, <1>3, SMT
  <2>2. [job EXCEPT ![p].key = y, ![p].pc = x] = [[job EXCEPT ![p] = u] EXCEPT ![p].pc = x]
    BY <2>1, Zenon
  <2>3. [[job EXCEPT ![p] = u] EXCEPT ![p].pc = x] = [job EXCEPT ![p] = [u EXCEPT !.pc = x]]
    <3>1. PICK g : g = [job EXCEPT ![p] = u]
      OBVIOUS
    <3>2. PICK e : e = [u EXCEPT !.pc = x]
      OBVIOUS
    <3>3. DOMAIN g = DOMAIN job /\ g[p] = u /\ [g EXCEPT ![p] = e] = [job EXCEPT ![p] = e]
      BY <1>2, <3>1
    <3>4. e = [u EXCEPT !.pc = x]
      BY <3>2
    <3>5. [g EXCEPT ![p].pc = x] = [g EXCEPT ![p] = e]
      BY <3>3, <3>4, SMT
    <3>. QED
      BY <3>1, <3>2, <3>3, <3>5, Zenon
  <2>. QED
    BY <2>2, <2>3, Zenon
<1>. QED
  BY <1>1, <1>5, <1>6, Zenon DEF WithKey

\* A job has built its rows.
WithRows(p, x, y, z) == [job EXCEPT ![p].pc = x, ![p].train = y, ![p].val = z]

LEMMA RowsAssigned ==
  ASSUME SdpoTypes, NEW p \in Preloaders, NEW x, NEW y, NEW z
  PROVE  WithRows(p, x, y, z)
           = [job EXCEPT ![p] = [pc |-> x, key |-> job[p].key, train |-> y, val |-> z]]
<1>1. PICK r : r = job[p]
  OBVIOUS
<1>2. p \in DOMAIN job /\ r = [pc |-> r.pc, key |-> r.key, train |-> r.train, val |-> r.val]
  BY <1>1, JobShape, Zenon
<1>3. PICK s : s = [r EXCEPT !.pc = x]
  OBVIOUS
<1>4. s = [pc |-> x, key |-> r.key, train |-> r.train, val |-> r.val]
  BY <1>2, <1>3, SMT
<1>5. PICK t : t = [s EXCEPT !.train = y]
  OBVIOUS
<1>6. t = [pc |-> x, key |-> r.key, train |-> y, val |-> r.val]
  BY <1>4, <1>5, SMT
<1>7. [t EXCEPT !.val = z] = [pc |-> x, key |-> r.key, train |-> y, val |-> z]
  BY <1>6, SMT
<1>8. [job EXCEPT ![p].pc = x] = [job EXCEPT ![p] = s]
  BY <1>1, <1>3, SMT
<1>9. [job EXCEPT ![p].pc = x, ![p].train = y, ![p].val = z]
         = [job EXCEPT ![p] = [t EXCEPT !.val = z]]
  <2>1. [job EXCEPT ![p].pc = x, ![p].train = y, ![p].val = z]
          = [[[job EXCEPT ![p] = s] EXCEPT ![p].train = y] EXCEPT ![p].val = z]
    BY <1>8, Zenon
  <2>2. [[job EXCEPT ![p] = s] EXCEPT ![p].train = y] = [job EXCEPT ![p] = t]
    <3>1. PICK g : g = [job EXCEPT ![p] = s]
      OBVIOUS
    <3>2. PICK e : e = t
      OBVIOUS
    <3>3. DOMAIN g = DOMAIN job /\ g[p] = s /\ [g EXCEPT ![p] = e] = [job EXCEPT ![p] = e]
      BY <1>2, <3>1
    <3>4. e = [s EXCEPT !.train = y]
      BY <1>5, <3>2
    <3>5. [g EXCEPT ![p].train = y] = [g EXCEPT ![p] = e]
      BY <3>3, <3>4, SMT
    <3>. QED
      BY <3>1, <3>2, <3>3, <3>5, Zenon
  <2>3. [[job EXCEPT ![p] = t] EXCEPT ![p].val = z] = [job EXCEPT ![p] = [t EXCEPT !.val = z]]
    <3>1. PICK g : g = [job EXCEPT ![p] = t]
      OBVIOUS
    <3>2. PICK e : e = [t EXCEPT !.val = z]
      OBVIOUS
    <3>3. DOMAIN g = DOMAIN job /\ g[p] = t /\ [g EXCEPT ![p] = e] = [job EXCEPT ![p] = e]
      BY <1>2, <3>1
    <3>4. e = [t EXCEPT !.val = z]
      BY <3>2
    <3>5. [g EXCEPT ![p].val = z] = [g EXCEPT ![p] = e]
      BY <3>3, <3>4, SMT
    <3>. QED
      BY <3>1, <3>2, <3>3, <3>5, Zenon
  <2>. QED
    BY <2>1, <2>2, <2>3, Zenon
<1>. QED
  BY <1>1, <1>7, <1>9, Zenon DEF WithRows

\* A step of a job that makes J of it.
LEMMA JobUpdate ==
  ASSUME SdpoTypes, NEW p \in Preloaders,
         NEW place, NEW key, NEW train, NEW val,
         job' = [job EXCEPT ![p] = [pc |-> place, key |-> key, train |-> train, val |-> val]],
         place \in {"off", "build", "split", "train", "between", "val",
                 "served", "raised", "killed"},
         train \in Seq(Rows), val \in Seq(Rows),
         \A path \in DOMAIN parquet' : parquet'[path] = Torn \/ parquet'[path] \in Seq(Rows)
  PROVE  /\ SdpoTypes'
         /\ job'[p].pc = place /\ job'[p].key = key /\ job'[p].train = train /\ job'[p].val = val
         /\ \A q \in Preloaders : q # p => job'[q] = job[q]
<1>. DEFINE J == [pc |-> place, key |-> key, train |-> train, val |-> val]
<1>1. job = [q \in Preloaders |->
                [pc |-> job[q].pc, key |-> job[q].key, train |-> job[q].train,
                 val |-> job[q].val]]
  BY DEF SdpoTypes
<1>2. /\ J.pc = place /\ J.key = key /\ J.train = train /\ J.val = val
      /\ J = [pc |-> J.pc, key |-> J.key, train |-> J.train, val |-> J.val]
  OBVIOUS
<1>. HIDE DEF J
<1>3. /\ DOMAIN job' = Preloaders /\ job'[p] = J
      /\ \A q \in Preloaders : q # p => job'[q] = job[q]
      /\ job' = [q \in Preloaders |-> job'[q]]
  <2>1. DOMAIN job = Preloaders
    BY <1>1
  <2>2. job' = [q \in Preloaders |-> IF q = p THEN J ELSE job[q]]
    BY <1>1, <2>1 DEF J
  <2>. QED
    BY <2>2
<1>4. \A q \in Preloaders : job'[q] = [pc |-> job'[q].pc, key |-> job'[q].key,
                                       train |-> job'[q].train, val |-> job'[q].val]
  <2>1. \A q \in Preloaders : job[q] = [pc |-> job[q].pc, key |-> job[q].key,
                                        train |-> job[q].train, val |-> job[q].val]
    BY <1>1
  <2>2. ASSUME NEW q \in Preloaders
        PROVE  job'[q] = [pc |-> job'[q].pc, key |-> job'[q].key,
                          train |-> job'[q].train, val |-> job'[q].val]
    <3>1. CASE q = p
      BY <1>2, <1>3, <3>1
    <3>2. CASE q # p
      <4>1. job'[q] = job[q]
        BY <1>3, <3>2
      <4>. QED
        BY <2>1, <4>1
    <3>. QED
      BY <3>1, <3>2
  <2>. QED
    BY <2>2
<1>5. SdpoTypes'
  <2>1. job' = [q \in Preloaders |->
                  [pc |-> job'[q].pc, key |-> job'[q].key, train |-> job'[q].train,
                   val |-> job'[q].val]]
    BY <1>3, <1>4
  <2>2. \A q \in Preloaders :
           /\ job'[q].pc \in {"off", "build", "split", "train", "between", "val",
                              "served", "raised", "killed"}
           /\ job'[q].train \in Seq(Rows) /\ job'[q].val \in Seq(Rows)
    BY <1>2, <1>3 DEF SdpoTypes
  <2>. QED
    BY <2>1, <2>2 DEF SdpoTypes
<1>. QED
  BY <1>2, <1>3, <1>5

\* A job keeps what it has while others write and spoil.
LEMMA JobStays ==
  ASSUME NEW q, JobGood(q), UNCHANGED settings, job'[q] = job[q],
         spoiled \subseteq spoiled', DOMAIN parquet \subseteq DOMAIN parquet'
  PROVE  JobGood(q)'
<1>1. /\ \A f : RowsOf(f)' = RowsOf(f)
      /\ \A f, kind : Content(f, kind)' = Content(f, kind)
  BY SettingsStay
<1>2. \A key, kind : IsFile(key, kind) => IsFile(key, kind)'
  BY DEF IsFile
<1>. QED
  BY <1>1, <1>2 DEF JobGood

\* A file that is not written stays what it is, unless its last writer left.
LEMMA FileStays ==
  ASSUME NEW p, NEW path, FileGood(path), UNCHANGED settings,
         parquet'[path] = parquet[path], spoiled \subseteq spoiled',
         \A q \in Preloaders : q # p => job'[q] = job[q],
         \/ p \notin Writers(path[1], path[2])
         \/ Writers(path[1], path[2]) # {p}
         \/ path[1] \in spoiled'
  PROVE  FileGood(path)'
<1>1. /\ \A f : RowsOf(f)' = RowsOf(f)
      /\ \A f, kind : Content(f, kind)' = Content(f, kind)
  BY SettingsStay
<1>2. ASSUME path[1] \notin spoiled', Writers(path[1], path[2]) # {}
      PROVE  Writers(path[1], path[2])' # {}
  <2>1. PICK q \in Writers(path[1], path[2]) : q # p
    BY <1>2
  <2>2. q \in Writers(path[1], path[2])'
    BY <2>1 DEF Writers
  <2>. QED
    BY <2>2
<1>. QED
  BY <1>1, <1>2 DEF FileGood

\* Storing a file leaves the others alone.
LEMMA StoredFile ==
  ASSUME NEW key, NEW kind, NEW value, parquet' = Stored(parquet, <<key, kind>>, value)
  PROVE  /\ DOMAIN parquet' = DOMAIN parquet \cup {<<key, kind>>}
         /\ parquet'[<<key, kind>>] = value
         /\ \A path \in DOMAIN parquet : path # <<key, kind>> => parquet'[path] = parquet[path]
         /\ IsFile(key, kind)'
BY DEF Stored, IsFile

\* The two halves of the rows are rows, and together all of them.
LEMMA HalvesOfRows ==
  ASSUME NEW filter, SdpoRows(TaskPool(filter)) # <<>>,
         NEW s \in [count : Nat, percent : 0..99, minRows : Nat]
  PROVE  LET rows  == SdpoRows(TaskPool(filter))
             train == SdpoTrainRows(rows, s)
             val   == SdpoEvalRows(rows, s)
         IN  /\ train \in Seq(Rows) /\ val \in Seq(Rows)
             /\ ToSet(train) \cup ToSet(val) = ToSet(rows)
             /\ \/ ToSet(train) \cap ToSet(val) = {}
                \/ val = <<Head(train)>> /\ train = rows
<1>. DEFINE rows == SdpoRows(TaskPool(filter))
            S == {i \in PoolSet(filter) : ~Dataset[i].long}
            H == SdpoEval(rows, s)
<1>1. S \in SUBSET Rows /\ rows = Ascending(S)
  BY PoolList, SplitList
<1>2. S # {}
  BY <1>1, TaskList
<1>. HIDE DEF S, rows, H
<1>3. S \ H # {}
  BY <1>1, <1>2, HeldTasks DEF H
<1>4. S \ H \in SUBSET Rows /\ S \cap H \in SUBSET Rows
  BY <1>1
<1>5. /\ SdpoTrainRows(rows, s) = Ascending(S \ H)
      /\ Eval(rows, H) = Ascending(S \cap H)
  BY <1>1, SplitList DEF SdpoTrainRows, H
<1>. DEFINE train == Ascending(S \ H)
<1>6. /\ train \in Seq(Rows) /\ ToSet(train) = S \ H /\ train # <<>>
      /\ ToSet(rows) = S
      /\ Ascending(S \cap H) \in Seq(Rows) /\ ToSet(Ascending(S \cap H)) = S \cap H
  BY <1>1, <1>3, <1>4, TaskList
<1>7. CASE H = {}
  <2>1. SdpoEvalRows(rows, s) = <<Head(train)>>
    BY <1>5, <1>7 DEF SdpoEvalRows, H
  <2>2. train = rows
    <3>1. S \ H = S
      BY <1>7
    <3>. QED
      BY <1>1, <3>1
  <2>. HIDE DEF train
  <2>3. Head(train) = train[1] /\ train[1] \in Rows /\ 1 \in DOMAIN train
    BY <1>6
  <2>4. ToSet(<<Head(train)>>) = {Head(train)} /\ Head(train) \in ToSet(train)
    BY <2>3 DEF ToSet
  <2>5. <<Head(train)>> \in Seq(Rows)
    BY <2>3
  <2>6. ToSet(train) \cup ToSet(<<Head(train)>>) = ToSet(rows)
    BY <2>2, <2>4
  <2>7. SdpoTrainRows(rows, s) = train
    BY <1>5 DEF train
  <2>. QED
    BY <1>6, <2>1, <2>2, <2>5, <2>6, <2>7 DEF rows
<1>8. CASE H # {}
  <2>1. SdpoEvalRows(rows, s) = Ascending(S \cap H)
    BY <1>5, <1>8 DEF SdpoEvalRows, H
  <2>2. (S \ H) \cup (S \cap H) = S /\ (S \ H) \cap (S \cap H) = {}
    OBVIOUS
  <2>. QED
    BY <1>5, <1>6, <2>1, <2>2 DEF rows
<1>. QED
  BY <1>7, <1>8

\* The part of the invariant that is about the jobs and their files.
SdpoInv == SdpoTypes /\ Pairs

\* A job that has written nothing yet moves on; no file changes.
LEMMA QuietStepKeeps ==
  ASSUME SdpoInv, NEW p \in Preloaders, UNCHANGED <<settings, parquet>>,
         NEW place, NEW key, NEW train, NEW val,
         job' = [job EXCEPT ![p] = [pc |-> place, key |-> key, train |-> train, val |-> val]],
         place \in {"off", "build", "split", "train", "between", "val",
                 "served", "raised", "killed"},
         train \in Seq(Rows), val \in Seq(Rows),
         spoiled \subseteq spoiled',
         job[p].pc \in {"train", "val"} => job[p].key \in spoiled',
         SdpoTypes' => JobGood(p)'
  PROVE  SdpoInv'
<1>. SdpoTypes /\ Pairs
  BY DEF SdpoInv
<1>1. \A path \in DOMAIN parquet' : parquet'[path] = Torn \/ parquet'[path] \in Seq(Rows)
  BY DEF SdpoTypes
<1>2. /\ SdpoTypes' /\ \A q \in Preloaders : q # p => job'[q] = job[q]
  BY <1>1, JobUpdate
<1>3. \A q \in Preloaders : JobGood(q)'
  <2>1. ASSUME NEW q \in Preloaders, q # p PROVE JobGood(q)'
    <3>1. JobGood(q) /\ job'[q] = job[q] /\ DOMAIN parquet \subseteq DOMAIN parquet'
      BY <1>2, <2>1 DEF Pairs
    <3>. QED
      BY <3>1, JobStays
  <2>. QED
    BY <1>2, <2>1
<1>4. ASSUME NEW path \in DOMAIN parquet PROVE FileGood(path)'
  <2>1. FileGood(path) /\ parquet'[path] = parquet[path]
    BY DEF Pairs
  <2>2. p \notin Writers(path[1], path[2]) \/ path[1] \in spoiled'
    BY <2>1 DEF Writers, FileGood
  <2>. QED
    BY <1>2, <2>1, <2>2, FileStays
<1>. QED
  BY <1>2, <1>3, <1>4 DEF SdpoInv, Pairs

\* A job is named after the filter, and served when both files are there.
LEMMA NamePairKeeps ==
  ASSUME SdpoInv, NEW p \in Preloaders, NamePair(p)
  PROVE  SdpoInv'
<1>. SdpoTypes /\ Pairs
  BY DEF SdpoInv
<1>1. PICK forceRefresh \in BOOLEAN :
         job' = [job EXCEPT ![p].key = PairKey(Filter),
                            ![p].pc = IF PairIsThere(PairKey(Filter)) /\ ~forceRefresh
                                      THEN "served" ELSE "build"]
  BY DEF NamePair
<1>2. job[p].pc = "off" /\ UNCHANGED <<settings, parquet, spoiled>>
  BY DEF NamePair
<1>3. PICK key, place : /\ key = PairKey(Filter)
                     /\ place = IF PairIsThere(key) /\ ~forceRefresh THEN "served" ELSE "build"
  OBVIOUS
<1>4. job' = [job EXCEPT ![p] = [pc |-> place, key |-> key, train |-> job[p].train,
                                 val |-> job[p].val]]
  <2>1. job' = WithKey(p, key, place)
    BY <1>1, <1>3, Zenon DEF WithKey
  <2>. QED
    BY <2>1, KeyAssigned, Zenon
<1>5. job[p].train \in Seq(Rows) /\ job[p].val \in Seq(Rows)
  BY DEF SdpoTypes
<1>6. JobGood(p)'
  <2>1. job'[p].pc = place /\ job'[p].key = key
    BY <1>4 DEF SdpoTypes
  <2>2. place = "build" \/ (place = "served" /\ IsFile(key, "train") /\ IsFile(key, "val"))
    BY <1>3 DEF PairIsThere
  <2>3. \A kind : IsFile(key, kind)' = IsFile(key, kind)
    BY <1>2 DEF IsFile
  <2>. QED
    BY <2>1, <2>2, <2>3 DEF JobGood
<1>7. place \in {"off", "build", "split", "train", "between", "val",
              "served", "raised", "killed"}
  BY <1>3
<1>8. spoiled \subseteq spoiled' /\ job[p].pc \notin {"train", "val"}
  BY <1>2
<1>. QED
  BY <1>2, <1>4, <1>5, <1>6, <1>7, <1>8, QuietStepKeeps

\* A job that gives up.
LEMMA StopKeeps ==
  ASSUME SdpoInv, NEW p \in Preloaders, NEW place \in {"raised", "killed"},
         job' = [job EXCEPT ![p].pc = place], UNCHANGED <<settings, parquet>>,
         spoiled \subseteq spoiled',
         job[p].pc \in {"train", "val"} => job[p].key \in spoiled'
  PROVE  SdpoInv'
<1>. SdpoTypes /\ Pairs
  BY DEF SdpoInv
<1>1. job' = [job EXCEPT ![p] = [pc |-> place, key |-> job[p].key, train |-> job[p].train,
                                 val |-> job[p].val]]
  BY PcAssigned, Zenon
<1>2. job[p].train \in Seq(Rows) /\ job[p].val \in Seq(Rows)
  BY DEF SdpoTypes
<1>3. JobGood(p)'
  <2>1. job'[p].pc = place
    BY <1>1 DEF SdpoTypes
  <2>. QED
    BY <2>1 DEF JobGood
<1>4. place \in {"off", "build", "split", "train", "between", "val",
              "served", "raised", "killed"}
  OBVIOUS
<1>. QED
  BY <1>1, <1>2, <1>3, <1>4, QuietStepKeeps

\* The rows are built from the filter as it is read now: another than the one
\* in the name spoils the pair.
LEMMA BuildRowsKeeps ==
  ASSUME SdpoInv, split \in Splits, NEW p \in Preloaders, BuildRows(p)
  PROVE  SdpoInv'
<1>. SdpoTypes /\ Pairs
  BY DEF SdpoInv
<1>1. PICK filter : filter = Filter
  OBVIOUS
<1>2. PICK rows : rows = RowsOf(filter)
  OBVIOUS
<1>3. PICK train, val : train = SdpoTrainRows(rows, split) /\ val = SdpoEvalRows(rows, split)
  OBVIOUS
<1>4. /\ job[p].pc = "build" /\ rows # <<>>
      /\ job' = [job EXCEPT ![p].pc = "split", ![p].train = train, ![p].val = val]
      /\ spoiled' = IF filter = job[p].key THEN spoiled ELSE spoiled \cup {job[p].key}
      /\ UNCHANGED <<settings, parquet>>
  BY <1>1, <1>2, <1>3 DEF BuildRows, RowsOf, PairKey
<1>5. train \in Seq(Rows) /\ val \in Seq(Rows)
  BY <1>2, <1>3, <1>4, HalvesOfRows, Bounds DEF RowsOf
<1>6. job' = [job EXCEPT ![p] = [pc |-> "split", key |-> job[p].key, train |-> train,
                                 val |-> val]]
  <2>1. job' = WithRows(p, "split", train, val)
    BY <1>4, Zenon DEF WithRows
  <2>. QED
    BY <2>1, RowsAssigned, Zenon
<1>7. JobGood(p)'
  <2>1. /\ job'[p].pc = "split" /\ job'[p].key = job[p].key
        /\ job'[p].train = train /\ job'[p].val = val
    BY <1>6 DEF SdpoTypes
  <2>2. /\ \A f : RowsOf(f)' = RowsOf(f)
        /\ \A f, kind : Content(f, kind)' = Content(f, kind)
    BY <1>4, SettingsStay
  <2>3. ASSUME job[p].key \notin spoiled'
        PROVE  /\ RowsOf(job[p].key) # <<>>
               /\ train = Content(job[p].key, "train") /\ val = Content(job[p].key, "val")
    <3>1. filter = job[p].key
      BY <1>4, <2>3
    <3>. QED
      BY <1>2, <1>3, <1>4, <3>1 DEF Content
  <2>. QED
    BY <2>1, <2>2, <2>3 DEF JobGood
<1>8. spoiled \subseteq spoiled' /\ job[p].pc \notin {"train", "val"}
  BY <1>4
<1>. QED
  BY <1>4, <1>5, <1>6, <1>7, <1>8, QuietStepKeeps

\* A writer opens a file.
LEMMA OpenKeeps ==
  ASSUME SdpoInv, NEW p \in Preloaders, NEW kind \in {"train", "val"},
         job[p].pc = IF kind = "train" THEN "split" ELSE "between",
         OpenParquet(p, kind)
  PROVE  SdpoInv'
<1>. SdpoTypes /\ Pairs
  BY DEF SdpoInv
<1>1. PICK key, train, val : key = job[p].key /\ train = job[p].train /\ val = job[p].val
  OBVIOUS
<1>2. /\ job' = [job EXCEPT ![p].pc = kind]
      /\ parquet' = Stored(parquet, <<key, kind>>, Torn)
      /\ UNCHANGED <<settings, spoiled>>
  BY <1>1 DEF OpenParquet, PathOf
<1>3. job' = [job EXCEPT ![p] = [pc |-> kind, key |-> key, train |-> train, val |-> val]]
  BY <1>1, <1>2, PcAssigned, Zenon
<1>4. /\ DOMAIN parquet' = DOMAIN parquet \cup {<<key, kind>>}
      /\ parquet'[<<key, kind>>] = Torn
      /\ \A path \in DOMAIN parquet : path # <<key, kind>> => parquet'[path] = parquet[path]
      /\ IsFile(key, kind)'
  BY <1>2, StoredFile
<1>5. \A path \in DOMAIN parquet' : parquet'[path] = Torn \/ parquet'[path] \in Seq(Rows)
  BY <1>4 DEF SdpoTypes
<1>6. /\ SdpoTypes'
      /\ job'[p].pc = kind /\ job'[p].key = key /\ job'[p].train = train /\ job'[p].val = val
      /\ \A q \in Preloaders : q # p => job'[q] = job[q]
  <2>1. train \in Seq(Rows) /\ val \in Seq(Rows)
    BY <1>1 DEF SdpoTypes
  <2>2. kind \in {"off", "build", "split", "train", "between", "val",
                  "served", "raised", "killed"}
    OBVIOUS
  <2>. QED
    BY <1>3, <1>5, <2>1, <2>2, JobUpdate
<1>7. /\ \A f : RowsOf(f)' = RowsOf(f)
      /\ \A f, k : Content(f, k)' = Content(f, k)
  BY <1>2, SettingsStay
<1>8. JobGood(p)'
  <2>1. JobGood(p)
    BY DEF Pairs
  <2>2. kind = "val" => IsFile(key, "train")'
    <3>1. ASSUME kind = "val" PROVE IsFile(key, "train")
      BY <1>1, <2>1, <3>1 DEF JobGood
    <3>. QED
      BY <1>4, <3>1 DEF IsFile
  <2>3. job'[p].key \notin spoiled' =>
           /\ RowsOf(key) # <<>> /\ train = Content(key, "train") /\ val = Content(key, "val")
    BY <1>1, <1>2, <1>6, <2>1 DEF JobGood
  <2>. QED
    BY <1>4, <1>6, <1>7, <2>2, <2>3 DEF JobGood
<1>9. \A q \in Preloaders : JobGood(q)'
  <2>1. ASSUME NEW q \in Preloaders, q # p PROVE JobGood(q)'
    <3>1. /\ JobGood(q) /\ job'[q] = job[q] /\ DOMAIN parquet \subseteq DOMAIN parquet'
          /\ spoiled \subseteq spoiled'
      BY <1>2, <1>4, <1>6, <2>1 DEF Pairs
    <3>. QED
      BY <1>2, <3>1, JobStays
  <2>. QED
    BY <1>8, <2>1
<1>10. ASSUME NEW path \in DOMAIN parquet, path # <<key, kind>> PROVE FileGood(path)'
  <2>1. FileGood(path) /\ parquet'[path] = parquet[path] /\ spoiled \subseteq spoiled'
    BY <1>2, <1>4, <1>10 DEF Pairs
  <2>2. p \notin Writers(path[1], path[2])
    BY <2>1 DEF Writers, FileGood
  <2>. QED
    BY <1>2, <1>6, <2>1, <2>2, FileStays
<1>11. FileGood(<<key, kind>>)'
  <2>1. p \in Writers(key, kind)'
    BY <1>6 DEF Writers
  <2>2. key \notin spoiled' => RowsOf(key)' # <<>>
    <3>1. JobGood(p)
      BY DEF Pairs
    <3>. QED
      BY <1>1, <1>2, <1>7, <3>1 DEF JobGood
  <2>. QED
    BY <1>4, <2>1, <2>2 DEF FileGood
<1>. QED
  BY <1>4, <1>6, <1>9, <1>10, <1>11 DEF SdpoInv, Pairs

\* A writer closes its file: the last one leaves it whole.
LEMMA CloseKeeps ==
  ASSUME SdpoInv, NEW p \in Preloaders, NEW kind \in {"train", "val"},
         CloseParquet(p, kind, IF kind = "train" THEN job[p].train ELSE job[p].val,
                      IF kind = "train" THEN "between" ELSE "served")
  PROVE  SdpoInv'
<1>. SdpoTypes /\ Pairs
  BY DEF SdpoInv
<1>1. PICK key, train, val : key = job[p].key /\ train = job[p].train /\ val = job[p].val
  OBVIOUS
<1>2. PICK rows, next : /\ rows = IF kind = "train" THEN train ELSE val
                        /\ next = IF kind = "train" THEN "between" ELSE "served"
  OBVIOUS
<1>3. /\ job[p].pc = kind
      /\ job' = [job EXCEPT ![p].pc = next]
      /\ parquet' = IF Writers(key, kind) = {p}
                    THEN Stored(parquet, <<key, kind>>, rows) ELSE parquet
      /\ UNCHANGED <<settings, spoiled>>
  BY <1>1, <1>2 DEF CloseParquet, PathOf
<1>4. job' = [job EXCEPT ![p] = [pc |-> next, key |-> key, train |-> train, val |-> val]]
  BY <1>1, <1>3, PcAssigned, Zenon
<1>5. JobGood(p) /\ IsFile(key, kind) /\ <<key, kind>> \in DOMAIN parquet
  <2>1. JobGood(p)
    BY DEF Pairs
  <2>2. IsFile(key, kind)
    BY <1>1, <1>3, <2>1 DEF JobGood
  <2>. QED
    BY <2>1, <2>2 DEF IsFile
<1>6. train \in Seq(Rows) /\ val \in Seq(Rows) /\ rows \in Seq(Rows)
  BY <1>1, <1>2 DEF SdpoTypes
<1>7. /\ DOMAIN parquet' = DOMAIN parquet
      /\ \A path \in DOMAIN parquet : path # <<key, kind>> => parquet'[path] = parquet[path]
      /\ parquet'[<<key, kind>>] = IF Writers(key, kind) = {p} THEN rows
                                   ELSE parquet[<<key, kind>>]
  <2>1. CASE Writers(key, kind) = {p}
    <3>1. parquet' = Stored(parquet, <<key, kind>>, rows)
      BY <1>3, <2>1
    <3>. QED
      BY <1>5, <2>1, <3>1, StoredFile
  <2>2. CASE Writers(key, kind) # {p}
    BY <1>3, <2>2
  <2>. QED
    BY <2>1, <2>2
<1>8. \A path \in DOMAIN parquet' : parquet'[path] = Torn \/ parquet'[path] \in Seq(Rows)
  BY <1>6, <1>7 DEF SdpoTypes
<1>9. /\ SdpoTypes'
      /\ job'[p].pc = next /\ job'[p].key = key /\ job'[p].train = train /\ job'[p].val = val
      /\ \A q \in Preloaders : q # p => job'[q] = job[q]
  <2>1. next \in {"off", "build", "split", "train", "between", "val",
                  "served", "raised", "killed"}
    BY <1>2
  <2>. QED
    BY <1>4, <1>6, <1>8, <2>1, JobUpdate
<1>10. /\ \A f : RowsOf(f)' = RowsOf(f)
       /\ \A f, k : Content(f, k)' = Content(f, k)
       /\ \A k : IsFile(key, k)' = IsFile(key, k)
  <2>1. \A k : IsFile(key, k)' = IsFile(key, k)
    BY <1>7 DEF IsFile
  <2>. QED
    BY <1>3, <2>1, SettingsStay
<1>11. key \notin spoiled =>
          /\ RowsOf(key) # <<>> /\ train = Content(key, "train") /\ val = Content(key, "val")
          /\ rows = Content(key, kind)
  BY <1>1, <1>2, <1>3, <1>5 DEF JobGood
<1>12. JobGood(p)'
  <2>1. IsFile(key, "train") /\ (kind = "val" => IsFile(key, "val"))
    BY <1>1, <1>3, <1>5 DEF JobGood
  <2>. QED
    BY <1>2, <1>3, <1>9, <1>10, <1>11, <2>1 DEF JobGood
<1>13. \A q \in Preloaders : JobGood(q)'
  <2>1. ASSUME NEW q \in Preloaders, q # p PROVE JobGood(q)'
    <3>1. /\ JobGood(q) /\ job'[q] = job[q] /\ DOMAIN parquet \subseteq DOMAIN parquet'
          /\ spoiled \subseteq spoiled'
      BY <1>3, <1>7, <1>9, <2>1 DEF Pairs
    <3>. QED
      BY <1>3, <3>1, JobStays
  <2>. QED
    BY <1>12, <2>1
<1>14. ASSUME NEW path \in DOMAIN parquet,
              path # <<key, kind>> \/ Writers(key, kind) # {p}
       PROVE  FileGood(path)'
  <2>1. FileGood(path) /\ spoiled \subseteq spoiled'
    BY <1>3 DEF Pairs
  <2>2. parquet'[path] = parquet[path]
    BY <1>7, <1>14
  <2>3. p \notin Writers(path[1], path[2]) \/ Writers(path[1], path[2]) # {p}
    <3>1. CASE path = <<key, kind>>
      BY <1>14, <3>1
    <3>2. CASE path # <<key, kind>>
      <4>1. path[1] # key \/ path[2] # kind
        BY <2>1, <3>2 DEF FileGood
      <4>. QED
        BY <1>1, <1>3, <4>1 DEF Writers
    <3>. QED
      BY <3>1, <3>2
  <2>. QED
    BY <1>3, <1>9, <2>1, <2>2, <2>3, FileStays
<1>15. ASSUME Writers(key, kind) = {p} PROVE FileGood(<<key, kind>>)'
  BY <1>3, <1>7, <1>10, <1>11, <1>15 DEF FileGood
<1>. QED
  BY <1>7, <1>9, <1>13, <1>14, <1>15 DEF SdpoInv, Pairs

\* A write that fails leaves a file that is not whole, under a spoiled name.
LEMMA WriteFailsKeeps ==
  ASSUME SdpoInv, NEW p \in Preloaders, WriteFails(p)
  PROVE  SdpoInv'
<1>. SdpoTypes /\ Pairs
  BY DEF SdpoInv
<1>1. PICK key, kind, rows : /\ key = job[p].key /\ kind = job[p].pc
                             /\ rows = IF kind = "train" THEN job[p].train ELSE job[p].val
  OBVIOUS
<1>2. PICK groups \in 0..(Len(rows) - 1) :
         /\ groups * Chunk < Len(rows)
         /\ parquet' = Stored(parquet, <<key, kind>>, SubSeq(rows, 1, groups * Chunk))
  BY <1>1 DEF WriteFails, PathOf
<1>3. /\ kind \in {"train", "val"}
      /\ job' = [job EXCEPT ![p].pc = "raised"]
      /\ spoiled' = spoiled \cup {key}
      /\ UNCHANGED settings
  BY <1>1 DEF WriteFails
<1>4. rows \in Seq(Rows)
  BY <1>1 DEF SdpoTypes
<1>5. PICK written : written = SubSeq(rows, 1, groups * Chunk)
  OBVIOUS
<1>6. written \in Seq(Rows)
  <2>1. PICK n \in Nat : n = groups * Chunk
    BY <1>2, Bounds
  <2>2. n <= Len(rows) /\ Len(rows) \in Nat
    BY <1>2, <1>4, <2>1
  <2>3. SubSeq(rows, 1, n) \in Seq(Rows)
    BY <1>4, <2>1, <2>2
  <2>. QED
    BY <1>5, <2>1, <2>3
<1>7. /\ DOMAIN parquet' = DOMAIN parquet \cup {<<key, kind>>}
      /\ parquet'[<<key, kind>>] = written
      /\ \A path \in DOMAIN parquet : path # <<key, kind>> => parquet'[path] = parquet[path]
  <2>1. parquet' = Stored(parquet, <<key, kind>>, written)
    BY <1>2, <1>5, Zenon
  <2>. QED
    BY <2>1 DEF Stored
<1>8. \A path \in DOMAIN parquet' : parquet'[path] = Torn \/ parquet'[path] \in Seq(Rows)
  BY <1>6, <1>7 DEF SdpoTypes
<1>9. job' = [job EXCEPT ![p] = [pc |-> "raised", key |-> key, train |-> job[p].train,
                                 val |-> job[p].val]]
  BY <1>1, <1>3, PcAssigned, Zenon
<1>10. /\ SdpoTypes'
       /\ job'[p].pc = "raised"
       /\ \A q \in Preloaders : q # p => job'[q] = job[q]
  <2>1. job[p].train \in Seq(Rows) /\ job[p].val \in Seq(Rows)
    BY DEF SdpoTypes
  <2>. QED
    BY <1>8, <1>9, <2>1, JobUpdate
<1>11. \A q \in Preloaders : JobGood(q)'
  <2>1. ASSUME NEW q \in Preloaders, q # p PROVE JobGood(q)'
    <3>1. /\ JobGood(q) /\ job'[q] = job[q] /\ DOMAIN parquet \subseteq DOMAIN parquet'
          /\ spoiled \subseteq spoiled'
      BY <1>3, <1>7, <1>10, <2>1 DEF Pairs
    <3>. QED
      BY <1>3, <3>1, JobStays
  <2>2. JobGood(p)'
    BY <1>10 DEF JobGood
  <2>. QED
    BY <2>1, <2>2
<1>12. ASSUME NEW path \in DOMAIN parquet, path # <<key, kind>> PROVE FileGood(path)'
  <2>1. FileGood(path) /\ parquet'[path] = parquet[path] /\ spoiled \subseteq spoiled'
    BY <1>3, <1>7, <1>12 DEF Pairs
  <2>2. p \notin Writers(path[1], path[2])
    <3>1. path[1] # key \/ path[2] # kind
      BY <1>12, <2>1 DEF FileGood
    <3>. QED
      BY <1>1, <3>1 DEF Writers
  <2>. QED
    BY <1>3, <1>10, <2>1, <2>2, FileStays
<1>13. FileGood(<<key, kind>>)'
  BY <1>3 DEF FileGood
<1>. QED
  BY <1>7, <1>10, <1>11, <1>12, <1>13 DEF SdpoInv, Pairs

\* No step of a preload job breaks the invariant, and none touches the cache
\* or the session.
LEMMA PreloadKeeps ==
  ASSUME IInv, NEW p \in Preloaders, Preload(p)
  PROVE  IInv'
<1>. /\ DiskTypes /\ RunTypes /\ OtherTypes /\ AtStep /\ OneFilter /\ Reserved /\ Drawn
     /\ SdpoInv
  BY DEF IInv, Types, SdpoInv
<1>1. UNCHANGED <<settings, diskVars, runVars, steady>>
  BY DEF Preload, NamePair, PreloadRaises, BuildRows, WriteTrain, CloseTrain, WriteVal,
         CloseVal, OpenParquet, CloseParquet, WriteFails, KillPreload
<1>2. stops' = stops \/ (stops < MaxStops /\ stops' = stops + 1)
  BY DEF Preload, NamePair, PreloadRaises, BuildRows, WriteTrain, CloseTrain, WriteVal,
         CloseVal, OpenParquet, CloseParquet, WriteFails, KillPreload
<1>3. DiskTypes' /\ RunTypes' /\ AtStep' /\ Reserved' /\ Drawn'
  BY <1>1, DiskStays, RunStays
<1>4. OneFilter'
  BY <1>1, OneFilterStays DEF diskVars, runVars
<1>5. OtherTypes'
  BY <1>1, <1>2, Bounds DEF OtherTypes, settings
<1>6. split \in Splits
  BY DEF OtherTypes
<1>7. SdpoInv'
  <2>1. CASE NamePair(p)
    BY <2>1, NamePairKeeps
  <2>2. CASE PreloadRaises(p)
    BY <2>2, StopKeeps DEF PreloadRaises
  <2>3. CASE BuildRows(p)
    BY <1>6, <2>3, BuildRowsKeeps
  <2>4. CASE WriteTrain(p)
    BY <2>4, OpenKeeps DEF WriteTrain
  <2>5. CASE CloseTrain(p)
    BY <2>5, CloseKeeps DEF CloseTrain
  <2>6. CASE WriteVal(p)
    BY <2>6, OpenKeeps DEF WriteVal
  <2>7. CASE CloseVal(p)
    BY <2>7, CloseKeeps DEF CloseVal
  <2>8. CASE WriteFails(p)
    BY <2>8, WriteFailsKeeps
  <2>9. CASE KillPreload(p)
    BY <2>9, StopKeeps DEF KillPreload
  <2>. QED
    BY <2>1, <2>2, <2>3, <2>4, <2>5, <2>6, <2>7, <2>8, <2>9 DEF Preload
<1>. QED
  BY <1>3, <1>4, <1>5, <1>7 DEF IInv, Types, SdpoInv

-----------------------------------------------------------------------------
(* Theorems                                                                *)

\* The invariant that the properties rest on: whose filter the pools are of,
\* which tasks are reserved, where the draws stand, and what each parquet
\* file holds while the preflight, the session and the preload jobs run.
THEOREM DataInvariant == Spec => []IInv
<1>1. Init => IInv
  BY DataInit
<1>2. IInv /\ [Next]_vars => IInv'
  <2>. SUFFICES ASSUME IInv, [Next]_vars PROVE IInv'
    OBVIOUS
  <2>1. CASE Preflight
    BY <2>1, PreflightKeeps
  <2>2. CASE Session
    BY <2>2, SessionKeeps
  <2>3. ASSUME NEW p \in Preloaders, Preload(p) PROVE IInv'
    BY <2>3, PreloadKeeps
  <2>4. CASE UNCHANGED vars
    <3>. /\ DiskTypes /\ RunTypes /\ SdpoTypes /\ OtherTypes /\ AtStep /\ OneFilter
         /\ Reserved /\ Drawn /\ Pairs
      BY DEF IInv, Types
    <3>1. /\ UNCHANGED <<settings, diskVars, runVars, sdpoVars, stops, steady>>
          /\ UNCHANGED <<badFile, session, split>>
      BY <2>4 DEF vars, diskVars, runVars, settings
    <3>2. DiskTypes' /\ RunTypes' /\ AtStep' /\ Reserved' /\ Drawn' /\ SdpoTypes' /\ Pairs'
      BY <3>1, DiskStays, RunStays, SdpoStays
    <3>3. OneFilter' /\ OtherTypes'
      BY <3>1, OneFilterStays DEF OtherTypes
    <3>. QED
      BY <3>2, <3>3 DEF IInv, Types
  <2>. QED
    BY <2>1, <2>2, <2>3, <2>4 DEF Next
<1>. QED
  BY <1>1, <1>2, PTL DEF Spec

\* The bad-task cache is absent, torn or what a scan writes, a session holds
\* pools it named, and a parquet file is torn or a list of rows.
THEOREM DataTypeCorrect == Spec => []TypeOK
<1>1. IInv => TypeOK
  BY Zenon DEF IInv, Types, DiskTypes, RunTypes, SdpoTypes, OtherTypes, TypeOK
<1>. QED
  BY <1>1, DataInvariant, PTL

\* resolve_fixed_eval_task_ids_for_run: every committed step, before and
\* after any crash, was evaluated on the tasks of the manifest on disk, as
\* many as asked for, and none trained on a problem one of them states.
THEOREM HeldOutIsNeverTrainedOn == Spec => []HeldOutStaysHeldOut
<1>1. IInv => HeldOutStaysHeldOut
  <2>. SUFFICES ASSUME IInv, split.count > 0, steady, NEW e \in evaluated
                PROVE  /\ e = manifest /\ Cardinality(e) = split.count
                       /\ Identities(trained)
                            \cap Identities({i \in Rows : Dataset[i].id \in e}) = {}
    BY DEF HeldOutStaysHeldOut
  <2>1. /\ e = manifest /\ Cardinality(e) = split.count
        /\ \A i \in trained : Apart(i, manifest)
    BY Zenon DEF IInv, Reserved, Recorded
  <2>2. ASSUME NEW i \in trained, NEW j \in Rows, Dataset[j].id \in e
        PROVE  Dataset[i].identity # Dataset[j].identity
    BY <2>1, <2>2 DEF Apart
  <2>. QED
    BY <2>1, <2>2 DEF Identities
<1>. QED
  BY <1>1, DataInvariant, PTL

\* load_task_batch: steps that were committed since the pool last changed
\* drew its tasks equally often, give or take one, for every batch size.
THEOREM DrawsAreEven == Spec => []TasksAreDrawnEvenly
<1>1. IInv => TasksAreDrawnEvenly
  <2>. SUFFICES ASSUME IInv, NEW i \in DOMAIN drawn, NEW j \in DOMAIN drawn
                PROVE  drawn[i] - drawn[j] \in -1..1
    BY DEF TasksAreDrawnEvenly
  <2>1. PICK line : line = Line(DOMAIN drawn)
    OBVIOUS
  <2>2. PICK n \in Nat : n = committed + 1
    <3>1. committed \in -1..(Steps - 1)
      BY Zenon DEF IInv, Types, RunTypes
    <3>. QED
      BY <3>1, Bounds
  <2>3. PICK w \in 0..n : \A k \in 1..Len(line) :
           drawn[line[k]] = Visits(k - 1, n * BatchSize, Len(line))
                              - Visits(k - 1, w * BatchSize, Len(line))
    BY <2>1, <2>2 DEF IInv, Drawn
  <2>4. ListsOnce(line, DOMAIN drawn)
    <3>1. DOMAIN drawn \subseteq Rows
      BY Zenon DEF IInv, Types, RunTypes
    <3>2. ListsOnce(Line(DOMAIN drawn), DOMAIN drawn)
      BY <3>1, LineLists
    <3>. QED
      BY <2>1, <3>2, Zenon
  <2>5. PICK k \in 1..Len(line), l \in 1..Len(line) : line[k] = i /\ line[l] = j
    BY <2>4 DEF ListsOnce
  <2>6. /\ Len(line) \in Nat /\ Len(line) > 0
        /\ k - 1 \in 0..(Len(line) - 1) /\ l - 1 \in 0..(Len(line) - 1)
    <3>1. line \in Seq(DOMAIN drawn)
      BY <2>4 DEF ListsOnce
    <3>2. Len(line) \in Nat
      BY <3>1
    <3>. QED
      BY <3>2
  <2>7. PICK to \in Nat, from \in Nat : to = n * BatchSize /\ from = w * BatchSize
    <3>1. n * BatchSize \in Nat /\ w * BatchSize \in Nat
      BY Bounds
    <3>. QED
      BY <3>1
  <2>8. /\ drawn[i] = Visits(k - 1, to, Len(line)) - Visits(k - 1, from, Len(line))
        /\ drawn[j] = Visits(l - 1, to, Len(line)) - Visits(l - 1, from, Len(line))
    BY <2>3, <2>5, <2>7
  <2>. QED
    BY <2>6, <2>8, VisitsEven
<1>. QED
  BY <1>1, DataInvariant, PTL

\* preload_sdpo_task_rows_split_to_parquet: a served pair is there; when no
\* writer of it was stopped and it was built from the filter in its name, it
\* is whole and splits the rows of that filter.
THEOREM ServedPairsSplitTheRows == Spec => []ServedPairIsTheSplit
<1>1. IInv => TypeOK
  BY Zenon DEF IInv, Types, DiskTypes, RunTypes, SdpoTypes, OtherTypes, TypeOK
<1>2. ASSUME IInv, NEW p \in Preloaders, job[p].pc = "served"
      PROVE  LET key  == job[p].key
                 rows == SdpoRows(TaskPool(key))
             IN  /\ IsFile(key, "train") /\ IsFile(key, "val")
                 /\ (Writers(key, "train") \cup Writers(key, "val") = {}
                       /\ key \notin spoiled) =>
                     LET train == parquet[<<key, "train">>]
                         val   == parquet[<<key, "val">>]
                     IN  /\ train # Torn /\ val # Torn
                         /\ ToSet(train) \cup ToSet(val) = ToSet(rows)
                         /\ \/ ToSet(train) \cap ToSet(val) = {}
                            \/ val = <<Head(train)>> /\ train = rows
  <2>1. PICK key : key = job[p].key
    OBVIOUS
  <2>2. IsFile(key, "train") /\ IsFile(key, "val")
    BY <1>2, <2>1 DEF IInv, Pairs, JobGood
  <2>3. ASSUME Writers(key, "train") \cup Writers(key, "val") = {}, key \notin spoiled,
               NEW kind \in {"train", "val"}
        PROVE  /\ RowsOf(key) # <<>> /\ parquet[<<key, kind>>] = Content(key, kind)
    <3>1. FileGood(<<key, kind>>)
      BY <1>2, <2>2 DEF IInv, Pairs, IsFile
    <3>2. Writers(key, kind) = {}
      BY <2>3
    <3>. QED
      BY <2>3, <3>1, <3>2 DEF FileGood
  <2>4. split \in [count : Nat, percent : 0..99, minRows : Nat]
    BY <1>2, Bounds DEF IInv, Types, OtherTypes
  <2>5. ASSUME Writers(key, "train") \cup Writers(key, "val") = {}, key \notin spoiled
        PROVE  LET rows == SdpoRows(TaskPool(key))
                   train == parquet[<<key, "train">>]
                   val   == parquet[<<key, "val">>]
               IN  /\ train # Torn /\ val # Torn
                   /\ ToSet(train) \cup ToSet(val) = ToSet(rows)
                   /\ \/ ToSet(train) \cap ToSet(val) = {}
                      \/ val = <<Head(train)>> /\ train = rows
    <3>1. /\ RowsOf(key) # <<>>
          /\ parquet[<<key, "train">>] = SdpoTrainRows(RowsOf(key), split)
          /\ parquet[<<key, "val">>] = SdpoEvalRows(RowsOf(key), split)
      BY <2>3, <2>5 DEF Content
    <3>2. /\ parquet[<<key, "train">>] \in Seq(Rows) /\ parquet[<<key, "val">>] \in Seq(Rows)
          /\ ToSet(parquet[<<key, "train">>]) \cup ToSet(parquet[<<key, "val">>])
               = ToSet(RowsOf(key))
          /\ \/ ToSet(parquet[<<key, "train">>]) \cap ToSet(parquet[<<key, "val">>]) = {}
             \/ /\ parquet[<<key, "val">>] = <<Head(parquet[<<key, "train">>])>>
                /\ parquet[<<key, "train">>] = RowsOf(key)
      <4>1. PICK rows, train, val : /\ rows = RowsOf(key)
                                    /\ train = SdpoTrainRows(rows, split)
                                    /\ val = SdpoEvalRows(rows, split)
        OBVIOUS
      <4>2. /\ train \in Seq(Rows) /\ val \in Seq(Rows)
            /\ ToSet(train) \cup ToSet(val) = ToSet(rows)
            /\ \/ ToSet(train) \cap ToSet(val) = {}
               \/ val = <<Head(train)>> /\ train = rows
        BY <2>4, <3>1, <4>1, HalvesOfRows DEF RowsOf
      <4>. QED
        BY <3>1, <4>1, <4>2, Zenon
    <3>. QED
      BY <3>2, Bounds, Zenon DEF RowsOf
  <2>. QED
    BY <2>1, <2>2, <2>5
<1>3. IInv => ServedPairIsTheSplit
  BY <1>1, <1>2, Zenon DEF ServedPairIsTheSplit
<1>. QED
  BY <1>3, DataInvariant, PTL


-----------------------------------------------------------------------------
(* The inductive invariant of the difficulty probe                         *)

\* Where a run appends to the records file, or is about to.
ProbePc == {"open", "wait", "take", "append", "progress", "save"}
\* Where a process has no future.
CalmPc  == StoppedPc \cup {"drop_progress", "drop_records", "open", "save",
                           "clean_progress", "clean_records"}

HasLine(t) == \E i \in DOMAIN records.lines : records.lines[i].task = t
LinesOf(c) == \A i \in DOMAIN records.lines : records.lines[i].config = c

\* The files: records of one metadata and one a task as long as the progress
\* file names that metadata; a cache of one metadata.
FilesInv ==
    /\ CacheIsOfItsConfig
    /\ progress.config # NoConfig => LinesOf(progress.config)
    /\ \A i, j \in DOMAIN records.lines :
          records.lines[i].task = records.lines[j].task => i = j
    /\ progress.config # NoConfig => progress.count <= Len(records.lines)

\* A run knows what the file has, all of it of its own metadata.
KnownInv ==
    /\ pc \in ProbePc =>
          /\ LinesOf(config)
          /\ progress.config \in {NoConfig, config}
          /\ \A t \in Tasks : /\ known[t] \in {NoConfig, config}
                              /\ known[t] # NoConfig <=> HasLine(t)
    /\ pc \in {"drop_records", "clean_records"} => progress.config = NoConfig
    /\ pc \in RunPc => config # NoConfig

\* A task is known, at work, being recorded or still to do, and only one.
WorkInv ==
    /\ pc \in CalmPc => Pending = {} /\ batch = {}
    /\ pc \in ProbePc => \A t \in Tasks : t \in todo \/ t \in Pending => known[t] = NoConfig
    /\ todo \cap Pending = {}
    /\ \A t \in batch : future[t] \in {"ok", "failed"}
    /\ pc = "append" => /\ current \in Tasks /\ known[current] = NoConfig
                        /\ current \notin todo /\ current \notin Pending

ProbeInv == ProbeTypeOK /\ FilesInv /\ KnownInv /\ WorkInv

\* Tasks are numbers, and finitely many.
LEMMA TaskFacts ==
  /\ Tasks \subseteq Nat
  /\ 0 \notin Tasks
  /\ NoConfig \notin Configs
  /\ IsFiniteSet(Tasks)
  /\ Cardinality(Tasks) = TaskCount
  /\ TaskCount \in Nat
<1>1. TaskCount \in Nat /\ TaskCount > 0
  BY ProbeAssumption
<1>2. IsFiniteSet(1 .. TaskCount) /\ Cardinality(1 .. TaskCount) = TaskCount
  BY <1>1, FS_Interval
<1>. QED
  BY <1>1, <1>2, ConfigAssumption DEF Tasks

\* The count of the records known is in the range of the progress file.
LEMMA KnownCountType == KnownCount \in 0 .. TaskCount
<1>1. {t \in Tasks : known[t] # NoConfig} \in SUBSET Tasks
  OBVIOUS
<1>. QED
  BY <1>1, TaskFacts, FS_Subset, FS_CardinalityType DEF KnownCount

\* A loaded record is the line of its task.
LEMMA LoadedAreLines ==
  ASSUME ProbeTypeOK, NEW t \in Tasks
  PROVE  /\ LoadedRecords[t] \in Configs \cup {NoConfig}
         /\ LoadedRecords[t] # NoConfig <=> HasLine(t)
         /\ \A c : LinesOf(c) => LoadedRecords[t] \in {NoConfig, c}
<1>. DEFINE line == CHOOSE i \in DOMAIN records.lines : records.lines[i].task = t
<1>1. CASE HasLine(t)
  <2>1. line \in DOMAIN records.lines /\ records.lines[line].task = t
    BY <1>1 DEF HasLine
  <2>2. LoadedRecords[t] = records.lines[line].config
    BY <1>1 DEF LoadedRecords, HasLine
  <2>3. records.lines[line] \in Record
    BY <2>1 DEF ProbeTypeOK
  <2>4. records.lines[line].config \in Configs
    BY <2>3 DEF Record
  <2>. HIDE DEF line
  <2>. QED
    BY <1>1, <2>1, <2>2, <2>4, ConfigAssumption DEF LinesOf
<1>2. CASE ~HasLine(t)
  BY <1>2 DEF LoadedRecords, HasLine
<1>. QED
  BY <1>1, <1>2

\* The records loaded are a value of known, the tasks without one of todo.
LEMMA LoadedType ==
  ASSUME ProbeTypeOK
  PROVE  LoadedRecords \in [Tasks -> Configs \cup {NoConfig}] /\ Remaining \subseteq Tasks
<1>1. \A t \in Tasks : LoadedRecords[t] \in Configs \cup {NoConfig}
  BY LoadedAreLines
<1>2. DOMAIN LoadedRecords = Tasks /\ LoadedRecords = [t \in Tasks |-> LoadedRecords[t]]
  BY DEF LoadedRecords
<1>. HIDE DEF LoadedRecords
<1>. QED
  BY <1>1, <1>2 DEF Remaining

\* A file that has a line for each known task counts them all.
LEMMA KnownAreCounted ==
  ASSUME ProbeTypeOK, \A t \in Tasks : known[t] # NoConfig => HasLine(t)
  PROVE  KnownCount <= Len(records.lines)
<1>. DEFINE Known  == {t \in Tasks : known[t] # NoConfig}
            lineOf == [t \in Known |-> CHOOSE i \in DOMAIN records.lines :
                                          records.lines[i].task = t]
            n      == Len(records.lines)
<1>1. n \in Nat /\ DOMAIN records.lines = 1 .. n
  BY DEF ProbeTypeOK
<1>2. ASSUME NEW t \in Known
      PROVE  lineOf[t] \in 1 .. n /\ records.lines[lineOf[t]].task = t
  BY <1>1, <1>2 DEF HasLine
<1>. HIDE DEF n
<1>3. lineOf \in Injection(Known, 1 .. n)
  <2>1. lineOf \in [Known -> 1 .. n]
    BY <1>2
  <2>. HIDE DEF lineOf, Known
  <2>2. \A s, t \in Known : lineOf[s] = lineOf[t] => s = t
    <3>1. TAKE s, t \in Known
    <3>2. records.lines[lineOf[s]].task = s /\ records.lines[lineOf[t]].task = t
      BY <1>2
    <3>. QED
      BY <3>2
  <2>3. DOMAIN lineOf = Known
    BY <2>1
  <2>. QED
    BY <2>1, <2>2, <2>3 DEF Injection, IsInjective
<1>4. IsFiniteSet(1 .. n) /\ Cardinality(1 .. n) = n
  BY <1>1, FS_Interval
<1>5. Cardinality(Known) <= Cardinality(1 .. n)
  BY <1>3, <1>4, FS_Injection
<1>. QED
  BY <1>4, <1>5 DEF KnownCount, n

\* A record that is appended is the last line, all others stay.
LEMMA AppendedLines ==
  ASSUME ProbeTypeOK, config # NoConfig, NEW t \in Tasks
  PROVE  LET lines == AppendedRecords(t).lines
             n     == Len(records.lines)
         IN  /\ lines \in Seq(Record) /\ n \in Nat
             /\ Len(lines) = n + 1 /\ DOMAIN records.lines = 1 .. n
             /\ DOMAIN lines = 1 .. n + 1
             /\ lines[n + 1] = [task |-> t, config |-> config]
             /\ \A i \in 1 .. n : lines[i] = records.lines[i]
<1>1. [task |-> t, config |-> config] \in Record
  BY DEF Record, ProbeTypeOK
<1>2. records.lines \in Seq(Record)
  BY DEF ProbeTypeOK
<1>. QED
  BY <1>1, <1>2 DEF AppendedRecords

\* A record appended for a task that has none leaves one record a task.
LEMMA GrownFile ==
  ASSUME ProbeTypeOK, FilesInv, KnownInv, WorkInv, pc = "append",
         records'.lines = AppendedRecords(current).lines
  PROVE  /\ \A i, j \in DOMAIN records'.lines :
                records'.lines[i].task = records'.lines[j].task => i = j
         /\ \A i \in DOMAIN records'.lines : records'.lines[i].config = config
         /\ progress.config # NoConfig => progress.count <= Len(records'.lines)
         /\ \A t \in Tasks :
               (\E i \in DOMAIN records'.lines : records'.lines[i].task = t)
                 <=> t = current \/ HasLine(t)
<1>. DEFINE n == Len(records.lines)
<1>1. current \in Tasks /\ config # NoConfig /\ LinesOf(config) /\ ~HasLine(current)
  BY DEF WorkInv, KnownInv, RunPc, ProbePc
<1>2. /\ n \in Nat /\ DOMAIN records.lines = 1 .. n
      /\ Len(records'.lines) = n + 1 /\ DOMAIN records'.lines = 1 .. n + 1
      /\ records'.lines[n + 1] = [task |-> current, config |-> config]
      /\ \A i \in 1 .. n : records'.lines[i] = records.lines[i]
  BY <1>1, AppendedLines
<1>3. progress.config # NoConfig => progress.count \in Int /\ progress.count <= n
  BY DEF FilesInv, ProbeTypeOK
<1>. HIDE DEF n
<1>4. \A i \in 1 .. n : records'.lines[i].task # current
  BY <1>1, <1>2 DEF HasLine
<1>5. \A i, j \in 1 .. n + 1 : records'.lines[i].task = records'.lines[j].task => i = j
  <2>1. TAKE i, j \in 1 .. n + 1
  <2>2. CASE i = n + 1 \/ j = n + 1
    <3>1. records'.lines[n + 1].task = current
      BY <1>2
    <3>2. i # n + 1 => i \in 1 .. n
      BY <1>2
    <3>3. j # n + 1 => j \in 1 .. n
      BY <1>2
    <3>. QED
      BY <1>4, <2>2, <3>1, <3>2, <3>3
  <2>3. CASE i \in 1 .. n /\ j \in 1 .. n
    BY <1>2, <2>3 DEF FilesInv
  <2>. QED
    BY <1>2, <2>2, <2>3
<1>6. \A i \in 1 .. n + 1 : records'.lines[i].config = config
  <2>1. TAKE i \in 1 .. n + 1
  <2>2. i = n + 1 \/ i \in 1 .. n
    BY <1>2
  <2>3. CASE i = n + 1
    BY <1>2, <2>3
  <2>4. CASE i \in 1 .. n
    BY <1>1, <1>2, <2>4 DEF LinesOf
  <2>. QED
    BY <2>2, <2>3, <2>4
<1>7. \A t \in Tasks : (\E i \in 1 .. n + 1 : records'.lines[i].task = t)
                         <=> t = current \/ HasLine(t)
  <2>1. TAKE t \in Tasks
  <2>2. ASSUME NEW i \in 1 .. n + 1, records'.lines[i].task = t
        PROVE  t = current \/ HasLine(t)
    <3>1. i = n + 1 \/ i \in 1 .. n
      BY <1>2
    <3>. QED
      BY <1>2, <2>2, <3>1 DEF HasLine
  <2>3. ASSUME HasLine(t) PROVE \E i \in 1 .. n + 1 : records'.lines[i].task = t
    <3>1. PICK i \in 1 .. n : records.lines[i].task = t
      BY <1>2, <2>3 DEF HasLine
    <3>2. i \in 1 .. n + 1
      BY <1>2
    <3>. QED
      BY <1>2, <3>1, <3>2
  <2>4. n + 1 \in 1 .. n + 1 /\ records'.lines[n + 1].task = current
    BY <1>2
  <2>. QED
    BY <2>2, <2>3, <2>4
<1>. QED
  <2>1. DOMAIN records'.lines = 1 .. n + 1
    BY <1>2
  <2>2. progress.config # NoConfig => progress.count <= Len(records'.lines)
    BY <1>2, <1>3
  <2>. QED
    BY <1>5, <1>6, <1>7, <2>1, <2>2

-----------------------------------------------------------------------------
(* Every step preserves it                                                 *)

\* Types.
LEMMA TypeNext ==
  ASSUME ProbeTypeOK, KnownInv, WorkInv, [ProbeNext]_probeVars
  PROVE  ProbeTypeOK'
<1>. USE TaskFacts
         DEF ProbeTypeOK, KnownInv, WorkInv, StoppedPc, RunPc, Empty, NoFuture,
             NoFile, Record, disk, pool
<1>1. ASSUME NEW c \in Configs, Start(c) \/ ForceRefresh(c) PROVE ProbeTypeOK'
  <2>1. CASE Serve(c)
    BY <2>1 DEF Serve
  <2>2. CASE RefuseResume(c)
    BY <2>2 DEF RefuseResume
  <2>3. CASE Resume(c)
    BY <2>3, LoadedType DEF Resume
  <2>4. CASE StartFresh(c)
    BY <2>4 DEF StartFresh
  <2>5. CASE ForceRefresh(c)
    BY <2>5 DEF ForceRefresh
  <2>. QED
    BY <1>1, <2>1, <2>2, <2>3, <2>4, <2>5 DEF Start
<1>2. CASE MainStep
  <2>1. CASE DropProgress
    BY <2>1 DEF DropProgress
  <2>2. CASE DropRecords
    BY <2>2 DEF DropRecords
  <2>3. CASE Open
    BY <2>3, KnownCountType DEF Open
  <2>4. CASE Wait
    BY <2>4 DEF Wait
  <2>5. CASE Take
    BY <2>5 DEF Take
  <2>6. CASE TakeFailed
    BY <2>6 DEF TakeFailed, Forget
  <2>7. CASE AppendRecord
    BY <2>7 DEF AppendRecord, AppendedRecords
  <2>8. CASE WriteProgress
    BY <2>8, KnownCountType DEF WriteProgress
  <2>9. CASE Save
    <3>1. CASE \A t \in Tasks : known[t] # NoConfig
      <4>1. /\ pc = "save" /\ pc' = "clean_progress"
            /\ cache' = [config |-> config, made |-> known]
            /\ UNCHANGED <<progress, records, config, known, todo, future, batch, current>>
        BY <2>9, <3>1 DEF Save, pool
      <4>. QED
        BY <4>1
    <3>2. CASE ~\A t \in Tasks : known[t] # NoConfig
      BY <2>9, <3>2 DEF Save, Forget
    <3>. QED
      BY <3>1, <3>2
  <2>10. CASE CleanProgress
    BY <2>10 DEF CleanProgress
  <2>11. CASE CleanRecords
    BY <2>11 DEF CleanRecords, Forget
  <2>. QED
    BY <1>2, <2>1, <2>2, <2>3, <2>4, <2>5, <2>6, <2>7, <2>8, <2>9, <2>10, <2>11 DEF MainStep
<1>3. ASSUME NEW t \in Tasks, WorkerStarts(t) \/ WorkerEnds(t) \/ WorkerFails(t)
      PROVE  ProbeTypeOK'
  <2>1. CASE WorkerStarts(t)
    BY <2>1 DEF WorkerStarts
  <2>2. CASE WorkerEnds(t)
    BY <2>2 DEF WorkerEnds
  <2>3. CASE WorkerFails(t)
    BY <2>3 DEF WorkerFails
  <2>. QED
    BY <1>3, <2>1, <2>2, <2>3
<1>4. CASE Crash
  BY <1>4 DEF Crash, Forget
<1>5. CASE CrashInAppend
  <2>1. current \in Tasks /\ config # NoConfig /\ pc' = "idle"
    BY <1>5 DEF CrashInAppend
  <2>2. AppendedRecords(current).lines \in Seq(Record)
    BY <2>1, AppendedLines
  <2>3. /\ AppendedRecords(current) =
              [exists |-> TRUE, lines |-> AppendedRecords(current).lines,
               tail |-> AppendedRecords(current).tail]
        /\ AppendedRecords(current).tail \in {"clean", "open", "garbled"}
    BY DEF AppendedRecords
  <2>4. records' \in [exists : BOOLEAN, lines : Seq(Record),
                      tail : {"clean", "open", "garbled"}]
    <3>1. CASE records' = [records EXCEPT !.exists = TRUE]
      BY <3>1
    <3>2. CASE records' = [records EXCEPT !.exists = TRUE, !.tail = "garbled"]
      BY <3>2
    <3>3. CASE records' = [AppendedRecords(current) EXCEPT
                             !.tail = IF @ = "garbled" THEN "garbled" ELSE "open"]
      <4>1. records' = [exists |-> TRUE, lines |-> AppendedRecords(current).lines,
                        tail |-> IF AppendedRecords(current).tail = "garbled"
                                 THEN "garbled" ELSE "open"]
        BY <3>3 DEF AppendedRecords
      <4>. QED
        BY <2>2, <4>1
    <3>. QED
      BY <1>5, <3>1, <3>2, <3>3 DEF CrashInAppend
  <2>. QED
    BY <1>5, <2>4 DEF CrashInAppend, Forget
<1>6. CASE UNCHANGED probeVars
  BY <1>6 DEF probeVars
<1>. QED
  BY <1>1, <1>2, <1>3, <1>4, <1>5, <1>6 DEF ProbeNext, Fault

\* The files.
LEMMA FilesNext ==
  ASSUME ProbeTypeOK, FilesInv, KnownInv, WorkInv, [ProbeNext]_probeVars
  PROVE  FilesInv'
<1>. USE TaskFacts
         DEF FilesInv, CacheIsOfItsConfig, KnownInv, WorkInv, LinesOf,
             HasLine, StoppedPc, RunPc, ProbePc, CalmPc, Empty, NoFuture,
             disk, pool
<1>1. ASSUME NEW c \in Configs, Start(c) \/ ForceRefresh(c) PROVE FilesInv'
  <2>1. CASE Serve(c)
    BY <2>1 DEF Serve
  <2>2. CASE RefuseResume(c)
    BY <2>2 DEF RefuseResume
  <2>3. CASE Resume(c)
    BY <2>3 DEF Resume
  <2>4. CASE StartFresh(c)
    BY <2>4 DEF StartFresh
  <2>5. CASE ForceRefresh(c)
    BY <2>5 DEF ForceRefresh
  <2>. QED
    BY <1>1, <2>1, <2>2, <2>3, <2>4, <2>5 DEF Start
<1>2. CASE MainStep
  <2>1. CASE DropProgress
    BY <2>1 DEF DropProgress
  <2>2. CASE DropRecords
    BY <2>2 DEF DropRecords, NoFile
  <2>3. CASE Open
    BY <2>3, KnownAreCounted DEF Open
  <2>4. CASE Wait
    BY <2>4 DEF Wait
  <2>5. CASE Take
    BY <2>5 DEF Take
  <2>6. CASE TakeFailed
    BY <2>6 DEF TakeFailed, Forget
  <2>7. CASE AppendRecord
    <3>1. /\ pc = "append" /\ records'.lines = AppendedRecords(current).lines
          /\ UNCHANGED <<cache, progress>>
      BY <2>7 DEF AppendRecord
    <3>. QED
      BY <3>1, GrownFile
  <2>8. CASE WriteProgress
    BY <2>8, KnownAreCounted DEF WriteProgress
  <2>9. CASE Save
    BY <2>9 DEF Save, Forget
  <2>10. CASE CleanProgress
    BY <2>10 DEF CleanProgress
  <2>11. CASE CleanRecords
    BY <2>11 DEF CleanRecords, Forget, NoFile
  <2>. QED
    BY <1>2, <2>1, <2>2, <2>3, <2>4, <2>5, <2>6, <2>7, <2>8, <2>9, <2>10, <2>11 DEF MainStep
<1>3. ASSUME NEW t \in Tasks, WorkerStarts(t) \/ WorkerEnds(t) \/ WorkerFails(t)
      PROVE  FilesInv'
  BY <1>3 DEF WorkerStarts, WorkerEnds, WorkerFails
<1>4. CASE Crash
  BY <1>4 DEF Crash, Forget
<1>5. CASE CrashInAppend
  <2>1. pc = "append" /\ UNCHANGED <<cache, progress>>
    BY <1>5 DEF CrashInAppend
  <2>2. \/ records'.lines = records.lines
        \/ records'.lines = AppendedRecords(current).lines
    <3>1. CASE records' = [records EXCEPT !.exists = TRUE]
      BY <3>1 DEF ProbeTypeOK
    <3>2. CASE records' = [records EXCEPT !.exists = TRUE, !.tail = "garbled"]
      BY <3>2 DEF ProbeTypeOK
    <3>3. CASE records' = [AppendedRecords(current) EXCEPT
                             !.tail = IF @ = "garbled" THEN "garbled" ELSE "open"]
      BY <3>3 DEF AppendedRecords
    <3>. QED
      BY <1>5, <3>1, <3>2, <3>3 DEF CrashInAppend
  <2>3. CASE records'.lines = records.lines
    BY <2>1, <2>3
  <2>4. CASE records'.lines = AppendedRecords(current).lines
    BY <2>1, <2>4, GrownFile
  <2>. QED
    BY <2>2, <2>3, <2>4
<1>6. CASE UNCHANGED probeVars
  BY <1>6 DEF probeVars
<1>. QED
  BY <1>1, <1>2, <1>3, <1>4, <1>5, <1>6 DEF ProbeNext, Fault

\* What the process knows.
LEMMA KnownNext ==
  ASSUME ProbeTypeOK, FilesInv, KnownInv, WorkInv, [ProbeNext]_probeVars
  PROVE  KnownInv'
<1>. USE TaskFacts
         DEF FilesInv, KnownInv, WorkInv, LinesOf, HasLine, StoppedPc,
             RunPc, ProbePc, CalmPc, Empty, NoFuture, disk, pool
<1>1. ASSUME NEW c \in Configs, Start(c) \/ ForceRefresh(c) PROVE KnownInv'
  <2>1. CASE Serve(c)
    BY <2>1 DEF Serve
  <2>2. CASE RefuseResume(c)
    BY <2>2 DEF RefuseResume
  <2>3. CASE Resume(c)
    BY <2>3, LoadedAreLines DEF Resume
  <2>4. CASE StartFresh(c)
    BY <2>4 DEF StartFresh
  <2>5. CASE ForceRefresh(c)
    BY <2>5 DEF ForceRefresh
  <2>. QED
    BY <1>1, <2>1, <2>2, <2>3, <2>4, <2>5 DEF Start
<1>2. CASE MainStep
  <2>1. CASE DropProgress
    BY <2>1 DEF DropProgress
  <2>2. CASE DropRecords
    BY <2>2 DEF DropRecords, NoFile
  <2>3. CASE Open
    BY <2>3 DEF Open
  <2>4. CASE Wait
    BY <2>4 DEF Wait
  <2>5. CASE Take
    BY <2>5 DEF Take
  <2>6. CASE TakeFailed
    BY <2>6 DEF TakeFailed, Forget
  <2>7. CASE AppendRecord
    <3>1. /\ pc = "append" /\ records'.lines = AppendedRecords(current).lines
          /\ UNCHANGED <<cache, progress, config>> /\ pc' = "progress"
          /\ known' = [known EXCEPT ![current] = config]
      BY <2>7 DEF AppendRecord
    <3>2. known \in [Tasks -> Configs \cup {NoConfig}]
      BY DEF ProbeTypeOK
    <3>. QED
      BY <3>1, <3>2, GrownFile
  <2>8. CASE WriteProgress
    BY <2>8 DEF WriteProgress
  <2>9. CASE Save
    BY <2>9 DEF Save, Forget
  <2>10. CASE CleanProgress
    BY <2>10 DEF CleanProgress
  <2>11. CASE CleanRecords
    BY <2>11 DEF CleanRecords, Forget
  <2>. QED
    BY <1>2, <2>1, <2>2, <2>3, <2>4, <2>5, <2>6, <2>7, <2>8, <2>9, <2>10, <2>11 DEF MainStep
<1>3. ASSUME NEW t \in Tasks, WorkerStarts(t) \/ WorkerEnds(t) \/ WorkerFails(t)
      PROVE  KnownInv'
  BY <1>3 DEF WorkerStarts, WorkerEnds, WorkerFails
<1>4. CASE Crash
  BY <1>4 DEF Crash, Forget
<1>5. CASE CrashInAppend
  BY <1>5 DEF CrashInAppend, Forget
<1>6. CASE UNCHANGED probeVars
  BY <1>6 DEF probeVars
<1>. QED
  BY <1>1, <1>2, <1>3, <1>4, <1>5, <1>6 DEF ProbeNext, Fault

\* Who works on what.
LEMMA WorkNext ==
  ASSUME ProbeTypeOK, KnownInv, WorkInv, [ProbeNext]_probeVars
  PROVE  WorkInv'
<1>. USE TaskFacts
         DEF ProbeTypeOK, KnownInv, WorkInv, Pending, StoppedPc, RunPc, ProbePc,
             CalmPc, Empty, NoFuture, disk, pool
<1>1. ASSUME NEW c \in Configs, Start(c) \/ ForceRefresh(c) PROVE WorkInv'
  <2>1. CASE Serve(c)
    BY <2>1 DEF Serve
  <2>2. CASE RefuseResume(c)
    BY <2>2 DEF RefuseResume
  <2>3. CASE Resume(c)
    BY <2>3, LoadedAreLines DEF Resume, Remaining
  <2>4. CASE StartFresh(c)
    BY <2>4 DEF StartFresh
  <2>5. CASE ForceRefresh(c)
    BY <2>5 DEF ForceRefresh
  <2>. QED
    BY <1>1, <2>1, <2>2, <2>3, <2>4, <2>5 DEF Start
<1>2. CASE MainStep
  <2>1. CASE DropProgress
    BY <2>1 DEF DropProgress
  <2>2. CASE DropRecords
    BY <2>2 DEF DropRecords
  <2>3. CASE Open
    BY <2>3 DEF Open, Refill
  <2>4. CASE Wait
    BY <2>4 DEF Wait
  <2>5. CASE Take
    BY <2>5 DEF Take
  <2>6. CASE TakeFailed
    BY <2>6 DEF TakeFailed, Forget
  <2>7. CASE AppendRecord
    BY <2>7 DEF AppendRecord
  <2>8. CASE WriteProgress
    BY <2>8 DEF WriteProgress, Refill
  <2>9. CASE Save
    <3>1. CASE \A t \in Tasks : known[t] # NoConfig
      <4>1. /\ pc = "save" /\ pc' = "clean_progress"
            /\ cache' = [config |-> config, made |-> known]
            /\ UNCHANGED <<progress, records, config, known, todo, future, batch, current>>
        BY <2>9, <3>1 DEF Save, pool
      <4>. QED
        BY <4>1
    <3>2. CASE ~\A t \in Tasks : known[t] # NoConfig
      BY <2>9, <3>2, SMTT(30) DEF Save, Forget
    <3>. QED
      BY <3>1, <3>2
  <2>10. CASE CleanProgress
    BY <2>10 DEF CleanProgress
  <2>11. CASE CleanRecords
    BY <2>11 DEF CleanRecords, Forget
  <2>. QED
    BY <1>2, <2>1, <2>2, <2>3, <2>4, <2>5, <2>6, <2>7, <2>8, <2>9, <2>10, <2>11 DEF MainStep
<1>3. ASSUME NEW t \in Tasks, WorkerStarts(t) \/ WorkerEnds(t) \/ WorkerFails(t)
      PROVE  WorkInv'
  <2>1. CASE WorkerStarts(t)
    BY <2>1 DEF WorkerStarts
  <2>2. CASE WorkerEnds(t)
    BY <2>2 DEF WorkerEnds
  <2>3. CASE WorkerFails(t)
    BY <2>3 DEF WorkerFails
  <2>. QED
    BY <1>3, <2>1, <2>2, <2>3
<1>4. CASE Crash
  BY <1>4 DEF Crash, Forget
<1>5. CASE CrashInAppend
  BY <1>5 DEF CrashInAppend, Forget
<1>6. CASE UNCHANGED probeVars
  BY <1>6 DEF probeVars
<1>. QED
  BY <1>1, <1>2, <1>3, <1>4, <1>5, <1>6 DEF ProbeNext, Fault

-----------------------------------------------------------------------------
\* The initial state satisfies it.
LEMMA ProbeInitial == ProbeInit => ProbeInv
<1>. USE TaskFacts, ProbeAssumption
         DEF ProbeInit, Empty, NoFuture, NoFile, StoppedPc, RunPc, ProbePc, CalmPc
<1>1. ProbeInit => ProbeTypeOK
  BY DEF ProbeTypeOK, Record
<1>2. ProbeInit => FilesInv /\ KnownInv
  BY DEF FilesInv, CacheIsOfItsConfig, KnownInv
<1>3. ProbeInit => WorkInv
  BY DEF WorkInv, Pending
<1>. QED
  BY <1>1, <1>2, <1>3 DEF ProbeInv

-----------------------------------------------------------------------------
(* The theorems                                                            *)

\* The invariant of the probe, types included.
THEOREM ProbeInvariant == ProbeSpec => []ProbeInv
<1>1. ProbeInit => ProbeInv
  BY ProbeInitial
<1>2. ProbeInv /\ [ProbeNext]_probeVars => ProbeInv'
  BY TypeNext, FilesNext, KnownNext, WorkNext DEF ProbeInv
<1>. QED
  BY <1>1, <1>2, PTL DEF ProbeSpec

\* preload_onpolicy_difficulty_bands.py: every band of a cache file was probed
\* under the metadata the file states, whichever runs shared its side files
\* and wherever they were aborted.
THEOREM CacheIsTrue == ProbeSpec => []CacheIsOfItsConfig
<1>1. ProbeInv => CacheIsOfItsConfig
  BY DEF ProbeInv, FilesInv
<1>. QED
  BY <1>1, ProbeInvariant, PTL

\* Lines that no two tasks share are at most one a task.
LEMMA OneLine ==
  ASSUME ProbeTypeOK, FilesInv, NEW t \in Tasks
  PROVE  Cardinality({i \in DOMAIN records.lines : records.lines[i].task = t}) <= 1
<1>. DEFINE lines == {i \in DOMAIN records.lines : records.lines[i].task = t}
<1>1. \A i, j \in lines : i = j
  BY DEF FilesInv
<1>. HIDE DEF lines
<1>2. CASE lines = {}
  BY <1>2, FS_EmptySet DEF lines
<1>3. CASE lines # {}
  <2>1. PICK i : i \in lines
    BY <1>3
  <2>2. lines = {i}
    BY <1>1, <2>1
  <2>3. Cardinality({i}) = 1
    BY FS_Singleton, Zenon
  <2>4. Cardinality(lines) = 1
    BY <2>2, <2>3
  <2>. QED
    BY <2>4 DEF lines
<1>. QED
  BY <1>2, <1>3

\* _append_partial_record: a task with a line in the records file is never
\* probed or appended again, and the progress file counts no line too many.
THEOREM RecordedAtMostOnce == ProbeSpec => []RecordedOnce
<1>1. ProbeInv => RecordedOnce
  <2>. SUFFICES ASSUME ProbeInv PROVE RecordedOnce
    OBVIOUS
  <2>1. ProbeTypeOK /\ FilesInv /\ KnownInv /\ WorkInv
    BY DEF ProbeInv
  <2>2. progress.config # NoConfig => progress.count <= Len(records.lines)
    BY <2>1 DEF FilesInv
  <2>3. ASSUME NEW t \in Tasks, t \in Pending \/ (pc = "append" /\ t = current)
        PROVE  ~HasLine(t)
    <3>1. pc \in ProbePc
      BY <2>1, <2>3 DEF WorkInv, CalmPc, ProbePc, ProbeTypeOK, RunPc, StoppedPc
    <3>2. known[t] = NoConfig
      BY <2>1, <2>3, <3>1 DEF WorkInv
    <3>. QED
      BY <2>1, <3>1, <3>2 DEF KnownInv
  <2>4. \A t \in Tasks : t \in Pending \/ (pc = "append" /\ t = current) =>
           {i \in DOMAIN records.lines : records.lines[i].task = t} = {}
    BY <2>3 DEF HasLine
  <2>. QED
    BY <2>1, <2>2, <2>4, OneLine DEF RecordedOnce
<1>. QED
  BY <1>1, ProbeInvariant, PTL
=============================================================================
