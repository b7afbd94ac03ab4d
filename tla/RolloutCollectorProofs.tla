----------------------- MODULE RolloutCollectorProofs -----------------------
(***************************************************************************)
(* Proofs about one step of the collector, for every number of tasks,      *)
(* attempts and turns, any docker failures, and every number of docker     *)
(* commands their clients gave up on.                                      *)
(***************************************************************************)
EXTENDS RolloutCollector, RowSelectionProofs, FiniteSetTheorems, SequenceTheorems, TLAPS

-----------------------------------------------------------------------------
(* Type correctness *)

\* An attempt that is not over is one of those asked for; the tries of the
\* patch and the tasks in the batch are counted up to their number.
Counts ==
    /\ \A t \in Tasks : pc[t] \notin Ended => attempt[t] < Attempts
    /\ \A t \in Tasks : pc[t] = "init" => draft[t].inits < InitTries
    /\ main = "waiting" => position < TaskCount

TypeInv == TypeOK /\ Counts

\* There are finitely many tasks, and they are numbered from one.
LEMMA TasksNumbered ==
    /\ TaskCount \in Nat /\ TaskCount > 0
    /\ Tasks = 1..TaskCount
    /\ \A t \in Tasks : t - 1 \in Nat
<1>1. TaskCount \in Nat
      BY CollectorAssumption, FS_CardinalityType DEF TaskCount
<1>2. Tasks = 1..TaskCount
      BY CollectorAssumption DEF TaskCount
<1>3. TaskCount > 0
      BY <1>1, <1>2, CollectorAssumption
<1> QED BY <1>1, <1>2, <1>3

\* The sizes are positive numbers.
LEMMA Sizes ==
    /\ Attempts \in Nat /\ Attempts > 0 /\ MaxTurns \in Nat /\ MaxTurns > 0
    /\ BatchSize \in Nat /\ StepIndex \in Nat
BY CollectorAssumption

\* A row is made of what the draft holds.
LEMMA RowOfType ==
    ASSUME TypeOK, NEW t \in Tasks
    PROVE  RowOf(t) \in Row
<1>1. attempt[t] \in Nat /\ draft[t] \in Draft
      BY Sizes DEF TypeOK
<1>2. RowStepIndex(StepIndex, t - 1, attempt[t], BatchSize, Attempts) \in Nat
  <2>1. t - 1 \in Nat
        BY TasksNumbered
  <2>2. /\ StepIndex * BatchSize \in Nat /\ StepIndex * BatchSize * Attempts \in Nat
        /\ (t - 1) * Attempts \in Nat
        BY <2>1, Sizes
  <2> QED BY <1>1, <2>2 DEF RowStepIndex
<1> QED BY <1>1, <1>2 DEF RowOf, Row, Draft

\* The container of the current try.
LEMMA ContainerType ==
    ASSUME PoolTypeOK, NEW t \in Tasks, NEW end \in {"ok", "error", "timeout"}
    PROVE  Container(t, end) \in Containers /\ Container(t, end) # NoContainer
<1>1. /\ start[t].attempt \in Nat /\ start[t].name \in Nat
      /\ start[t].try \in Nat
      BY DEF PoolTypeOK, StartTries
<1>2. Container(t, end).end # NoContainer.end
      BY DEF Container, NoContainer
<1> QED BY <1>1, <1>2 DEF Container, Containers

\* The next try keeps the types, and changes one pool only.
LEMMA NextTryType ==
    ASSUME PoolTypeOK, NEW t \in Tasks, NEW name \in Nat, NextTry(t, name)
    PROVE  /\ phase' \in [Tasks -> Phases]
           /\ start' \in [Tasks -> [attempt : Nat, try : 0..(StartTries - 1),
                                   name : Nat, sawTimeout : BOOLEAN]]
           /\ phase'[t] \in {"starting", "failed"}
           /\ \A u \in Tasks : u # t => phase'[u] = phase[u]
BY DEF PoolTypeOK, NextTry, StartTries, Phases

\* A removal leaves containers.
LEMMA RemoveType ==
    ASSUME PoolTypeOK, NEW t, NEW ref, Remove(t, ref)
    PROVE  up' \subseteq Containers /\ dying' \subseteq Containers
BY DEF PoolTypeOK, Remove

\* A step of one pool, or of the daemon, keeps the pool's types.
LEMMA PoolTypes ==
    ASSUME PoolTypeOK,
           \/ \E t \in Tasks : \/ \E a \in Nat : Acquire(t, a)
                               \/ RunStarts(t) \/ RunFails(t) \/ RunTimesOut(t)
                               \/ RunRaises(t) \/ ClearName(t) \/ RunConflicts(t)
                               \/ ReleaseAll(t)
           \/ Daemon
           \/ UNCHANGED poolVars
    PROVE  PoolTypeOK'
<1>1. ASSUME NEW t \in Tasks, NEW a \in Nat, Acquire(t, a) PROVE PoolTypeOK'
      BY <1>1 DEF Acquire, PoolTypeOK, Phases, FreshStart, StartTries
<1>2. ASSUME NEW t \in Tasks, RunStarts(t) PROVE PoolTypeOK'
      BY <1>2, ContainerType DEF RunStarts, PoolTypeOK, Phases
<1>3. ASSUME NEW t \in Tasks, RunFails(t) PROVE PoolTypeOK'
      BY <1>3, ContainerType DEF RunFails, MayComeLate, PoolTypeOK, Phases
<1>4. ASSUME NEW t \in Tasks, RunTimesOut(t) PROVE PoolTypeOK'
      BY <1>4, ContainerType DEF RunTimesOut, MayComeLate, PoolTypeOK, Phases
<1>5. ASSUME NEW t \in Tasks, RunRaises(t) PROVE PoolTypeOK'
      BY <1>5 DEF RunRaises, PoolTypeOK, Phases
<1>6. ASSUME NEW t \in Tasks, ClearName(t) PROVE PoolTypeOK'
  <2>1. start[t].name \in Nat
        BY DEF PoolTypeOK
  <2>2. NextTry(t, start[t].name) /\ Remove(t, UnderName(t)) /\ phase[t] # "held"
        BY <1>6 DEF ClearName
  <2> QED BY <1>6, <2>1, <2>2, NextTryType, RemoveType DEF ClearName, PoolTypeOK
<1>7. ASSUME NEW t \in Tasks, RunConflicts(t) PROVE PoolTypeOK'
  <2>1. NextName(start[t]) \in Nat
        BY DEF PoolTypeOK, NextName
  <2>2. NextTry(t, NextName(start[t])) /\ Remove(t, UnderName(t)) /\ phase[t] # "held"
        BY <1>7 DEF RunConflicts
  <2> QED BY <1>7, <2>1, <2>2, NextTryType, RemoveType DEF RunConflicts, PoolTypeOK
<1>8. ASSUME NEW t \in Tasks, ReleaseAll(t) PROVE PoolTypeOK'
  <2>1. up' \subseteq Containers /\ dying' \subseteq Containers
        BY <1>8, RemoveType DEF ReleaseAll
  <2> QED BY <1>8, <2>1 DEF ReleaseAll, PoolTypeOK, Phases
<1>9. CASE Daemon
      BY <1>9 DEF Daemon, CreatesLate, DropsLate, RemovesLate, PoolTypeOK
<1>10. CASE UNCHANGED poolVars
      BY <1>10 DEF poolVars, PoolTypeOK
<1> QED BY <1>1, <1>2, <1>3, <1>4, <1>5, <1>6, <1>7, <1>8, <1>9, <1>10

\* Every worker step takes a step of the task's pool, or none.
LEMMA WorkerPool ==
    ASSUME TypeOK, NEW t \in Tasks, Worker(t)
    PROVE  PoolTypeOK'
<1>1. PoolTypeOK /\ attempt[t] \in Nat
      BY Sizes DEF TypeOK
<1>2. CASE AttemptStarts(t)
      BY <1>1, <1>2, PoolTypes DEF AttemptStarts
<1>3. CASE ContainerStarts(t)
      BY <1>1, <1>3, PoolTypes DEF ContainerStarts
<1>4. CASE StartGoesWrong(t)
      BY <1>1, <1>4, PoolTypes DEF StartGoesWrong
<1>5. CASE AcquireRaised(t) \/ EndAttempt(t)
      BY <1>1, <1>5, PoolTypes DEF AcquireRaised, EndAttempt
<1>6. CASE UNCHANGED poolVars
      BY <1>1, <1>6, PoolTypes
<1> QED BY <1>2, <1>3, <1>4, <1>5, <1>6 DEF Worker, TaskStarts, PatchApplies,
        PatchFails, TurnTaken, Submits, NoMoreTurns, BridgeRaises, Verify

\* What the steps of an attempt do to pc, draft and the tree.
LEMMA TurnTypes ==
    ASSUME TypeInv, NEW t \in Tasks, NEW d \in Draft,
           Continue(t, d) \/ Break(t, d), pc[t] = "turn"
    PROVE  /\ draft' \in [Tasks -> Draft]
           /\ pc' \in [Tasks -> {"queued", "acquire", "start", "init", "turn",
                                 "verify", "row", "over", "raised"}]
           /\ pc'[t] \in {"turn", "verify", "row"}
           /\ \A u \in Tasks : u # t => pc'[u] = pc[u] /\ draft'[u] = draft[u]
<1>1. /\ [d EXCEPT !.errors = @ \cup {"ended"}] \in Draft
      /\ d.turn + 1 < MaxTurns => [d EXCEPT !.turn = @ + 1] \in Draft
  <2>1. d.turn \in 0..(MaxTurns - 1) /\ d.errors \subseteq ErrorKinds
        BY DEF Draft
  <2>2. d.errors \cup {"ended"} \subseteq ErrorKinds
        BY <2>1 DEF ErrorKinds
  <2>3. d.turn + 1 < MaxTurns => d.turn + 1 \in 0..(MaxTurns - 1)
        BY <2>1, Sizes
  <2> QED BY <2>2, <2>3 DEF Draft
<1>2. AfterTurns \in {"verify", "row"}
      BY DEF AfterTurns
<1>3. draft \in [Tasks -> Draft]
      BY DEF TypeInv, TypeOK
<1>4. pc \in [Tasks -> {"queued", "acquire", "start", "init", "turn",
                        "verify", "row", "over", "raised"}]
      BY DEF TypeInv, TypeOK
<1> QED BY <1>1, <1>2, <1>3, <1>4 DEF Continue, Break, Goto

\* An attempt begins with a draft.
LEMMA FreshDraftType == FreshDraft \in Draft
BY Sizes DEF FreshDraft, Draft, InitTries, Answers, ErrorKinds, Verdicts

\* A turn with tool calls leaves a draft.
LEMMA WithStepsType ==
    ASSUME NEW d \in Draft, NEW turn
    PROVE  WithSteps(d, turn) \in Draft
BY ZenonT(40) DEF WithSteps, Draft, Answers, ErrorKinds

\* Every step of a worker keeps the types and the counts.
LEMMA WorkerTypes ==
    ASSUME TypeInv, NEW t \in Tasks, Worker(t)
    PROVE  TypeInv'
<1>1. PoolTypeOK'
      BY WorkerPool DEF TypeInv
<1>2. /\ UNCHANGED stage /\ UNCHANGED mainVars
      BY DEF Worker, TaskStarts, AttemptStarts, ContainerStarts, StartGoesWrong,
             AcquireRaised, PatchApplies, PatchFails, TurnTaken, Submits,
             NoMoreTurns, BridgeRaises, Verify, EndAttempt
<1>3. draft[t] \in Draft /\ attempt[t] \in 0..Attempts
      BY DEF TypeInv, TypeOK
<1> USE DEF TypeInv, TypeOK, Counts, workVars, mainVars, Ended, Goto
<1>4. CASE TaskStarts(t)
      BY <1>1, <1>2, <1>4 DEF TaskStarts
<1>5. CASE AttemptStarts(t)
      BY <1>1, <1>2, <1>5 DEF AttemptStarts
<1>6. CASE ContainerStarts(t)
  <2>1. FreshDraft \in Draft /\ FreshDraft.inits < InitTries
        BY FreshDraftType DEF FreshDraft, InitTries
  <2> QED BY <1>1, <1>2, <1>6, <2>1 DEF ContainerStarts
<1>7. CASE StartGoesWrong(t)
      BY <1>1, <1>2, <1>7 DEF StartGoesWrong
<1>8. CASE AcquireRaised(t)
      BY <1>1, <1>2, <1>8 DEF AcquireRaised
<1>9. CASE PatchApplies(t)
      BY <1>1, <1>2, <1>9 DEF PatchApplies
<1>10. CASE PatchFails(t)
  <2>1. draft[t].inits \in 0..InitTries /\ draft[t].inits + 1 \in 0..InitTries
    <3>1. draft[t].inits \in 0..InitTries
          BY <1>3 DEF Draft
    <3>2. draft[t].inits < InitTries
          BY <1>10 DEF PatchFails
    <3> QED BY <3>1, <3>2 DEF InitTries
  <2>2. [draft[t] EXCEPT !.inits = @ + 1] \in Draft
        BY <1>3, <2>1 DEF Draft
  <2>3. [draft[t] EXCEPT !.inits = @ + 1, !.initialized = FALSE,
                         !.infraInvalid = TRUE, !.errors = {"executor"}] \in Draft
        BY <1>3, <2>1 DEF Draft, ErrorKinds
  <2>4. /\ draft' \in [Tasks -> Draft]
        /\ pc'[t] = "init" => draft'[t].inits < InitTries
    <3>1. CASE draft[t].inits + 1 < InitTries
      <4>1. draft' = [draft EXCEPT ![t].inits = @ + 1]
            BY <1>10, <3>1 DEF PatchFails
      <4>2. draft'[t] = [draft[t] EXCEPT !.inits = @ + 1]
            BY <4>1
      <4>3. draft'[t].inits = draft[t].inits + 1
            BY <1>3, <4>2 DEF Draft
      <4> QED BY <2>2, <3>1, <4>1, <4>2, <4>3
    <3>2. CASE ~(draft[t].inits + 1 < InitTries)
          BY <1>10, <2>3, <3>2, ZenonT(40) DEF PatchFails
    <3> QED BY <3>1, <3>2
  <2>5. patched' \in [Tasks -> BOOLEAN]
        BY <1>10 DEF PatchFails
  <2>6. /\ pc' \in [Tasks -> {"queued", "acquire", "start", "init", "turn",
                              "verify", "row", "over", "raised"}]
        /\ pc'[t] \in {"init", "row"}
        /\ \A u \in Tasks : u # t => pc'[u] = pc[u] /\ draft'[u] = draft[u]
        BY <1>10 DEF PatchFails
  <2> QED BY <1>1, <1>2, <1>10, <2>4, <2>5, <2>6 DEF PatchFails
<1>11. CASE TurnTaken(t)
  <2>1. PICK turn : Continue(t, WithSteps(draft[t], turn))
        BY <1>11 DEF TurnTaken
  <2>2. WithSteps(draft[t], turn) \in Draft
        BY <1>3, WithStepsType
  <2> QED BY <1>1, <1>2, <1>11, <2>1, <2>2, TurnTypes DEF TurnTaken
<1>12. CASE Submits(t)
  <2> DEFINE d == [draft[t] EXCEPT
            !.terminal = TRUE, !.submitSeen = TRUE,
            !.submitValid = TRUE, !.answer = Spoken(draft[t]),
            !.resolved = ~StageVerifies(stage) /\ draft[t].answer # "none"
                            /\ "executor" \notin draft[t].errors]
  <2>1. Spoken(draft[t]) \in Answers
        BY <1>3 DEF Spoken, Answers, Draft
  <2>2. d \in Draft
        BY <1>3, <2>1 DEF Draft
  <2>3. Break(t, d) /\ pc[t] = "turn"
        BY <1>12 DEF Submits
  <2> HIDE DEF d
  <2> QED BY <1>1, <1>2, <1>12, <2>2, <2>3, TurnTypes DEF Submits
<1>13. CASE NoMoreTurns(t)
  <2>1. [draft[t] EXCEPT !.errors = @ \cup {"ended"}] \in Draft
        BY <1>3 DEF Draft, ErrorKinds
  <2> QED BY <1>1, <1>2, <1>13, <2>1, TurnTypes DEF NoMoreTurns
<1>14. CASE BridgeRaises(t)
  <2>1. Spoken(draft[t]) \in Answers
        BY <1>3 DEF Spoken, Answers, Draft
  <2>2. [draft[t] EXCEPT !.errors = @ \cup {"ended"}, !.formatValid = FALSE,
                         !.answer = Spoken(draft[t])] \in Draft
        BY <1>3, <2>1 DEF Draft, ErrorKinds
  <2> QED BY <1>1, <1>2, <1>14, <2>2, TurnTypes DEF BridgeRaises
<1>15. CASE Verify(t)
  <2>1. PICK f, p \in {"pass", "fail", "crash"} :
          draft' = [draft EXCEPT ![t].verdict = Verdict(f, p),
                                 ![t].resolved = (Verdict(f, p) = "correct"),
                                 ![t].infraInvalid = (Verdict(f, p) = "invalid")]
        BY <1>15 DEF Verify
  <2>2. Verdict(f, p) \in Verdicts
        BY DEF Verdict, Verdicts
  <2>3. [draft[t] EXCEPT !.verdict = Verdict(f, p),
                         !.resolved = (Verdict(f, p) = "correct"),
                         !.infraInvalid = (Verdict(f, p) = "invalid")] \in Draft
        BY <1>3, <2>2 DEF Draft
  <2>4. /\ draft' \in [Tasks -> Draft]
        /\ \A u \in Tasks : u # t => draft'[u] = draft[u]
        BY <2>1, <2>3
  <2> QED BY <1>1, <1>2, <1>15, <2>4 DEF Verify
<1>16. CASE EndAttempt(t)
  <2>1. RowOf(t) \in Row
        BY RowOfType
  <2>2. attempt[t] + 1 \in 0..Attempts
    <3>1. attempt[t] < Attempts
          BY <1>16 DEF EndAttempt
    <3> QED BY <1>3, <3>1, Sizes
  <2>3. rows' \in [Tasks -> Seq(Row)]
        BY <1>16, <2>1 DEF EndAttempt
  <2> QED BY <1>1, <1>2, <1>16, <2>2, <2>3, FreshDraftType DEF EndAttempt
<1> QED BY <1>4, <1>5, <1>6, <1>7, <1>8, <1>9, <1>10, <1>11, <1>12, <1>13,
           <1>14, <1>15, <1>16 DEF Worker

\* Every step of main keeps the types and the counts.
LEMMA MainTypes ==
    ASSUME TypeInv, Main
    PROVE  TypeInv'
<1>1. PoolTypeOK' /\ UNCHANGED <<stage, pc, workVars>>
  <2>1. UNCHANGED poolVars /\ UNCHANGED <<stage, pc, workVars>>
        BY DEF Main, TakeResult, Raise, ExtendRows, Handoff
  <2> QED BY <2>1, PoolTypes DEF TypeInv, TypeOK
<1> USE <1>1 DEF TypeInv, TypeOK, Counts, workVars, MainOver
<1>2. CASE TakeResult
      BY <1>2 DEF TakeResult
<1>3. CASE Raise
      BY <1>3 DEF Raise
<1>4. CASE ExtendRows
  <2>1. position < TaskCount
        BY <1>4 DEF ExtendRows
  <2>2. position' \in 0..TaskCount /\ position' \in Tasks
        BY <1>4, <2>1, TasksNumbered DEF ExtendRows
  <2>3. batch' = batch \o rows[position'] /\ rows[position'] \in Seq(Row)
        BY <1>4, <2>2 DEF ExtendRows
  <2>4. batch' \in Seq(Row) /\ DOMAIN batch \subseteq DOMAIN batch'
    <3>1. batch \in Seq(Row)
          OBVIOUS
    <3>2. batch' \in Seq(Row) /\ Len(batch') = Len(batch) + Len(rows[position'])
          BY <2>3, <3>1, ConcatProperties
    <3> QED BY <2>3, <3>1, <3>2, LenProperties
  <2>5. main' \in {"waiting", "returned"} /\ (main' = "waiting" => position' < TaskCount)
        BY <1>4, <2>2, TasksNumbered DEF ExtendRows
  <2> QED BY <1>4, <2>2, <2>4, <2>5 DEF ExtendRows
<1>5. CASE Handoff
  <2>1. main' \in {"skipped", "refused", "training"}
        BY <1>5 DEF Handoff
  <2>2. handoff' \subseteq DOMAIN batch
        BY <1>5 DEF Handoff, HandoffPositions
  <2> QED BY <1>5, <2>1, <2>2 DEF Handoff
<1> QED BY <1>2, <1>3, <1>4, <1>5 DEF Main

\* The types and counts hold at the start.
LEMMA InitTypes == Init => TypeInv
<1> SUFFICES ASSUME Init PROVE TypeInv
    OBVIOUS
<1>1. PoolTypeOK
      BY DEF Init, PoolInit, PoolTypeOK, Phases, FreshStart, StartTries
<1>2. rows \in [Tasks -> Seq(Row)] /\ batch \in Seq(Row)
      BY EmptySeq DEF Init
<1>3. draft \in [Tasks -> Draft]
      BY FreshDraftType DEF Init
<1> QED BY <1>1, <1>2, <1>3, Sizes, TasksNumbered DEF Init, TypeInv, TypeOK, Counts

\* Every step keeps the types and the counts.
LEMMA StepTypes ==
    ASSUME TypeInv, [Next]_vars
    PROVE  TypeInv'
<1>1. CASE \E t \in Tasks : Worker(t)
      BY <1>1, WorkerTypes
<1>2. CASE Main
      BY <1>2, MainTypes
<1>3. CASE DaemonStep
  <2>1. PoolTypeOK'
        BY <1>3, PoolTypes DEF DaemonStep, TypeInv, TypeOK
  <2> QED BY <1>3, <2>1 DEF DaemonStep, TypeInv, TypeOK, Counts, workVars, mainVars
<1>4. CASE UNCHANGED vars
  <2>1. PoolTypeOK'
        BY <1>4, PoolTypes DEF vars, TypeInv, TypeOK
  <2> QED BY <1>4, <2>1 DEF vars, TypeInv, TypeOK, Counts, workVars, mainVars
<1> QED BY <1>1, <1>2, <1>3, <1>4 DEF Next, Finished

\* Every reachable state has its type.
THEOREM CollectorTypeCorrect == Spec => []TypeOK
<1>1. Init => TypeInv
      BY InitTypes
<1>2. TypeInv /\ [Next]_vars => TypeInv'
      BY StepTypes
<1>3. TypeInv => TypeOK
      BY DEF TypeInv
<1> QED BY <1>1, <1>2, <1>3, PTL DEF Spec

-----------------------------------------------------------------------------
(* A run that timed out never duplicates *)

\* The daemon gives a name to one container; what is being removed is there.
NamesUnique ==
    /\ \A c, d \in up : SameName(c, d) => c = d
    /\ dying \subseteq up

\* Containers are made for attempts that have begun.
MadeInTime ==
    \A c \in up \cup late :
        /\ c.attempt <= attempt[c.task]
        /\ pc[c.task] \in {"queued", "acquire"} => c.attempt < attempt[c.task]

\* The pool works for the task's current attempt, and once a run of it has
\* timed out the pool remembers that and keeps the name of that run.
NameKept ==
    \A t \in Tasks : phase[t] # "idle" =>
        /\ start[t].attempt = attempt[t]
        /\ \A c \in up \cup late :
              c.task = t /\ c.attempt = attempt[t] /\ c.end = "timeout"
              => start[t].sawTimeout /\ c.name = start[t].name

\* The container a pool holds is there, under the pool's name, and nobody
\* is removing it.
HandleIsUp ==
    \A t \in Tasks : phase[t] = "held" =>
        /\ handle[t] \in up \ dying
        /\ handle[t] = Container(t, "ok")

PoolInv == NamesUnique /\ MadeInTime /\ NameKept /\ HandleIsUp

\* The fields of the container of the current try.
LEMMA ContainerFields ==
    ASSUME NEW t, NEW end
    PROVE  /\ Container(t, end).task = t
           /\ Container(t, end).attempt = start[t].attempt
           /\ Container(t, end).name = start[t].name
           /\ Container(t, end).end = end
BY DEF Container

\* Removing containers of a task that holds none disturbs no other pool.
LEMMA RemoveKeeps ==
    ASSUME PoolTypeOK, PoolInv, NEW t \in Tasks, NEW ref, Remove(t, ref),
           \A c \in ref \cap up : c.task = t
    PROVE  /\ up' \subseteq up
           /\ dying' \subseteq up'
           /\ \A u \in Tasks : u # t /\ phase[u] = "held" => handle[u] \in up' \ dying'
<1>1. \A u \in Tasks : u # t /\ phase[u] = "held" => handle[u] \in up \ dying /\ handle[u].task = u
      BY ContainerFields DEF PoolInv, HandleIsUp
<1> QED BY <1>1 DEF Remove, PoolInv, NamesUnique

\* The pool does not hold, and its containers and its bookkeeping only
\* shrink, apart from the next try.
LEMMA RetryKeeps ==
    ASSUME TypeInv, PoolInv, NEW t \in Tasks, phase[t] \in {"starting", "clearing"},
           NEW name \in Nat, NextTry(t, name),
           start[t].sawTimeout => name = start[t].name,
           Remove(t, UnderName(t)), UNCHANGED <<handle, late, attempt, pc>>
    PROVE  PoolInv'
<1>1. PoolTypeOK
      BY DEF TypeInv, TypeOK
<1>2. \A c \in UnderName(t) \cap up : c.task = t
      BY ContainerFields DEF UnderName, SameName
<1>3. /\ up' \subseteq up
      /\ dying' \subseteq up'
      /\ \A u \in Tasks : u # t /\ phase[u] = "held" => handle[u] \in up' \ dying'
      BY <1>1, <1>2, RemoveKeeps
<1>4. /\ phase'[t] \in {"starting", "failed"}
      /\ \A u \in Tasks : u # t => phase'[u] = phase[u] /\ start'[u] = start[u]
      /\ start'[t].attempt = start[t].attempt
      /\ start'[t].sawTimeout = start[t].sawTimeout
      /\ start[t].sawTimeout => start'[t].name = start[t].name
      BY <1>1 DEF NextTry, PoolTypeOK
<1>5. NamesUnique' /\ MadeInTime'
      BY <1>3 DEF PoolInv, NamesUnique, MadeInTime
<1>6. NameKept'
      BY <1>3, <1>4 DEF PoolInv, NameKept
<1>7. HandleIsUp'
      BY <1>3, <1>4 DEF PoolInv, HandleIsUp, Container
<1> QED BY <1>5, <1>6, <1>7 DEF PoolInv

\* A given-up run of the current try may come to something.
LEMMA GiveUpKeeps ==
    ASSUME TypeInv, PoolInv, NEW t \in Tasks, NEW end \in {"error", "timeout"},
           phase[t] = "starting", pc[t] = "start",
           MayComeLate(Container(t, end)),
           phase' = [phase EXCEPT ![t] = "clearing"],
           \/ end = "error" /\ start' = start
           \/ start' = [start EXCEPT ![t].sawTimeout = TRUE],
           UNCHANGED <<handle, up, dying, attempt, pc>>
    PROVE  PoolInv'
<1> DEFINE c == Container(t, end)
<1>1. PoolTypeOK /\ start[t].attempt = attempt[t] /\ attempt[t] \in Nat
      BY Sizes DEF TypeInv, TypeOK, PoolInv, NameKept
<1>2. late' \subseteq late \cup {c}
      BY DEF MayComeLate
<1>3. c.task = t /\ c.attempt = attempt[t] /\ c.name = start[t].name /\ c.end = end
      BY <1>1, ContainerFields
<1>4. /\ \A u \in Tasks : /\ start'[u].attempt = start[u].attempt
                          /\ start'[u].name = start[u].name
                          /\ start'[u].try = start[u].try
                          /\ start[u].sawTimeout => start'[u].sawTimeout
      /\ end = "timeout" => start'[t].sawTimeout
      BY <1>1 DEF PoolTypeOK
<1>5. /\ \A u \in Tasks : phase'[u] # "idle" <=> phase[u] # "idle"
      /\ \A u \in Tasks : phase'[u] = "held" <=> phase[u] = "held"
      BY <1>1 DEF PoolTypeOK
<1> HIDE DEF c
<1>6. NamesUnique'
      BY DEF PoolInv, NamesUnique
<1>7. MadeInTime'
      BY <1>1, <1>2, <1>3 DEF PoolInv, MadeInTime
<1>8. NameKept'
      BY <1>2, <1>3, <1>4, <1>5 DEF PoolInv, NameKept
<1>9. HandleIsUp'
      BY <1>4, <1>5 DEF PoolInv, HandleIsUp, Container
<1> QED BY <1>6, <1>7, <1>8, <1>9 DEF PoolInv

\* Every step of a worker keeps the pool invariant.
LEMMA WorkerKeepsPool ==
    ASSUME TypeInv, PoolInv, NEW t \in Tasks, Worker(t)
    PROVE  PoolInv'
<1>1. PoolTypeOK /\ attempt[t] \in Nat /\ attempt \in [Tasks -> Nat]
      BY Sizes DEF TypeInv, TypeOK
<1>2. \A c \in up \cup late : c.task \in Tasks /\ c.attempt \in Nat
      BY <1>1 DEF PoolTypeOK, Containers
<1>3. pc \in [Tasks -> {"queued", "acquire", "start", "init", "turn",
                        "verify", "row", "over", "raised"}]
      BY DEF TypeInv, TypeOK
<1>4. CASE TaskStarts(t)
  <2>1. \A u \in Tasks : pc'[u] \in {"queued", "acquire"} => pc[u] \in {"queued", "acquire"}
        BY <1>3, <1>4 DEF TaskStarts, Goto
  <2> QED BY <1>2, <1>4, <2>1 DEF TaskStarts, poolVars, workVars, PoolInv,
             NamesUnique, MadeInTime, NameKept, HandleIsUp, Container
<1>5. CASE AttemptStarts(t)
  <2>1. /\ phase[t] = "idle" /\ pc[t] = "acquire"
        /\ phase' = [phase EXCEPT ![t] = "starting"]
        /\ start' = [start EXCEPT ![t] = FreshStart(attempt[t])]
        /\ UNCHANGED <<handle, up, late, dying, attempt>>
        /\ pc' = [pc EXCEPT ![t] = "start"]
        BY <1>5 DEF AttemptStarts, Acquire, workVars, Goto
  <2>2. \A c \in up \cup late : c.task = t => c.attempt # attempt[t]
        BY <1>1, <1>2, <2>1 DEF PoolInv, MadeInTime
  <2>3. start'[t].attempt = attempt[t]
        BY <1>1, <2>1 DEF PoolTypeOK, FreshStart
  <2>4. NamesUnique' /\ MadeInTime'
        BY <1>2, <1>3, <2>1 DEF PoolInv, NamesUnique, MadeInTime
  <2>5. NameKept'
        BY <1>1, <2>1, <2>2, <2>3 DEF PoolInv, NameKept, PoolTypeOK
  <2>6. HandleIsUp'
        BY <1>1, <2>1 DEF PoolInv, HandleIsUp, Container, PoolTypeOK
  <2> QED BY <2>4, <2>5, <2>6 DEF PoolInv
<1>6. CASE ContainerStarts(t)
  <2> DEFINE c == Container(t, "ok")
  <2>1. /\ phase[t] = "starting" /\ pc[t] = "start"
        /\ ~NameTaken(c) /\ up' = up \cup {c}
        /\ handle' = [handle EXCEPT ![t] = c]
        /\ phase' = [phase EXCEPT ![t] = "held"]
        /\ UNCHANGED <<start, late, dying, attempt>>
        /\ pc' = [pc EXCEPT ![t] = IF t \in PatchedTasks THEN "init" ELSE "turn"]
        BY <1>6 DEF ContainerStarts, RunStarts, Goto
  <2>2. c.task = t /\ c.attempt = attempt[t] /\ c.end = "ok"
        BY <2>1, ContainerFields DEF PoolInv, NameKept
  <2>3. c = Container(t, "ok")' /\ \A u \in Tasks : Container(u, "ok")' = Container(u, "ok")
        BY <2>1 DEF Container
  <2> HIDE DEF c
  <2>4. c \notin up /\ \A d \in up : ~SameName(c, d) /\ ~SameName(d, c)
        BY <2>1 DEF NameTaken, SameName
  <2>5. NamesUnique'
        BY <2>1, <2>4 DEF PoolInv, NamesUnique
  <2>6. MadeInTime'
        BY <1>1, <1>2, <1>3, <2>1, <2>2 DEF PoolInv, MadeInTime
  <2>7. NameKept'
        BY <1>1, <2>1, <2>2 DEF PoolInv, NameKept, PoolTypeOK
  <2>8. HandleIsUp'
        BY <1>1, <2>1, <2>3, <2>4 DEF PoolInv, HandleIsUp, NamesUnique, PoolTypeOK
  <2> QED BY <2>5, <2>6, <2>7, <2>8 DEF PoolInv
<1>7. CASE StartGoesWrong(t)
  <2>1. pc[t] = "start" /\ UNCHANGED <<pc, attempt>>
        BY <1>7 DEF StartGoesWrong, workVars
  <2>2. CASE RunFails(t)
        BY <2>1, <2>2, GiveUpKeeps DEF RunFails
  <2>3. CASE RunTimesOut(t)
        BY <2>1, <2>3, GiveUpKeeps DEF RunTimesOut
  <2>4. CASE RunRaises(t)
        BY <1>1, <2>1, <2>4 DEF RunRaises, PoolInv, NamesUnique, MadeInTime,
           NameKept, HandleIsUp, Container, PoolTypeOK
  <2>5. CASE RunConflicts(t)
    <3>1. NextName(start[t]) \in Nat /\ (start[t].sawTimeout => NextName(start[t]) = start[t].name)
          BY <1>1 DEF NextName, PoolTypeOK
    <3> QED BY <2>1, <2>5, <3>1, RetryKeeps DEF RunConflicts
  <2>6. CASE ClearName(t)
    <3>1. start[t].name \in Nat
          BY <1>1 DEF PoolTypeOK
    <3> QED BY <2>1, <2>6, <3>1, RetryKeeps DEF ClearName
  <2> QED BY <1>7, <2>2, <2>3, <2>4, <2>5, <2>6 DEF StartGoesWrong
<1>8. CASE AcquireRaised(t) \/ EndAttempt(t)
  <2>1. /\ phase[t] \in {"held", "failed"} /\ phase' = [phase EXCEPT ![t] = "idle"]
        /\ handle' = [handle EXCEPT ![t] = NoContainer]
        /\ Remove(t, IF phase[t] = "held" THEN {handle[t]} ELSE {})
        /\ UNCHANGED <<start, late>>
        BY <1>8 DEF AcquireRaised, EndAttempt, ReleaseAll
  <2>2. phase[t] = "held" => handle[t].task = t
        BY ContainerFields DEF PoolInv, HandleIsUp
  <2>3. /\ up' \subseteq up
        /\ dying' \subseteq up'
        /\ \A u \in Tasks : u # t /\ phase[u] = "held" => handle[u] \in up' \ dying'
        BY <1>1, <2>1, <2>2, RemoveKeeps
  <2>4. \/ UNCHANGED attempt /\ pc' = [pc EXCEPT ![t] = "raised"]
        \/ /\ attempt' = [attempt EXCEPT ![t] = @ + 1]
           /\ pc' = [pc EXCEPT ![t] = IF attempt[t] + 1 < Attempts THEN "acquire" ELSE "over"]
        BY <1>8 DEF AcquireRaised, EndAttempt, workVars, Goto
  <2>5. NamesUnique'
        BY <2>3 DEF PoolInv, NamesUnique
  <2>6. MadeInTime'
        BY <1>1, <1>2, <1>3, <2>1, <2>3, <2>4 DEF PoolInv, MadeInTime
  <2>7. NameKept'
        BY <1>1, <2>1, <2>3, <2>4 DEF PoolInv, NameKept, PoolTypeOK
  <2>8. HandleIsUp'
        BY <1>1, <2>1, <2>3 DEF PoolInv, HandleIsUp, Container, PoolTypeOK
  <2> QED BY <2>5, <2>6, <2>7, <2>8 DEF PoolInv
<1>9. CASE /\ UNCHANGED poolVars /\ UNCHANGED attempt
           /\ pc[t] \notin {"queued", "acquire"} /\ pc'[t] \notin {"queued", "acquire"}
           /\ \A u \in Tasks : u # t => pc'[u] = pc[u]
      BY <1>2, <1>9 DEF poolVars, PoolInv, NamesUnique, MadeInTime, NameKept,
         HandleIsUp, Container
<1>10. CASE PatchApplies(t) \/ PatchFails(t) \/ Verify(t)
      BY <1>3, <1>9, <1>10 DEF PatchApplies, PatchFails, Verify, Goto
<1>11. CASE TurnTaken(t) \/ Submits(t) \/ NoMoreTurns(t) \/ BridgeRaises(t)
      BY <1>3, <1>9, <1>11 DEF TurnTaken, Submits, NoMoreTurns, BridgeRaises,
         Continue, Break, AfterTurns, Goto
<1> QED BY <1>4, <1>5, <1>6, <1>7, <1>8, <1>10, <1>11 DEF Worker

\* The daemon keeps the pool invariant.
LEMMA DaemonKeepsPool ==
    ASSUME TypeInv, PoolInv, DaemonStep
    PROVE  PoolInv'
<1>1. UNCHANGED <<phase, start, handle, pc, attempt>>
      BY DEF DaemonStep, Daemon, CreatesLate, DropsLate, RemovesLate, workVars
<1>2. /\ up' \cup late' \subseteq up \cup late
      /\ \A c, d \in up' : SameName(c, d) => c = d
      /\ dying' \subseteq up'
      /\ up \ dying \subseteq up' \ dying'
      BY DEF DaemonStep, Daemon, CreatesLate, DropsLate, RemovesLate,
             NameTaken, SameName, PoolInv, NamesUnique
<1> QED BY <1>1, <1>2 DEF PoolInv, NamesUnique, MadeInTime, NameKept, HandleIsUp, Container

\* The pool invariant always holds.
THEOREM PoolInvariant == Spec => []PoolInv
<1>1. Init => TypeInv /\ PoolInv
  <2>1. Init => PoolInv
        BY DEF Init, PoolInit, PoolInv, NamesUnique, MadeInTime, NameKept, HandleIsUp
  <2> QED BY <2>1, InitTypes
<1>2. TypeInv /\ PoolInv /\ [Next]_vars => TypeInv' /\ PoolInv'
  <2> SUFFICES ASSUME TypeInv, PoolInv, [Next]_vars PROVE PoolInv'
      BY StepTypes
  <2>1. CASE \E t \in Tasks : Worker(t)
        BY <2>1, WorkerKeepsPool
  <2>2. CASE DaemonStep
        BY <2>2, DaemonKeepsPool
  <2>3. CASE Main \/ UNCHANGED vars
    <3>1. UNCHANGED <<poolVars, pc, attempt>>
          BY <2>3 DEF Main, TakeResult, Raise, ExtendRows, Handoff, vars, workVars
    <3> QED BY <3>1 DEF poolVars, PoolInv, NamesUnique, MadeInTime, NameKept,
               HandleIsUp, Container
  <2> QED BY <2>1, <2>2, <2>3 DEF Next, Finished
<1> QED BY <1>1, <1>2, PTL DEF Spec

\* A docker run that timed out never gives an attempt a second container.
THEOREM NeverDuplicates == Spec => []TimedOutRunNeverDuplicates
<1>1. TypeInv /\ PoolInv => TimedOutRunNeverDuplicates
  <2> SUFFICES ASSUME TypeInv, PoolInv, NEW t \in Tasks, NEW c \in up,
                      phase[t] = "held", c.end = "timeout",
                      c.task = t, c.attempt = handle[t].attempt
               PROVE  FALSE
      BY DEF TimedOutRunNeverDuplicates
  <2>1. /\ handle[t] \in up /\ handle[t].task = t
        /\ handle[t].attempt = start[t].attempt
        /\ handle[t].name = start[t].name /\ handle[t].end = "ok"
        BY ContainerFields DEF PoolInv, HandleIsUp
  <2>2. start[t].attempt = attempt[t] /\ c.name = start[t].name
        BY <2>1 DEF PoolInv, NameKept
  <2>3. SameName(c, handle[t])
        BY <2>1, <2>2 DEF SameName
  <2>4. c = handle[t]
        BY <2>1, <2>3 DEF PoolInv, NamesUnique
  <2> QED BY <2>1, <2>4
<1>2. Init => TypeInv
      BY InitTypes
<1>3. TypeInv /\ [Next]_vars => TypeInv'
      BY StepTypes
<1> QED BY <1>1, <1>2, <1>3, PoolInvariant, PTL DEF Spec

-----------------------------------------------------------------------------
(* Selected rows are verified *)

\* A row from a container that was set up has the patch in its tree, and one
\* that counts as resolved where the tests are run has passed them.
SoundRow(row) ==
    /\ row.task \in PatchedTasks /\ row.initialized => row.tree = "patched"
    /\ StageVerifies(stage) /\ row.resolved => row.verdict = "correct"

\* The same of an attempt in progress: from the turns on the patch is in,
\* and it is resolved by the tests only.
DraftsSound ==
    \A t \in Tasks :
        /\ pc[t] \in {"turn", "verify"} /\ t \in PatchedTasks => patched[t]
        /\ pc[t] = "row" /\ t \in PatchedTasks /\ draft[t].initialized => patched[t]
        /\ pc[t] \in {"init", "turn", "verify"} /\ StageVerifies(stage)
              => ~draft[t].resolved
        /\ pc[t] = "row" /\ StageVerifies(stage) /\ draft[t].resolved
              => draft[t].verdict = "correct"

RowsSound == \A t \in Tasks : \A i \in 1..Len(rows[t]) : SoundRow(rows[t][i])

BatchSound == \A i \in 1..Len(batch) : SoundRow(batch[i])

\* Rows are selected once the batch is complete, by the policy of the stage.
HandoffSound ==
    /\ main = "waiting" => handoff = {}
    /\ \A i \in handoff : i \in DOMAIN batch /\ Accepted(batch[i], StagePolicy(stage))

RowInv == DraftsSound /\ RowsSound /\ BatchSound /\ HandoffSound

\* What a turn, or the end of the turns, leaves behind is sound.
LEMMA TurnKeepsRows ==
    ASSUME TypeInv, RowInv, NEW t \in Tasks, NEW d \in Draft, pc[t] = "turn",
           Continue(t, d) \/ Break(t, d),
           StageVerifies(stage) => ~d.resolved,
           UNCHANGED <<stage, attempt, patched, rows, mainVars>>
    PROVE  RowInv'
<1>1. draft \in [Tasks -> Draft]
      /\ pc \in [Tasks -> {"queued", "acquire", "start", "init", "turn",
                           "verify", "row", "over", "raised"}]
      BY DEF TypeInv, TypeOK
<1>2. \A u \in Tasks : u # t => pc'[u] = pc[u] /\ draft'[u] = draft[u]
      BY TurnTypes
<1>3. \/ pc'[t] = "turn"
      \/ pc'[t] = "verify" /\ StageVerifies(stage)
      \/ pc'[t] = "row" /\ ~StageVerifies(stage)
      BY <1>1 DEF Continue, Break, Goto, AfterTurns
<1>4. draft'[t].resolved = d.resolved
      BY <1>1 DEF Continue, Break, Draft
<1>5. DraftsSound'
      BY <1>2, <1>3, <1>4 DEF RowInv, DraftsSound
<1>6. RowsSound' /\ BatchSound' /\ HandoffSound'
      BY DEF RowInv, RowsSound, BatchSound, HandoffSound, SoundRow, mainVars
<1> QED BY <1>5, <1>6 DEF RowInv

\* The row of an attempt is as sound as its draft.
LEMMA RowOfSound ==
    ASSUME RowInv, NEW t \in Tasks, pc[t] = "row"
    PROVE  SoundRow(RowOf(t))
<1>1. /\ RowOf(t).task = t /\ RowOf(t).initialized = draft[t].initialized
      /\ RowOf(t).resolved = draft[t].resolved
      /\ RowOf(t).verdict = draft[t].verdict
      /\ RowOf(t).tree = IF patched[t] THEN "patched" ELSE "plain"
      BY DEF RowOf
<1> QED BY <1>1 DEF SoundRow, RowInv, DraftsSound

\* Every step of a worker keeps rows and drafts sound.
LEMMA WorkerKeepsRows ==
    ASSUME TypeInv, RowInv, NEW t \in Tasks, Worker(t)
    PROVE  RowInv'
<1>1. /\ draft \in [Tasks -> Draft] /\ patched \in [Tasks -> BOOLEAN]
      /\ rows \in [Tasks -> Seq(Row)]
      /\ pc \in [Tasks -> {"queued", "acquire", "start", "init", "turn",
                           "verify", "row", "over", "raised"}]
      BY DEF TypeInv, TypeOK
<1>2. UNCHANGED <<stage, mainVars>>
      BY DEF Worker, TaskStarts, AttemptStarts, ContainerStarts, StartGoesWrong,
             AcquireRaised, PatchApplies, PatchFails, TurnTaken, Submits,
             NoMoreTurns, BridgeRaises, Verify, EndAttempt
<1>3. BatchSound' /\ HandoffSound'
      BY <1>2 DEF RowInv, BatchSound, HandoffSound, SoundRow, mainVars
<1>4. UNCHANGED rows => RowsSound'
      BY <1>2 DEF RowInv, RowsSound, SoundRow
<1>5. draft[t] \in Draft
      BY <1>1
<1>6. CASE TaskStarts(t) \/ AttemptStarts(t) \/ StartGoesWrong(t) \/ AcquireRaised(t)
  <2>1. /\ UNCHANGED workVars
        /\ pc'[t] \in {"acquire", "start", "raised"}
        /\ \A u \in Tasks : u # t => pc'[u] = pc[u]
        BY <1>1, <1>6 DEF TaskStarts, AttemptStarts, StartGoesWrong, AcquireRaised, Goto
  <2>2. DraftsSound'
        BY <1>2, <2>1 DEF RowInv, DraftsSound, workVars
  <2> QED BY <1>3, <1>4, <2>1, <2>2 DEF RowInv, workVars
<1>7. CASE ContainerStarts(t)
  <2>1. /\ patched' = [patched EXCEPT ![t] = FALSE]
        /\ draft' = [draft EXCEPT ![t] = FreshDraft]
        /\ pc' = [pc EXCEPT ![t] = IF t \in PatchedTasks THEN "init" ELSE "turn"]
        /\ UNCHANGED rows
        BY <1>7 DEF ContainerStarts, Goto
  <2>2. ~FreshDraft.resolved
        BY DEF FreshDraft
  <2>3. DraftsSound'
        BY <1>1, <1>2, <2>1, <2>2 DEF RowInv, DraftsSound
  <2> QED BY <1>3, <1>4, <2>1, <2>3 DEF RowInv
<1>8. CASE PatchApplies(t)
  <2>1. DraftsSound'
        BY <1>1, <1>2, <1>8 DEF PatchApplies, RowInv, DraftsSound, Goto
  <2> QED BY <1>3, <1>4, <1>8, <2>1 DEF RowInv, PatchApplies
<1>9. CASE PatchFails(t)
  <2>1. /\ \A u \in Tasks : u # t =>
              pc'[u] = pc[u] /\ draft'[u] = draft[u] /\ patched'[u] = patched[u]
        /\ draft'[t].resolved = draft[t].resolved
        /\ \/ pc'[t] = "init"
           \/ pc'[t] = "row" /\ draft'[t].initialized = FALSE
        /\ pc[t] = "init"
        BY <1>1, <1>5, <1>9 DEF PatchFails, Goto, Draft
  <2>2. DraftsSound'
        BY <1>2, <2>1 DEF RowInv, DraftsSound
  <2> QED BY <1>3, <1>4, <1>9, <2>2 DEF RowInv, PatchFails
<1>10. CASE TurnTaken(t)
  <2>1. PICK turn : Continue(t, WithSteps(draft[t], turn))
        BY <1>10 DEF TurnTaken
  <2>2. WithSteps(draft[t], turn).resolved = draft[t].resolved
        BY <1>5 DEF WithSteps, Draft
  <2>3. StageVerifies(stage) => ~draft[t].resolved
        BY <1>10 DEF TurnTaken, RowInv, DraftsSound
  <2> QED BY <1>2, <1>5, <1>10, <2>1, <2>2, <2>3, WithStepsType, TurnKeepsRows
          DEF TurnTaken
<1>11. CASE Submits(t)
  <2> DEFINE d == [draft[t] EXCEPT
            !.terminal = TRUE, !.submitSeen = TRUE,
            !.submitValid = TRUE, !.answer = Spoken(draft[t]),
            !.resolved = ~StageVerifies(stage) /\ draft[t].answer # "none"
                            /\ "executor" \notin draft[t].errors]
  <2>1. Spoken(draft[t]) \in Answers
        BY <1>5 DEF Spoken, Answers, Draft
  <2>2. d \in Draft /\ (StageVerifies(stage) => ~d.resolved)
        BY <1>5, <2>1 DEF Draft
  <2>3. Break(t, d) /\ pc[t] = "turn" /\ UNCHANGED <<attempt, patched, rows>>
        BY <1>11 DEF Submits
  <2> HIDE DEF d
  <2> QED BY <1>2, <2>2, <2>3, TurnKeepsRows
<1>12. CASE NoMoreTurns(t)
  <2> DEFINE d == [draft[t] EXCEPT !.errors = @ \cup {"ended"}]
  <2>1. d \in Draft /\ d.resolved = draft[t].resolved
        BY <1>5 DEF Draft, ErrorKinds
  <2>2. Break(t, d) /\ pc[t] = "turn" /\ UNCHANGED <<attempt, patched, rows>>
        BY <1>12 DEF NoMoreTurns
  <2>3. StageVerifies(stage) => ~draft[t].resolved
        BY <2>2 DEF RowInv, DraftsSound
  <2> HIDE DEF d
  <2> QED BY <1>2, <2>1, <2>2, <2>3, TurnKeepsRows
<1>13. CASE BridgeRaises(t)
  <2> DEFINE d == [draft[t] EXCEPT !.errors = @ \cup {"ended"}, !.formatValid = FALSE,
                                   !.answer = Spoken(draft[t])]
  <2>1. Spoken(draft[t]) \in Answers
        BY <1>5 DEF Spoken, Answers, Draft
  <2>2. d \in Draft /\ d.resolved = draft[t].resolved
        BY <1>5, <2>1 DEF Draft, ErrorKinds
  <2>3. Break(t, d) /\ pc[t] = "turn" /\ UNCHANGED <<attempt, patched, rows>>
        BY <1>13 DEF BridgeRaises
  <2>4. StageVerifies(stage) => ~draft[t].resolved
        BY <2>3 DEF RowInv, DraftsSound
  <2> HIDE DEF d
  <2> QED BY <1>2, <2>2, <2>3, <2>4, TurnKeepsRows
<1>14. CASE Verify(t)
  <2>1. PICK verdict : /\ draft' = [draft EXCEPT ![t].verdict = verdict,
                                   ![t].resolved = (verdict = "correct"),
                                   ![t].infraInvalid = (verdict = "invalid")]
        BY <1>14 DEF Verify
  <2>2. /\ draft'[t].verdict = verdict
        /\ draft'[t].resolved = (verdict = "correct")
        /\ \A u \in Tasks : u # t => draft'[u] = draft[u]
        BY <1>1, <1>5, <2>1 DEF Draft
  <2>3. /\ pc[t] = "verify" /\ pc' = [pc EXCEPT ![t] = "row"]
        /\ UNCHANGED <<patched, rows>>
        BY <1>14 DEF Verify, Goto
  <2>4. DraftsSound'
        BY <1>1, <1>2, <2>2, <2>3 DEF RowInv, DraftsSound
  <2> QED BY <1>3, <1>4, <2>3, <2>4 DEF RowInv
<1>15. CASE EndAttempt(t)
  <2>1. /\ pc[t] = "row"
        /\ rows' = [rows EXCEPT ![t] = Append(@, RowOf(t))]
        /\ pc'[t] \in {"acquire", "over"}
        /\ \A u \in Tasks : u # t =>
              pc'[u] = pc[u] /\ draft'[u] = draft[u] /\ patched'[u] = patched[u]
        BY <1>1, <1>15 DEF EndAttempt, Goto
  <2>2. DraftsSound'
        BY <1>2, <2>1 DEF RowInv, DraftsSound
  <2>3. SoundRow(RowOf(t)) /\ RowOf(t) \in Row
        BY <2>1, RowOfSound, RowOfType DEF TypeInv
  <2>4. RowsSound'
    <3>1. ASSUME NEW u \in Tasks, NEW i \in 1..Len(rows'[u])
          PROVE  SoundRow(rows'[u][i])
      <4>1. CASE u # t
            BY <1>1, <2>1, <3>1, <4>1 DEF RowInv, RowsSound
      <4>2. CASE u = t
        <5>1. rows'[t] = Append(rows[t], RowOf(t)) /\ rows[t] \in Seq(Row)
              BY <1>1, <2>1
        <5>2. CASE i <= Len(rows[t])
          <6>1. rows'[t][i] = rows[t][i] /\ i \in 1..Len(rows[t])
                BY <2>3, <3>1, <4>2, <5>1, <5>2
          <6> QED BY <4>2, <6>1 DEF RowInv, RowsSound
        <5>3. CASE i = Len(rows[t]) + 1
          <6>1. rows'[t][i] = RowOf(t)
                BY <2>3, <5>1, <5>3
          <6> QED BY <2>3, <4>2, <6>1
        <5> QED BY <2>3, <3>1, <4>2, <5>1, <5>2, <5>3
      <4> QED BY <4>1, <4>2
    <3> QED BY <1>2, <3>1 DEF RowsSound, SoundRow
  <2> QED BY <1>3, <2>2, <2>4 DEF RowInv
<1> QED BY <1>6, <1>7, <1>8, <1>9, <1>10, <1>11, <1>12, <1>13, <1>14, <1>15
        DEF Worker

\* Every step of main keeps the batch and the selection sound.
LEMMA MainKeepsRows ==
    ASSUME TypeInv, RowInv, Main
    PROVE  RowInv'
<1>1. UNCHANGED <<stage, pc, draft, patched, rows>>
      BY DEF Main, TakeResult, Raise, ExtendRows, Handoff, workVars
<1>2. DraftsSound' /\ RowsSound'
      BY <1>1 DEF RowInv, DraftsSound, RowsSound, SoundRow
<1>3. /\ batch \in Seq(Row) /\ rows \in [Tasks -> Seq(Row)]
      BY DEF TypeInv, TypeOK
<1>4. CASE TakeResult \/ Raise
  <2>1. UNCHANGED <<batch, handoff>> /\ (main' = "waiting" => main = "waiting")
        BY <1>4 DEF TakeResult, Raise
  <2>2. BatchSound' /\ HandoffSound'
        BY <1>1, <2>1 DEF RowInv, BatchSound, HandoffSound, SoundRow
  <2> QED BY <1>2, <2>2 DEF RowInv
<1>5. CASE ExtendRows
  <2>1. position' \in Tasks
        BY <1>5, TasksNumbered DEF ExtendRows, TypeInv, TypeOK, Counts
  <2>2. batch' = batch \o rows[position'] /\ rows[position'] \in Seq(Row)
        BY <1>3, <1>5, <2>1 DEF ExtendRows
  <2>3. /\ Len(batch') = Len(batch) + Len(rows[position'])
        /\ \A i \in 1..Len(batch') : batch'[i] = IF i <= Len(batch) THEN batch[i]
                                     ELSE rows[position'][i - Len(batch)]
        BY <1>3, <2>2, ConcatProperties
  <2>4. Len(batch) \in Nat /\ Len(rows[position']) \in Nat
        BY <1>3, <2>2
  <2>5. ASSUME NEW i \in 1..Len(batch') PROVE SoundRow(batch'[i])
    <3>1. CASE i <= Len(batch)
          BY <2>3, <2>4, <3>1 DEF RowInv, BatchSound
    <3>2. CASE i > Len(batch)
      <4>1. i - Len(batch) \in 1..Len(rows[position'])
            BY <2>3, <2>4, <3>2
      <4>2. batch'[i] = rows[position'][i - Len(batch)]
            BY <2>3, <2>4, <3>2
      <4> QED BY <2>1, <4>1, <4>2 DEF RowInv, RowsSound
    <3> QED BY <2>3, <2>4, <3>1, <3>2
  <2>6. BatchSound'
        BY <1>1, <2>5 DEF BatchSound, SoundRow
  <2>7. HandoffSound'
        BY <1>5 DEF ExtendRows, RowInv, HandoffSound
  <2> QED BY <1>2, <2>6, <2>7 DEF RowInv
<1>6. CASE Handoff
  <2>1. /\ UNCHANGED batch /\ main' # "waiting"
        /\ \A i \in handoff' : i \in DOMAIN batch /\ Accepted(batch[i], StagePolicy(stage))
        BY <1>6 DEF Handoff, HandoffPositions
  <2>2. BatchSound' /\ HandoffSound'
        BY <1>1, <2>1 DEF RowInv, BatchSound, HandoffSound, SoundRow
  <2> QED BY <1>2, <2>2 DEF RowInv
<1> QED BY <1>4, <1>5, <1>6 DEF Main

\* A selected row has the patch of its task in its tree, and in positive_rft
\* the tests have passed on it.
THEOREM RowsVerified == Spec => []SelectedRowsAreVerified
<1>1. Init => TypeInv /\ RowInv
  <2>1. Init => DraftsSound /\ RowsSound /\ BatchSound /\ HandoffSound
        BY EmptySeq DEF Init, DraftsSound, RowsSound, BatchSound, HandoffSound
  <2> QED BY <2>1, InitTypes DEF RowInv
<1>2. TypeInv /\ RowInv /\ [Next]_vars => TypeInv' /\ RowInv'
  <2> SUFFICES ASSUME TypeInv, RowInv, [Next]_vars PROVE RowInv'
      BY StepTypes
  <2>1. CASE \E t \in Tasks : Worker(t)
        BY <2>1, WorkerKeepsRows
  <2>2. CASE Main
        BY <2>2, MainKeepsRows
  <2>3. CASE DaemonStep \/ UNCHANGED vars
    <3>1. UNCHANGED <<stage, pc, workVars, mainVars>>
          BY <2>3 DEF DaemonStep, vars
    <3> QED BY <3>1 DEF workVars, mainVars, RowInv, DraftsSound, RowsSound,
               BatchSound, HandoffSound, SoundRow
  <2> QED BY <2>1, <2>2, <2>3 DEF Next, Finished
<1>3. TypeInv /\ RowInv => SelectedRowsAreVerified
  <2> SUFFICES ASSUME TypeInv, RowInv, NEW i \in handoff
               PROVE  /\ batch[i].task \in PatchedTasks => batch[i].tree = "patched"
                      /\ stage = "positive_rft" => batch[i].verdict = "correct"
      BY DEF SelectedRowsAreVerified
  <2>1. i \in 1..Len(batch) /\ Accepted(batch[i], StagePolicy(stage))
        BY DEF RowInv, HandoffSound, TypeInv, TypeOK
  <2>2. SoundRow(batch[i])
        BY <2>1 DEF RowInv, BatchSound
  <2>3. batch[i].initialized
        BY <2>1 DEF Accepted, RejectionReasons
  <2>4. stage = "positive_rft" => batch[i].resolved
        BY <2>1 DEF Accepted, RejectionReasons, StagePolicy
  <2> QED BY <2>2, <2>3, <2>4 DEF SoundRow, StageVerifies
<1> QED BY <1>1, <1>2, <1>3, PTL DEF Spec

-----------------------------------------------------------------------------
(* Nothing is left behind *)

\* A container whose docker run was answered is held by its pool, unless its
\* removal was given up on; late containers are of unanswered runs.
Owned ==
    /\ \A c \in up \ dying : c.end = "ok" =>
          phase[c.task] = "held" /\ handle[c.task] = c
    /\ \A c \in late : c.end # "ok"

\* A task that is not being worked on has no pool at work.
PoolAtWork ==
    \A t \in Tasks : pc[t] \in {"queued", "acquire", "over", "raised"}
                     => phase[t] = "idle"

\* Where the tasks stand as main goes on: it takes results of ended tasks
\* only, all of them unless one raised.
MainBehind ==
    /\ \A t \in taken : pc[t] = "over"
    /\ main \in {"returned", "skipped", "refused", "training"} => taken = Tasks
    /\ main \in {"joining", "raised"} => \E t \in Tasks : pc[t] = "raised"
    /\ main = "raised" /\ Workers # 1 => \A t \in Tasks : pc[t] \in Ended

\* With one worker a task starts when all before it were taken.
Serial ==
    Workers = 1 => \A t, u \in Tasks : u < t /\ pc[t] # "queued" => u \in taken

EndInv == Owned /\ PoolAtWork /\ MainBehind /\ Serial

\* A worker takes its task from one place to another.
LEMMA WorkerMoves ==
    ASSUME TypeInv, NEW t \in Tasks, Worker(t)
    PROVE  /\ pc[t] \notin Ended
           /\ pc'[t] # "queued"
           /\ \A u \in Tasks : u # t => pc'[u] = pc[u]
           /\ pc[t] = "queued" => MayStart(t)
           /\ UNCHANGED mainVars
<1>1. pc \in [Tasks -> {"queued", "acquire", "start", "init", "turn",
                        "verify", "row", "over", "raised"}]
      BY DEF TypeInv, TypeOK
<1>2. CASE TaskStarts(t) \/ AttemptStarts(t) \/ ContainerStarts(t)
           \/ StartGoesWrong(t) \/ AcquireRaised(t) \/ EndAttempt(t)
      BY <1>1, <1>2 DEF TaskStarts, AttemptStarts, ContainerStarts,
         StartGoesWrong, AcquireRaised, EndAttempt, Goto, Ended
<1>3. CASE PatchApplies(t) \/ PatchFails(t) \/ Verify(t)
      BY <1>1, <1>3 DEF PatchApplies, PatchFails, Verify, Goto, Ended
<1>4. CASE TurnTaken(t) \/ Submits(t) \/ NoMoreTurns(t) \/ BridgeRaises(t)
      BY <1>1, <1>4 DEF TurnTaken, Submits, NoMoreTurns, BridgeRaises,
         Continue, Break, AfterTurns, Goto, Ended
<1> QED BY <1>2, <1>3, <1>4 DEF Worker

\* Main may go on as before after a step of a worker.
LEMMA WorkerKeepsMain ==
    ASSUME TypeInv, MainBehind, Serial, NEW t \in Tasks, Worker(t)
    PROVE  MainBehind' /\ Serial'
<1>1. \A u \in Tasks : pc[u] \in Ended => pc'[u] = pc[u]
      BY WorkerMoves
<1>2. UNCHANGED <<main, taken>> /\ taken \subseteq Tasks
      BY WorkerMoves DEF mainVars, TypeInv, TypeOK
<1>3. MainBehind'
      BY <1>1, <1>2 DEF MainBehind, Ended
<1>4. Serial'
      BY <1>2, WorkerMoves DEF Serial, MayStart
<1> QED BY <1>3, <1>4

\* A pool that holds no container may have what it finds removed.
LEMMA RetryKeepsOwned ==
    ASSUME TypeInv, Owned, NEW t \in Tasks, phase[t] \in {"starting", "clearing"},
           NEW name \in Nat, NextTry(t, name),
           Remove(t, UnderName(t)), UNCHANGED <<handle, late>>
    PROVE  Owned'
<1>1. PoolTypeOK
      BY DEF TypeInv, TypeOK
<1>2. \A u \in Tasks : u # t => phase'[u] = phase[u]
      BY <1>1, NextTryType
<1>3. \A c \in up : c.task \in Tasks
      BY <1>1 DEF PoolTypeOK, Containers
<1>4. up' \ dying' \subseteq up \ dying
      BY DEF Remove
<1> QED BY <1>2, <1>3, <1>4 DEF Owned

\* Every step of a worker keeps containers with their owners.
LEMMA WorkerKeepsOwned ==
    ASSUME TypeInv, EndInv, NEW t \in Tasks, Worker(t)
    PROVE  Owned' /\ PoolAtWork'
<1>1. PoolTypeOK /\ phase \in [Tasks -> Phases]
      /\ pc \in [Tasks -> {"queued", "acquire", "start", "init", "turn",
                           "verify", "row", "over", "raised"}]
      BY DEF TypeInv, TypeOK, PoolTypeOK
<1>2. \A c \in up \cup late : c.task \in Tasks
      BY <1>1 DEF PoolTypeOK, Containers
<1>3. \A u \in Tasks : u # t => pc'[u] = pc[u]
      BY WorkerMoves
<1>4. CASE AttemptStarts(t)
  <2>1. /\ phase[t] = "idle" /\ phase' = [phase EXCEPT ![t] = "starting"]
        /\ UNCHANGED <<handle, up, late, dying>> /\ pc'[t] = "start"
        BY <1>1, <1>4 DEF AttemptStarts, Acquire, Goto
  <2> QED BY <1>1, <1>2, <1>3, <2>1 DEF EndInv, Owned, PoolAtWork
<1>5. CASE ContainerStarts(t)
  <2> DEFINE c == Container(t, "ok")
  <2>1. /\ phase[t] = "starting" /\ up' = up \cup {c}
        /\ handle' = [handle EXCEPT ![t] = c]
        /\ phase' = [phase EXCEPT ![t] = "held"]
        /\ UNCHANGED <<late, dying>>
        /\ pc'[t] \in {"init", "turn"}
        BY <1>1, <1>5 DEF ContainerStarts, RunStarts, Goto
  <2>2. c.task = t /\ c \in Containers
        BY <1>1, ContainerFields, ContainerType
  <2> HIDE DEF c
  <2>3. handle'[t] = c /\ phase'[t] = "held"
        BY <1>1, <2>1 DEF PoolTypeOK
  <2>4. \A u \in Tasks : u # t => handle'[u] = handle[u] /\ phase'[u] = phase[u]
        BY <1>1, <2>1 DEF PoolTypeOK
  <2>5. Owned'
        BY <1>2, <2>1, <2>2, <2>3, <2>4 DEF EndInv, Owned
  <2> QED BY <1>3, <2>1, <2>4, <2>5 DEF EndInv, PoolAtWork
<1>6. CASE StartGoesWrong(t)
  <2>1. pc[t] = "start" /\ pc' = pc
        BY <1>6 DEF StartGoesWrong
  <2>2. CASE RunFails(t) \/ RunTimesOut(t) \/ RunRaises(t)
    <3>1. /\ phase[t] = "starting"
          /\ phase' \in [Tasks -> Phases]
          /\ \A u \in Tasks : u # t => phase'[u] = phase[u]
          /\ UNCHANGED <<handle, up, dying>>
          BY <1>1, <2>2 DEF RunFails, RunTimesOut, RunRaises, Phases
    <3>2. \A c \in late' : c.end # "ok"
          BY <2>2, ContainerFields DEF RunFails, RunTimesOut, RunRaises,
             MayComeLate, EndInv, Owned
    <3> QED BY <1>2, <2>1, <3>1, <3>2 DEF EndInv, Owned, PoolAtWork
  <2>3. CASE RunConflicts(t)
    <3>1. NextName(start[t]) \in Nat
          BY <1>1 DEF NextName, PoolTypeOK
    <3>2. Owned'
          BY <2>3, <3>1, RetryKeepsOwned DEF RunConflicts, EndInv
    <3>3. \A u \in Tasks : u # t => phase'[u] = phase[u]
          BY <1>1, <2>3, <3>1, NextTryType DEF RunConflicts
    <3> QED BY <2>1, <3>2, <3>3 DEF EndInv, PoolAtWork
  <2>4. CASE ClearName(t)
    <3>1. start[t].name \in Nat
          BY <1>1 DEF PoolTypeOK
    <3>2. Owned'
          BY <2>4, <3>1, RetryKeepsOwned DEF ClearName, EndInv
    <3>3. \A u \in Tasks : u # t => phase'[u] = phase[u]
          BY <1>1, <2>4, <3>1, NextTryType DEF ClearName
    <3> QED BY <2>1, <3>2, <3>3 DEF EndInv, PoolAtWork
  <2> QED BY <1>6, <2>2, <2>3, <2>4 DEF StartGoesWrong
<1>7. CASE AcquireRaised(t) \/ EndAttempt(t)
  <2>1. /\ phase[t] \in {"held", "failed"} /\ phase' = [phase EXCEPT ![t] = "idle"]
        /\ handle' = [handle EXCEPT ![t] = NoContainer]
        /\ Remove(t, IF phase[t] = "held" THEN {handle[t]} ELSE {})
        /\ UNCHANGED late
        BY <1>7 DEF AcquireRaised, EndAttempt, ReleaseAll
  <2>2. /\ phase'[t] = "idle"
        /\ \A u \in Tasks : u # t => phase'[u] = phase[u] /\ handle'[u] = handle[u]
        BY <1>1, <2>1 DEF PoolTypeOK
  <2>3. \A c \in up' \ dying' : c.end = "ok" => c \in up \ dying /\ c.task # t
        BY <2>1 DEF Remove, EndInv, Owned
  <2>4. Owned'
        BY <1>2, <2>1, <2>2, <2>3 DEF EndInv, Owned, Remove
  <2> QED BY <1>3, <2>2, <2>4 DEF EndInv, PoolAtWork
<1>8. CASE /\ UNCHANGED poolVars
           /\ pc'[t] \in {"over", "raised", "acquire", "queued"}
                => pc[t] \in {"over", "raised", "acquire", "queued"}
      BY <1>3, <1>8 DEF poolVars, EndInv, Owned, PoolAtWork
<1>9. CASE TaskStarts(t) \/ PatchApplies(t) \/ PatchFails(t) \/ Verify(t)
      BY <1>1, <1>8, <1>9 DEF TaskStarts, PatchApplies, PatchFails, Verify, Goto
<1>10. CASE TurnTaken(t) \/ Submits(t) \/ NoMoreTurns(t) \/ BridgeRaises(t)
      BY <1>1, <1>8, <1>10 DEF TurnTaken, Submits, NoMoreTurns, BridgeRaises,
         Continue, Break, AfterTurns, Goto
<1> QED BY <1>4, <1>5, <1>6, <1>7, <1>9, <1>10 DEF Worker

\* Every step of main keeps its view of the tasks right.
LEMMA MainKeepsEnd ==
    ASSUME TypeInv, EndInv, Main
    PROVE  EndInv'
<1>1. UNCHANGED <<poolVars, pc>>
      BY DEF Main, TakeResult, Raise, ExtendRows, Handoff
<1>2. Owned' /\ PoolAtWork'
      BY <1>1 DEF EndInv, Owned, PoolAtWork, poolVars
<1>3. taken \subseteq Tasks
      BY DEF TypeInv, TypeOK
<1>4. CASE TakeResult
      BY <1>1, <1>2, <1>3, <1>4 DEF TakeResult, EndInv, MainBehind, Serial
<1>5. CASE Raise
      BY <1>1, <1>2, <1>5 DEF Raise, Joined, EndInv, MainBehind, Serial
<1>6. CASE ExtendRows \/ Handoff
      BY <1>1, <1>2, <1>6 DEF ExtendRows, Handoff, EndInv, MainBehind, Serial
<1> QED BY <1>4, <1>5, <1>6 DEF Main

\* When main is over no worker runs.
LEMMA NobodyRuns ==
    ASSUME TypeInv, EndInv, main \in MainOver
    PROVE  \A t \in Tasks : pc[t] \in {"queued"} \cup Ended
<1>1. CASE main # "raised"
      BY <1>1 DEF EndInv, MainBehind, MainOver, Ended
<1>2. CASE main = "raised" /\ Workers # 1
      BY <1>2 DEF EndInv, MainBehind
<1>3. CASE main = "raised" /\ Workers = 1
  <2>1. PICK r \in Tasks : pc[r] = "raised"
        BY <1>3 DEF EndInv, MainBehind
  <2>2. r \notin taken /\ r \in Int
        BY <2>1, TasksNumbered DEF EndInv, MainBehind
  <2>3. ASSUME NEW t \in Tasks PROVE pc[t] \in {"queued"} \cup Ended
    <3>1. t \in Int
          BY TasksNumbered
    <3>2. CASE t < r
          BY <1>3, <2>1, <3>2 DEF EndInv, Serial, MainBehind, Ended
    <3>3. CASE t > r
          BY <1>3, <2>2, <3>3 DEF EndInv, Serial
    <3>4. CASE t = r
          BY <2>1, <3>4 DEF Ended
    <3> QED BY <2>2, <3>1, <3>2, <3>3, <3>4
  <2> QED BY <2>3
<1> QED BY <1>1, <1>2, <1>3

\* Once collecting is over nobody works on, and every container still there
\* is one docker did not answer for.
THEOREM NothingLeft == Spec => []NothingLeftBehind
<1>1. Init => TypeInv /\ EndInv
  <2>1. Init => Owned /\ PoolAtWork /\ MainBehind /\ Serial
        BY DEF Init, PoolInit, Owned, PoolAtWork, MainBehind, Serial
  <2> QED BY <2>1, InitTypes DEF EndInv
<1>2. TypeInv /\ EndInv /\ [Next]_vars => TypeInv' /\ EndInv'
  <2> SUFFICES ASSUME TypeInv, EndInv, [Next]_vars PROVE EndInv'
      BY StepTypes
  <2>1. CASE \E t \in Tasks : Worker(t)
        BY <2>1, WorkerKeepsMain, WorkerKeepsOwned DEF EndInv
  <2>2. CASE Main
        BY <2>2, MainKeepsEnd
  <2>3. CASE DaemonStep
    <3>1. /\ UNCHANGED <<phase, handle, pc, main, taken>>
          /\ late' \subseteq late
          /\ \A c \in up' \ dying' : c \in (up \ dying) \cup late
          BY <2>3 DEF DaemonStep, Daemon, CreatesLate, DropsLate, RemovesLate, mainVars
    <3>2. Owned' /\ PoolAtWork'
          BY <3>1 DEF EndInv, Owned, PoolAtWork
    <3> QED BY <3>1, <3>2 DEF EndInv, MainBehind, Serial
  <2>4. CASE UNCHANGED vars
        BY <2>4 DEF vars, poolVars, mainVars, EndInv, Owned, PoolAtWork,
           MainBehind, Serial
  <2> QED BY <2>1, <2>2, <2>3, <2>4 DEF Next, Finished
<1>3. TypeInv /\ EndInv => NothingLeftBehind
  <2> SUFFICES ASSUME TypeInv, EndInv, main \in MainOver
               PROVE  Running = {} /\ \A c \in up : c.end = "ok" => c \in dying
      BY DEF NothingLeftBehind, TypeInv
  <2>1. \A t \in Tasks : pc[t] \in {"queued"} \cup Ended
        BY NobodyRuns
  <2>2. \A t \in Tasks : phase[t] = "idle"
        BY <2>1 DEF EndInv, PoolAtWork, Ended
  <2>3. \A c \in up : c.task \in Tasks
        BY DEF TypeInv, TypeOK, PoolTypeOK, Containers
  <2> QED BY <2>1, <2>2, <2>3 DEF Running, EndInv, Owned
<1> QED BY <1>1, <1>2, <1>3, PTL DEF Spec

-----------------------------------------------------------------------------
(* The batch is the step *)

\* A task is over when its attempts were made; main takes tasks that are over.
AttemptsMade ==
    /\ \A t \in Tasks : pc[t] = "over" => attempt[t] = Attempts
    /\ \A t \in taken : pc[t] = "over"

\* The rows of a task are its attempts, numbered from none.
RowsNumbered ==
    \A t \in Tasks :
        /\ Len(rows[t]) = attempt[t]
        /\ \A k \in 1..Len(rows[t]) :
              /\ rows[t][k].task = t /\ rows[t][k].attempt = k - 1
              /\ rows[t][k].index
                    = RowStepIndex(StepIndex, t - 1, k - 1, BatchSize, Attempts)

\* The batch holds the attempts of the tasks up to the position, block by
\* block, with consecutive numbers.
BatchOrdered ==
    /\ Len(batch) = position * Attempts
    /\ \A t \in 1..position, k \in 1..Attempts :
          /\ batch[(t - 1) * Attempts + k].task = t
          /\ batch[(t - 1) * Attempts + k].attempt = k - 1
    /\ \A i \in 1..Len(batch) :
          batch[i].index = StepIndex * BatchSize * Attempts + i - 1
    /\ main \in {"returned", "skipped", "refused", "training"} => position = TaskCount

StepInv == AttemptsMade /\ RowsNumbered /\ BatchOrdered

\* Every step of a worker keeps the attempts and their rows in step.
LEMMA WorkerKeepsStep ==
    ASSUME TypeInv, StepInv, NEW t \in Tasks, Worker(t)
    PROVE  StepInv'
<1>1. /\ rows \in [Tasks -> Seq(Row)] /\ attempt \in [Tasks -> 0..Attempts]
      /\ pc \in [Tasks -> {"queued", "acquire", "start", "init", "turn",
                           "verify", "row", "over", "raised"}]
      BY DEF TypeInv, TypeOK
<1>2. UNCHANGED mainVars /\ \A u \in Tasks : u # t => pc'[u] = pc[u]
      BY WorkerMoves
<1>3. pc[t] \notin Ended /\ taken \subseteq Tasks
      BY WorkerMoves DEF TypeInv, TypeOK
<1>4. BatchOrdered' /\ \A u \in taken' : pc'[u] = "over"
      BY <1>2, <1>3 DEF StepInv, AttemptsMade, BatchOrdered, mainVars, Ended
<1>5. CASE UNCHANGED <<attempt, rows>> /\ pc'[t] # "over"
      BY <1>2, <1>4, <1>5 DEF StepInv, AttemptsMade, RowsNumbered
<1>6. CASE TaskStarts(t) \/ AttemptStarts(t) \/ ContainerStarts(t)
           \/ StartGoesWrong(t) \/ AcquireRaised(t)
      BY <1>1, <1>3, <1>5, <1>6 DEF TaskStarts, AttemptStarts, ContainerStarts,
         StartGoesWrong, AcquireRaised, Goto, workVars, Ended
<1>7. CASE PatchApplies(t) \/ PatchFails(t) \/ Verify(t)
      BY <1>1, <1>3, <1>5, <1>7 DEF PatchApplies, PatchFails, Verify, Goto, Ended
<1>8. CASE TurnTaken(t) \/ Submits(t) \/ NoMoreTurns(t) \/ BridgeRaises(t)
      BY <1>1, <1>3, <1>5, <1>8 DEF TurnTaken, Submits, NoMoreTurns,
         BridgeRaises, Continue, Break, AfterTurns, Goto, Ended
<1>9. CASE EndAttempt(t)
  <2>1. /\ rows' = [rows EXCEPT ![t] = Append(@, RowOf(t))]
        /\ attempt' = [attempt EXCEPT ![t] = @ + 1]
        /\ pc'[t] = IF attempt[t] + 1 < Attempts THEN "acquire" ELSE "over"
        BY <1>1, <1>9 DEF EndAttempt, Goto
  <2>2. attempt[t] \in 0..(Attempts - 1) /\ Attempts \in Nat
        BY <1>1, <1>3, Sizes DEF TypeInv, Counts
  <2>3. AttemptsMade'
    <3>1. ASSUME NEW u \in Tasks, pc'[u] = "over" PROVE attempt'[u] = Attempts
      <4>1. CASE u = t
            BY <1>1, <2>1, <2>2, <3>1, <4>1
      <4>2. CASE u # t
            BY <1>1, <1>2, <2>1, <3>1, <4>2 DEF StepInv, AttemptsMade
      <4> QED BY <4>1, <4>2
    <3> QED BY <1>4, <3>1 DEF AttemptsMade
  <2>4. /\ RowOf(t) \in Row /\ RowOf(t).task = t /\ RowOf(t).attempt = attempt[t]
        /\ RowOf(t).index
              = RowStepIndex(StepIndex, t - 1, attempt[t], BatchSize, Attempts)
        BY RowOfType DEF TypeInv, RowOf
  <2> DEFINE r == RowOf(t)
  <2>5. /\ rows[t] \in Seq(Row) /\ Len(rows[t]) = attempt[t]
        /\ rows'[t] = Append(rows[t], r)
        BY <1>1, <2>1 DEF StepInv, RowsNumbered
  <2>6. r \in Row
        BY <2>4
  <2> HIDE DEF r
  <2>7. /\ Len(rows'[t]) = attempt[t] + 1 /\ rows'[t][attempt[t] + 1] = r
        /\ \A k \in 1..attempt[t] : rows'[t][k] = rows[t][k]
        BY <2>2, <2>5, <2>6
  <2>8. ASSUME NEW k \in 1..(attempt[t] + 1)
        PROVE  /\ rows'[t][k].task = t /\ rows'[t][k].attempt = k - 1
               /\ rows'[t][k].index
                     = RowStepIndex(StepIndex, t - 1, k - 1, BatchSize, Attempts)
    <3>1. CASE k = attempt[t] + 1
      <4>1. k - 1 = attempt[t]
            BY <2>2, <3>1
      <4> QED BY <2>4, <2>7, <3>1, <4>1 DEF r
    <3>2. CASE k \in 1..attempt[t]
          BY <2>5, <2>7, <3>2 DEF StepInv, RowsNumbered
    <3> QED BY <2>2, <3>1, <3>2
  <2>9. RowsNumbered'
    <3>1. ASSUME NEW u \in Tasks, u # t
          PROVE  rows'[u] = rows[u] /\ attempt'[u] = attempt[u]
          BY <1>1, <2>1, <3>1
    <3>2. attempt'[t] = attempt[t] + 1
          BY <1>1, <2>1
    <3> DEFINE Numbered(u) ==
                 /\ Len(rows[u]) = attempt[u]
                 /\ \A k \in 1..Len(rows[u]) :
                       /\ rows[u][k].task = u /\ rows[u][k].attempt = k - 1
                       /\ rows[u][k].index
                             = RowStepIndex(StepIndex, u - 1, k - 1, BatchSize, Attempts)
    <3>3. Numbered(t)'
          BY <2>7, <2>8, <3>2
    <3>4. ASSUME NEW u \in Tasks, u # t PROVE Numbered(u)'
      <4>1. Numbered(u)
            BY DEF StepInv, RowsNumbered
      <4> QED BY <3>1, <3>4, <4>1
    <3> QED BY <3>3, <3>4 DEF RowsNumbered
  <2> QED BY <1>4, <2>3, <2>9 DEF StepInv
<1> QED BY <1>6, <1>7, <1>8, <1>9 DEF Worker

\* One more task in the batch is one more block of attempts.
LEMMA OneMoreBlock ==
    ASSUME TypeInv, StepInv, ExtendRows
    PROVE  BatchOrdered'
<1> DEFINE base == StepIndex * BatchSize * Attempts
           n    == position * Attempts
           next == position + 1
<1>1. /\ position \in Nat /\ next \in Tasks /\ next - 1 = position
      /\ position' = next /\ Attempts \in Nat
      BY TasksNumbered, Sizes DEF ExtendRows, TypeInv, TypeOK, Counts
<1>2. base \in Nat /\ n \in Nat /\ next * Attempts = n + Attempts
  <2>1. StepIndex * BatchSize \in Nat
        BY Sizes
  <2> QED BY <1>1, <2>1, Sizes
<1>3. batch \in Seq(Row) /\ rows[next] \in Seq(Row) /\ batch' = batch \o rows[next]
      BY <1>1 DEF ExtendRows, TypeInv, TypeOK
<1>4. next \in taken /\ attempt[next] = Attempts
      BY <1>1 DEF ExtendRows, StepInv, AttemptsMade
<1>5. Len(batch) = n /\ Len(rows[next]) = Attempts
      BY <1>1, <1>4 DEF StepInv, BatchOrdered, RowsNumbered
<1>6. ASSUME NEW k \in 1..Attempts
      PROVE  /\ rows[next][k].task = next /\ rows[next][k].attempt = k - 1
             /\ rows[next][k].index = base + n + (k - 1)
  <2>1. /\ rows[next][k].task = next /\ rows[next][k].attempt = k - 1
        /\ rows[next][k].index
              = RowStepIndex(StepIndex, next - 1, k - 1, BatchSize, Attempts)
        BY <1>1, <1>5 DEF StepInv, RowsNumbered
  <2>2. RowStepIndex(StepIndex, position, k - 1, BatchSize, Attempts) = base + n + (k - 1)
        BY DEF RowStepIndex
  <2> QED BY <1>1, <2>1, <2>2
<1>7. \A t \in 1..position : (t - 1) * Attempts \in Nat /\ (t - 1) * Attempts + Attempts <= n
  <2>1. TAKE t \in 1..position
  <2>2. PICK d \in Nat : position = t + d
    <3>1. position - t \in Nat /\ position = t + (position - t)
          BY <1>1
    <3> QED BY <3>1
  <2>3. t - 1 \in Nat /\ d * Attempts \in Nat
        BY <1>1
  <2>4. n = (t - 1) * Attempts + Attempts + d * Attempts
        BY <1>1, <2>2, <2>3
  <2>5. (t - 1) * Attempts \in Nat
        BY <1>1, <2>3
  <2> QED BY <1>1, <2>3, <2>4, <2>5
<1> HIDE DEF base, n, next
<1>8. /\ Len(batch') = n + Attempts
      /\ \A i \in 1..(n + Attempts) :
            batch'[i] = IF i <= n THEN batch[i] ELSE rows[next][i - n]
      BY <1>1, <1>2, <1>3, <1>5, ConcatProperties
<1>9. ASSUME NEW t \in 1..next, NEW k \in 1..Attempts
      PROVE  /\ batch'[(t - 1) * Attempts + k].task = t
             /\ batch'[(t - 1) * Attempts + k].attempt = k - 1
  <2>1. CASE t = next
    <3>1. (t - 1) * Attempts + k = n + k
          BY <1>1, <2>1 DEF n
    <3>2. n + k \in 1..(n + Attempts) /\ ~(n + k <= n) /\ n + k - n = k
          BY <1>1, <1>2
    <3>3. batch'[n + k] = rows[next][k]
      <4> DEFINE i == n + k
      <4>1. i \in 1..(n + Attempts) /\ ~(i <= n) /\ i - n = k
            BY <1>1, <1>2, <3>2
      <4> HIDE DEF i
      <4>2. batch'[i] = rows[next][k]
            BY <1>8, <4>1
      <4> QED BY <4>2 DEF i
    <3> QED BY <1>6, <2>1, <3>1, <3>3
  <2>2. CASE t \in 1..position
    <3> DEFINE m == (t - 1) * Attempts
    <3>1. m \in Nat /\ m + Attempts <= n
          BY <1>7, <2>2
    <3>2. batch[m + k].task = t /\ batch[m + k].attempt = k - 1
          BY <2>2 DEF StepInv, BatchOrdered
    <3> HIDE DEF m
    <3>3. m + k \in 1..(n + Attempts) /\ m + k <= n
          BY <1>1, <1>2, <3>1
    <3>4. batch'[m + k] = batch[m + k]
          BY <1>8, <3>3
    <3> QED BY <3>2, <3>4 DEF m
  <2>3. t = next \/ t \in 1..position
        BY <1>1 DEF next
  <2> QED BY <2>1, <2>2, <2>3
<1>10. ASSUME NEW i \in 1..(n + Attempts) PROVE batch'[i].index = base + i - 1
  <2>1. CASE i <= n
    <3>1. i \in 1..n /\ batch'[i] = batch[i]
          BY <1>2, <1>8, <2>1
    <3> QED BY <1>5, <3>1 DEF StepInv, BatchOrdered, base
  <2>2. CASE i > n
    <3>1. i - n \in 1..Attempts /\ ~(i <= n)
          BY <1>1, <1>2, <2>2
    <3>2. batch'[i].index = base + n + ((i - n) - 1)
          BY <1>6, <1>8, <3>1
    <3> QED BY <1>2, <3>2
  <2> QED BY <1>2, <2>1, <2>2
<1>11. main' \in {"returned", "skipped", "refused", "training"} => position' = TaskCount
      BY DEF ExtendRows
<1> QED BY <1>1, <1>2, <1>8, <1>9, <1>10, <1>11 DEF BatchOrdered, base

\* Every step of main keeps the batch in order.
LEMMA MainKeepsStep ==
    ASSUME TypeInv, StepInv, Main
    PROVE  StepInv'
<1>1. UNCHANGED <<pc, attempt, rows>> /\ \A t \in taken' \ taken : pc[t] = "over"
      BY DEF Main, TakeResult, Raise, ExtendRows, Handoff, workVars
<1>2. AttemptsMade' /\ RowsNumbered'
      BY <1>1 DEF StepInv, AttemptsMade, RowsNumbered
<1>3. CASE ExtendRows
      BY <1>2, <1>3, OneMoreBlock DEF StepInv
<1>4. CASE TakeResult \/ Raise \/ Handoff
  <2>1. /\ UNCHANGED <<batch, position>>
        /\ main' \in {"returned", "skipped", "refused", "training"}
              => main \in {"returned", "skipped", "refused", "training"}
        BY <1>4 DEF TakeResult, Raise, Handoff
  <2> QED BY <1>2, <2>1 DEF StepInv, BatchOrdered
<1> QED BY <1>3, <1>4 DEF Main

\* The batch that main has when it returns.
LEMMA BatchIsWhole ==
    ASSUME TypeInv, StepInv
    PROVE  BatchIsTheStep
<1> SUFFICES ASSUME main \notin {"waiting", "joining", "raised"}
             PROVE  /\ Len(batch) = TaskCount * Attempts
                    /\ \A t \in Tasks, a \in 0..(Attempts - 1) :
                          \E i \in DOMAIN batch : batch[i].task = t /\ batch[i].attempt = a
                    /\ \A i, j \in DOMAIN batch : i < j => batch[i].index < batch[j].index
                    /\ \A i \in DOMAIN batch :
                          batch[i].index \div (BatchSize * Attempts) = StepIndex
    BY DEF BatchIsTheStep
<1> DEFINE n    == TaskCount * Attempts
           step == BatchSize * Attempts
           base == StepIndex * BatchSize * Attempts
<1>1. position = TaskCount /\ Len(batch) = n
      BY DEF TypeInv, TypeOK, MainOver, StepInv, BatchOrdered
<1>2. DOMAIN batch = 1..n
      BY <1>1 DEF TypeInv, TypeOK
<1>3. /\ n \in Nat /\ step \in Nat /\ step > 0 /\ base \in Nat
      /\ base = StepIndex * step /\ n <= step
  <2>1. TaskCount \in 1..BatchSize
    <3>1. TaskCount \in Tasks
          BY TasksNumbered
    <3> QED BY <3>1, CollectorAssumption
  <2>2. PICK d \in Nat : BatchSize = TaskCount + d
    <3>1. BatchSize - TaskCount \in Nat /\ BatchSize = TaskCount + (BatchSize - TaskCount)
          BY <2>1, Sizes
    <3> QED BY <3>1
  <2>3. n \in Nat /\ d * Attempts \in Nat /\ step = n + d * Attempts
        BY <2>2, TasksNumbered, Sizes
  <2>4. n > 0
        BY TasksNumbered, Sizes
  <2>5. base \in Nat /\ base = StepIndex * step
    <3>1. StepIndex * BatchSize \in Nat
          BY Sizes
    <3> QED BY <3>1, Sizes
  <2> HIDE DEF n, step, base
  <2> QED BY <2>3, <2>4, <2>5
<1>4. ASSUME NEW t \in Tasks, NEW a \in 0..(Attempts - 1)
      PROVE  \E i \in DOMAIN batch : batch[i].task = t /\ batch[i].attempt = a
  <2> DEFINE m == (t - 1) * Attempts
  <2>1. t \in 1..position /\ a + 1 \in 1..Attempts /\ (a + 1) - 1 = a
        BY <1>1, TasksNumbered, Sizes
  <2>2. batch[m + (a + 1)].task = t /\ batch[m + (a + 1)].attempt = a
        BY <2>1 DEF StepInv, BatchOrdered
  <2>3. PICK d \in Nat : TaskCount = t + d
    <3>1. TaskCount - t \in Nat /\ TaskCount = t + (TaskCount - t)
          BY TasksNumbered
    <3> QED BY <3>1
  <2>4. m \in Nat /\ d * Attempts \in Nat /\ n = m + Attempts + d * Attempts
    <3>1. t - 1 \in Nat /\ t \in Nat
          BY TasksNumbered
    <3> QED BY <2>3, <3>1, Sizes
  <2> HIDE DEF m, n
  <2>5. m + (a + 1) \in 1..n
        BY <2>4, Sizes
  <2> QED BY <1>2, <2>2, <2>5
<1>5. \A i \in 1..n : batch[i].index = base + i - 1
      BY <1>1 DEF StepInv, BatchOrdered
<1> HIDE DEF n, step, base
<1>6. \A i, j \in 1..n : i < j => batch[i].index < batch[j].index
      BY <1>3, <1>5
<1>7. ASSUME NEW i \in 1..n PROVE batch[i].index \div step = StepIndex
  <2>1. batch[i].index = StepIndex * step + (i - 1) /\ i - 1 \in 0..(step - 1)
        BY <1>3, <1>5
  <2>2. batch[i].index \in Nat
        BY <1>3, <1>5
  <2>3. StepIndex \in Nat
        BY Sizes
  <2> QED BY <1>3, <2>1, <2>2, <2>3, QuotientOf
<1> QED BY <1>1, <1>2, <1>4, <1>6, <1>7 DEF n, step

\* When collect_step returns, the batch is every attempt of every task once,
\* in the order of the tasks, whatever order the workers ended in.
THEOREM BatchInOrder == Spec => []BatchIsTheStep
<1>1. Init => TypeInv /\ StepInv
  <2>1. Init => AttemptsMade /\ RowsNumbered
        BY DEF Init, AttemptsMade, RowsNumbered
  <2>2. Init => BatchOrdered
        BY Sizes DEF Init, BatchOrdered
  <2> QED BY <2>1, <2>2, InitTypes DEF StepInv
<1>2. TypeInv /\ StepInv /\ [Next]_vars => TypeInv' /\ StepInv'
  <2> SUFFICES ASSUME TypeInv, StepInv, [Next]_vars PROVE StepInv'
      BY StepTypes
  <2>1. CASE \E t \in Tasks : Worker(t)
        BY <2>1, WorkerKeepsStep
  <2>2. CASE Main
        BY <2>2, MainKeepsStep
  <2>3. CASE DaemonStep \/ UNCHANGED vars
    <3>1. UNCHANGED <<pc, workVars, mainVars>>
          BY <2>3 DEF DaemonStep, vars
    <3>2. UNCHANGED <<pc, attempt, rows, main, taken, batch, position, handoff, train>>
          BY <3>1 DEF workVars, mainVars
    <3>3. AttemptsMade'
          BY <3>2, Zenon DEF StepInv, AttemptsMade
    <3>4. RowsNumbered'
          BY <3>2, Zenon DEF StepInv, RowsNumbered
    <3>5. BatchOrdered'
          BY <3>2, Zenon DEF StepInv, BatchOrdered
    <3> QED BY <3>3, <3>4, <3>5, Zenon DEF StepInv
  <2> QED BY <2>1, <2>2, <2>3 DEF Next, Finished
<1>3. TypeInv /\ StepInv => BatchIsTheStep
      BY BatchIsWhole
<1> QED BY <1>1, <1>2, <1>3, PTL DEF Spec

-----------------------------------------------------------------------------
(* The trainer gets whole batches *)

\* Whole batches for every worker, of rows that were kept, none of them more
\* than twice.
WholeBatchesOf(given, kept) ==
    /\ given \in Seq(kept)
    /\ Len(given) > 0
    /\ Len(given) % MinSelectedRows(WorldSize, MicroBatch) = 0
    /\ \A i \in DOMAIN given :
          Cardinality({j \in DOMAIN given : given[j] = given[i]}) <= 2

\* effective_train_batch_size of the rows kept.
SizeFor(kept) ==
    EffectiveTrainBatchSize(RequestedBatch, Cardinality(kept), WorldSize * MicroBatch)

\* The rows kept of a handoff are repeated up to whole batches.
LEMMA KeptRowsFill ==
    ASSUME NEW n \in Nat, NEW kept \in SUBSET (1..n),
           Cardinality(kept) > 0, SizeFor(kept) # 0
    PROVE  WholeBatchesOf(Upsample(Ascending(kept), SizeFor(kept)), kept)
<1> DEFINE listed  == Ascending(kept)
           divisor == WorldSize * MicroBatch
           size    == SizeFor(kept)
           given   == Upsample(listed, size)
<1>1. kept \in SUBSET Int /\ IsFiniteSet(kept)
  <2>1. IsFiniteSet(1..n)
        BY FS_Interval
  <2>2. IsFiniteSet(kept)
        BY <2>1, FS_Subset, Zenon
  <2>3. \A i \in kept : i \in Int
        OBVIOUS
  <2> QED BY <2>2, <2>3
<1>2. /\ listed \in [1..Cardinality(kept) -> kept] /\ Cardinality(kept) \in Nat
      /\ \A k, l \in 1..Cardinality(kept) : k < l => listed[k] < listed[l]
      BY <1>1, AscendingLists
<1>3. listed \in Seq(kept) /\ Len(listed) = Cardinality(kept)
      BY <1>2
<1>4. \A k, l \in 1..Len(listed) : listed[k] = listed[l] => k = l
  <2>1. \A k \in 1..Len(listed) : listed[k] \in Int
        BY <1>1, <1>2, <1>3
  <2> HIDE DEF listed
  <2> QED BY <1>2, <1>3, <2>1
<1>5. divisor \in Nat /\ divisor > 0 /\ RequestedBatch \in Nat
  <2>1. WorldSize \in Nat /\ WorldSize > 0 /\ MicroBatch \in Nat /\ MicroBatch > 0
        BY CollectorAssumption
  <2> QED BY <2>1, CollectorAssumption
<1>6. size \in Nat /\ size > 0 /\ size <= Len(listed) /\ size % divisor = 0
  <2> DEFINE count == Cardinality(kept)
  <2>1. /\ count \in Nat /\ size # 0
        /\ size = EffectiveTrainBatchSize(RequestedBatch, count, divisor)
        BY <1>2 DEF SizeFor
  <2> HIDE DEF count, divisor, size
  <2> DEFINE fits == EffectiveTrainBatchSize(RequestedBatch, count, divisor)
  <2>2. fits \in Nat /\ fits % divisor = 0 /\ fits <= count
        BY <1>5, <2>1, BatchSizeFits
  <2> HIDE DEF fits
  <2>3. size = fits
        BY <2>1 DEF fits
  <2> QED BY <1>3, <2>1, <2>2, <2>3 DEF count
<1>7. Len(listed) > 0
      BY <1>3
<1> HIDE DEF listed, divisor, size
<1>8. given \in Seq(kept) /\ Len(given) >= Len(listed) /\ Len(given) % divisor = 0
      BY <1>3, <1>5, <1>6, <1>7, UpsampleDivides, Zenon
<1>9. ASSUME NEW i \in 1..Len(given)
      PROVE  Cardinality({j \in 1..Len(given) : given[j] = given[i]}) <= 2
  <2>1. i \in 1..Len(Upsample(listed, size))
        OBVIOUS
  <2> HIDE DEF given
  <2>2. Cardinality({j \in 1..Len(Upsample(listed, size)) :
               Upsample(listed, size)[j] = Upsample(listed, size)[i]}) <= 2
        BY <1>3, <1>4, <1>6, <1>7, <2>1, UpsampleAtMostTwice
  <2> QED BY <2>2 DEF given
<1>10. DOMAIN given = 1..Len(given) /\ Len(given) > 0
  <2> HIDE DEF given
  <2> QED BY <1>3, <1>7, <1>8
<1> QED BY <1>8, <1>9, <1>10 DEF listed, divisor, size, MinSelectedRows, WholeBatchesOf

\* The trainer gets whole batches for every worker, from selected rows only,
\* and no row more than twice an epoch, whatever numbers of rows, workers and
\* requested batch.
THEOREM TrainerGetsWholeBatches == Spec => []WholeBatches
<1>1. Init => TypeInv /\ WholeBatches
      BY InitTypes DEF Init, WholeBatches
<1>2. TypeInv /\ WholeBatches /\ [Next]_vars => TypeInv' /\ WholeBatches'
  <2> SUFFICES ASSUME TypeInv, WholeBatches, [Next]_vars PROVE WholeBatches'
      BY StepTypes
  <2>1. CASE UNCHANGED mainVars
        BY <2>1 DEF mainVars, WholeBatches
  <2>2. CASE \E t \in Tasks : Worker(t)
        BY <2>1, <2>2, WorkerMoves
  <2>3. CASE TakeResult \/ Raise \/ ExtendRows
        BY <2>3 DEF TakeResult, Raise, ExtendRows, WholeBatches
  <2>4. CASE Handoff
    <3>1. SUFFICES ASSUME main' = "training" PROVE WholeBatches'
          BY DEF WholeBatches
    <3>2. batch \in Seq(Row) /\ main = "returned"
          BY <2>4 DEF TypeInv, TypeOK, Handoff
    <3>3. PICK kept \in SUBSET handoff' :
             /\ Cardinality(kept) > 0
             /\ SizeFor(kept) # 0
             /\ train' = Upsample(Ascending(kept), SizeFor(kept))
          BY <2>4, <3>1, <3>2 DEF Handoff, SizeFor
    <3>4. handoff' \subseteq DOMAIN batch
          BY <2>4 DEF Handoff, HandoffPositions
    <3>5. kept \in SUBSET (1..Len(batch)) /\ Len(batch) \in Nat
          BY <3>2, <3>4
    <3>6. WholeBatchesOf(train', kept)
          BY <3>3, <3>5, KeptRowsFill
    <3>7. \A i \in DOMAIN train' : train'[i] \in handoff'
          BY <3>3, <3>6 DEF WholeBatchesOf
    <3> QED BY <3>6, <3>7 DEF WholeBatches, WholeBatchesOf
  <2>5. CASE DaemonStep \/ Finished \/ UNCHANGED vars
        BY <2>1, <2>5 DEF DaemonStep, Finished, vars
  <2> QED BY <2>2, <2>3, <2>4, <2>5 DEF Next, Main
<1> QED BY <1>1, <1>2, PTL DEF Spec
=============================================================================
