------------------------- MODULE ProcessGroupsProofs -------------------------
(***************************************************************************)
(* Proofs about the processes of the outer loop, for every number of       *)
(* processes, kills and interrupts: whose server a collection reads from,  *)
(* whose processes are on the GPUs while the trainer runs, and what a loop *)
(* that ends by itself leaves behind.                                      *)
(***************************************************************************)
EXTENDS ProcessGroups, TLAPS

-----------------------------------------------------------------------------
(* The inductive invariant                                                 *)

\* What was not started has no process, and a step that has a model to train
\* has a process left to train it with.
StartedInv ==
    /\ \A g \in Group : kind[g] = "none" => leader[g] = "none" /\ g \notin workers
    /\ (pc = "train" \/ (then = "train" /\ pc \in StopPc \cup {"stop"})) => Unstarted # {}

\* Where the loop may hold a server.
HandleInv ==
    /\ pc \in {"start", "train", "training", "resolve", "terminated", "killed"} => handle = None
    /\ pc \in {"group", "group_term", "group_kill"} =>
          handle = None \/ (handle = target /\ then = "raise")
    /\ pc \in StopPc \cup {"training"} => target # None
    /\ pc \in {"waiting", "collect"} => handle # None
    /\ pc = "idle" => handle = None \/ handle \in cutShort
    /\ pc = "training" => kind[target] = "trainer"

\* A process of this loop that still runs is held, being stopped, or given up.
HeldInv ==
    \A g \in mine : Alive(g) =>
        \/ g \in cutShort
        \/ g = handle
        \/ g = target /\ pc \in StopPc \cup {"training"}

\* Once a server was started, only it and what start could not see may come
\* to answer, and it serves the model the loop asked for.
AnswerInv ==
    pc \in {"waiting", "collect"} \/ (pc = "commit" /\ handle # None) =>
        /\ model[handle] = current
        /\ \A g \in Group : leader[g] \in {"loading", "serving"} =>
              g = handle \/ g \in unseen

GroupInv == TypeOK /\ StartedInv /\ HandleInv /\ HeldInv /\ AnswerInv

\* Groups are numbers, and None is not one.
LEMMA GroupFacts ==
  /\ Group \subseteq Nat
  /\ None \notin Group
  /\ Group \cup {None} = Model
BY BoundsAssumption DEF Group, None, Model

\* A launch takes a group that was not started.
LEMMA NextGroupUnstarted ==
  ASSUME Unstarted # {}
  PROVE  NextGroup \in Unstarted
BY DEF NextGroup

\* A counter below its bound stays within it.
LEMMA CountedOnce ==
  ASSUME NEW n \in Nat, NEW i \in 0 .. n, i < n
  PROVE  i + 1 \in 0 .. n
OBVIOUS

\* A kill changes the state of a leader that was alive only.
LEMMA KillEndsLeader ==
  ASSUME KillGroup
  PROVE  \/ leader' = leader
         \/ LeaderAlive(target) /\ leader' = [leader EXCEPT ![target] = "failed"]
<1>. DEFINE alive == LeaderAlive(target)
<1>1. PICK l \in AfterKill(alive) :
        leader' = IF l = alive THEN leader ELSE [leader EXCEPT ![target] = "failed"]
  BY DEF KillGroup
<1>2. alive \in BOOLEAN
  BY DEF LeaderAlive
<1>3. l = alive \/ alive
  BY <1>2, Zenon DEF AfterKill
<1>. QED
  BY <1>1, <1>3

\* At the start nothing runs.
LEMMA GroupInit ==
  ASSUME Init
  PROVE  GroupInv
<1>. USE DEF Init
<1>1. TypeOK
  BY BoundsAssumption, GroupFacts DEF TypeOK, RunPc, StopPc, LiveLeader, None
<1>2. StartedInv /\ HandleInv /\ HeldInv /\ AnswerInv
  BY DEF StartedInv, HandleInv, HeldInv, AnswerInv, StopPc
<1>. QED
  BY <1>1, <1>2 DEF GroupInv

-----------------------------------------------------------------------------
(* Every step preserves it                                                 *)

\* Types: what an action puts into handle, target and current.
LEMMA TypeNext ==
  ASSUME TypeOK, StartedInv, HandleInv, [Next]_vars
  PROVE  TypeOK'
<1>. USE GroupFacts, BoundsAssumption
         DEF TypeOK, StartedInv, HandleInv, RunPc, StopPc, LiveLeader,
             LeaderAlive, Alive, Unstarted, processes, loop, history
<1>1. CASE Start
  <2>1. CASE StartRefused
    BY <2>1 DEF StartRefused, Raise
  <2>2. CASE Launch
    BY <2>2, NextGroupUnstarted DEF Launch, OwnServerAlive, AddressFree, Answering
  <2>. QED
    BY <1>1, <2>1, <2>2 DEF Start
<1>2. CASE Wait
  <2>1. CASE EndpointReady
    BY <2>1 DEF EndpointReady
  <2>2. CASE OwnServerExited
    BY <2>2 DEF OwnServerExited, CleanUpStart
  <2>3. CASE ReadyTimesOut
    BY <2>3 DEF ReadyTimesOut, CleanUpStart
  <2>. QED
    BY <1>2, <2>1, <2>2, <2>3 DEF Wait
<1>3. CASE StopSteps
  <2>1. CASE StopWithoutProcess
    BY <2>1 DEF StopWithoutProcess, Return
  <2>2. CASE Stop
    BY <2>2 DEF Stop
  <2>3. CASE LeaderExits
    BY <2>3 DEF LeaderExits
  <2>4. CASE TerminateTimesOut
    BY <2>4 DEF TerminateTimesOut, AfterKill
  <2>5. CASE KillTimesOut
    BY <2>5 DEF KillTimesOut, Raise
  <2>6. CASE GroupGone
    BY <2>6 DEF GroupGone, Return, GroupExists
  <2>7. CASE SignalGroup
    BY <2>7 DEF SignalGroup
  <2>8. CASE KillGroup
    BY <2>8 DEF KillGroup, AfterKill, GroupExists
  <2>9. CASE KillGroupTimesOut
    BY <2>9 DEF KillGroupTimesOut, Return, GroupExists
  <2>. QED
    BY <1>3, <2>1, <2>2, <2>3, <2>4, <2>5, <2>6, <2>7, <2>8, <2>9 DEF StopSteps
<1>4. CASE RunSteps
  <2>1. CASE Collect
    BY <2>1 DEF Collect
  <2>2. CASE CollectEndsRun
    BY <2>2 DEF CollectEndsRun, Raise
  <2>3. CASE Train
    BY <2>3, NextGroupUnstarted DEF Train
  <2>4. CASE TrainerExited
    BY <2>4 DEF TrainerExited
  <2>5. CASE Resolve
    BY <2>5, GroupFacts DEF Resolve
  <2>6. CASE ResolveFails
    BY <2>6 DEF ResolveFails, Raise
  <2>7. CASE Commit
    BY <2>7 DEF Commit
  <2>. QED
    BY <1>4, <2>1, <2>2, <2>3, <2>4, <2>5, <2>6, <2>7 DEF RunSteps
<1>5. CASE BeginSession \/ Interrupt \/ KillLoop
  <2>1. CASE BeginSession
    BY <2>1 DEF BeginSession
  <2>2. CASE Interrupt
    BY <2>2, CountedOnce DEF Interrupt, Raise, GivenUp
  <2>3. CASE KillLoop
    BY <2>3, CountedOnce DEF KillLoop
  <2>. QED
    BY <1>5, <2>1, <2>2, <2>3
<1>6. CASE Environment
  <2>1. PICK g \in Group : ServerLoads(g) \/ TrainerEnds(g) \/ LeaderDies(g) \/ WorkersEnd(g)
    BY <1>6 DEF Environment
  <2>. QED
    BY <2>1, ZenonT(40) DEF ServerLoads, TrainerEnds, LeaderDies, WorkersEnd
<1>7. CASE UNCHANGED vars
  BY <1>7 DEF vars
<1>. QED
  BY <1>1, <1>2, <1>3, <1>4, <1>5, <1>6, <1>7 DEF Next

\* Only launches start groups, and each leaves the step that needed one.
LEMMA StartedNext ==
  ASSUME TypeOK, StartedInv, HandleInv, [Next]_vars
  PROVE  StartedInv'
<1>. USE GroupFacts
         DEF TypeOK, StartedInv, HandleInv, RunPc, StopPc, LiveLeader,
             LeaderAlive, Unstarted, processes, loop, history
<1>1. CASE Start
  <2>1. CASE StartRefused
    BY <2>1 DEF StartRefused, Raise
  <2>2. CASE Launch
    BY <2>2, NextGroupUnstarted DEF Launch, OwnServerAlive, AddressFree, Answering
  <2>. QED
    BY <1>1, <2>1, <2>2 DEF Start
<1>2. CASE Wait
  <2>1. CASE EndpointReady
    BY <2>1 DEF EndpointReady
  <2>2. CASE OwnServerExited
    BY <2>2 DEF OwnServerExited, CleanUpStart
  <2>3. CASE ReadyTimesOut
    BY <2>3 DEF ReadyTimesOut, CleanUpStart
  <2>. QED
    BY <1>2, <2>1, <2>2, <2>3 DEF Wait
<1>3. CASE StopSteps
  <2>1. CASE StopWithoutProcess
    BY <2>1 DEF StopWithoutProcess, Return
  <2>2. CASE Stop
    BY <2>2 DEF Stop
  <2>3. CASE LeaderExits
    BY <2>3 DEF LeaderExits
  <2>4. CASE TerminateTimesOut
    BY <2>4 DEF TerminateTimesOut, AfterKill
  <2>5. CASE KillTimesOut
    BY <2>5 DEF KillTimesOut, Raise
  <2>6. CASE GroupGone
    BY <2>6 DEF GroupGone, Return, GroupExists
  <2>7. CASE SignalGroup
    BY <2>7 DEF SignalGroup
  <2>8. CASE KillGroup
    <3>1. \/ leader' = leader
          \/ LeaderAlive(target) /\ leader' = [leader EXCEPT ![target] = "failed"]
      BY <2>8, KillEndsLeader
    <3>. QED
      BY <2>8, <3>1 DEF KillGroup
  <2>9. CASE KillGroupTimesOut
    BY <2>9 DEF KillGroupTimesOut, Return, GroupExists
  <2>. QED
    BY <1>3, <2>1, <2>2, <2>3, <2>4, <2>5, <2>6, <2>7, <2>8, <2>9 DEF StopSteps
<1>4. CASE RunSteps
  <2>1. CASE Collect
    BY <2>1 DEF Collect
  <2>2. CASE CollectEndsRun
    BY <2>2 DEF CollectEndsRun, Raise
  <2>3. CASE Train
    BY <2>3, NextGroupUnstarted DEF Train
  <2>4. CASE TrainerExited
    BY <2>4 DEF TrainerExited
  <2>5. CASE Resolve
    BY <2>5 DEF Resolve
  <2>6. CASE ResolveFails
    BY <2>6 DEF ResolveFails, Raise
  <2>7. CASE Commit
    BY <2>7 DEF Commit
  <2>. QED
    BY <1>4, <2>1, <2>2, <2>3, <2>4, <2>5, <2>6, <2>7 DEF RunSteps
<1>5. CASE BeginSession \/ Interrupt \/ KillLoop
  <2>1. CASE BeginSession
    BY <2>1 DEF BeginSession
  <2>2. CASE Interrupt
    BY <2>2 DEF Interrupt, Raise, GivenUp
  <2>3. CASE KillLoop
    BY <2>3 DEF KillLoop
  <2>. QED
    BY <1>5, <2>1, <2>2, <2>3
<1>6. CASE Environment
  <2>1. PICK g \in Group : ServerLoads(g) \/ TrainerEnds(g) \/ LeaderDies(g) \/ WorkersEnd(g)
    BY <1>6 DEF Environment
  <2>. QED
    BY <2>1 DEF ServerLoads, TrainerEnds, LeaderDies, WorkersEnd
<1>7. CASE UNCHANGED vars
  BY <1>7 DEF vars
<1>. QED
  BY <1>1, <1>2, <1>3, <1>4, <1>5, <1>6, <1>7 DEF Next

\* stop clears the handle first, start clears it last.
LEMMA HandleNext ==
  ASSUME TypeOK, StartedInv, HandleInv, [Next]_vars
  PROVE  HandleInv'
<1>. USE GroupFacts
         DEF TypeOK, StartedInv, HandleInv, RunPc, StopPc, LiveLeader,
             LeaderAlive, Unstarted, processes, loop, history
<1>1. CASE Start
  <2>1. CASE StartRefused
    BY <2>1 DEF StartRefused, Raise
  <2>2. CASE Launch
    BY <2>2, NextGroupUnstarted DEF Launch, OwnServerAlive, AddressFree, Answering
  <2>. QED
    BY <1>1, <2>1, <2>2 DEF Start
<1>2. CASE Wait
  <2>1. CASE EndpointReady
    BY <2>1 DEF EndpointReady
  <2>2. CASE OwnServerExited
    BY <2>2 DEF OwnServerExited, CleanUpStart
  <2>3. CASE ReadyTimesOut
    BY <2>3 DEF ReadyTimesOut, CleanUpStart
  <2>. QED
    BY <1>2, <2>1, <2>2, <2>3 DEF Wait
<1>3. CASE StopSteps
  <2>1. CASE StopWithoutProcess
    BY <2>1 DEF StopWithoutProcess, Return
  <2>2. CASE Stop
    BY <2>2 DEF Stop
  <2>3. CASE LeaderExits
    BY <2>3 DEF LeaderExits
  <2>4. CASE TerminateTimesOut
    BY <2>4 DEF TerminateTimesOut, AfterKill
  <2>5. CASE KillTimesOut
    BY <2>5 DEF KillTimesOut, Raise
  <2>6. CASE GroupGone
    BY <2>6 DEF GroupGone, Return, GroupExists
  <2>7. CASE SignalGroup
    BY <2>7 DEF SignalGroup
  <2>8. CASE KillGroup
    BY <2>8 DEF KillGroup, AfterKill, GroupExists
  <2>9. CASE KillGroupTimesOut
    BY <2>9 DEF KillGroupTimesOut, Return, GroupExists
  <2>. QED
    BY <1>3, <2>1, <2>2, <2>3, <2>4, <2>5, <2>6, <2>7, <2>8, <2>9 DEF StopSteps
<1>4. CASE RunSteps
  <2>1. CASE Collect
    BY <2>1 DEF Collect
  <2>2. CASE CollectEndsRun
    BY <2>2 DEF CollectEndsRun, Raise
  <2>3. CASE Train
    BY <2>3, NextGroupUnstarted DEF Train
  <2>4. CASE TrainerExited
    BY <2>4 DEF TrainerExited
  <2>5. CASE Resolve
    BY <2>5 DEF Resolve
  <2>6. CASE ResolveFails
    BY <2>6 DEF ResolveFails, Raise
  <2>7. CASE Commit
    BY <2>7 DEF Commit
  <2>. QED
    BY <1>4, <2>1, <2>2, <2>3, <2>4, <2>5, <2>6, <2>7 DEF RunSteps
<1>5. CASE BeginSession \/ Interrupt \/ KillLoop
  <2>1. CASE BeginSession
    BY <2>1 DEF BeginSession
  <2>2. CASE Interrupt
    BY <2>2 DEF Interrupt, Raise, GivenUp
  <2>3. CASE KillLoop
    BY <2>3 DEF KillLoop
  <2>. QED
    BY <1>5, <2>1, <2>2, <2>3
<1>6. CASE Environment
  <2>1. PICK g \in Group : ServerLoads(g) \/ TrainerEnds(g) \/ LeaderDies(g) \/ WorkersEnd(g)
    BY <1>6 DEF Environment
  <2>. QED
    BY <2>1 DEF ServerLoads, TrainerEnds, LeaderDies, WorkersEnd
<1>7. CASE UNCHANGED vars
  BY <1>7 DEF vars
<1>. QED
  BY <1>1, <1>2, <1>3, <1>4, <1>5, <1>6, <1>7 DEF Next

\* A group leaves the loop's hands gone or on record.
LEMMA HeldNext ==
  ASSUME TypeOK, StartedInv, HandleInv, HeldInv, [Next]_vars
  PROVE  HeldInv'
<1>. USE GroupFacts
         DEF TypeOK, StartedInv, HandleInv, HeldInv, RunPc, StopPc,
             LiveLeader, LeaderAlive, Alive, Unstarted, processes, loop,
             history
<1>1. CASE Start
  <2>1. CASE StartRefused
    BY <2>1 DEF StartRefused, Raise
  <2>2. CASE Launch
    BY <2>2, NextGroupUnstarted DEF Launch, OwnServerAlive, AddressFree, Answering
  <2>. QED
    BY <1>1, <2>1, <2>2 DEF Start
<1>2. CASE Wait
  <2>1. CASE EndpointReady
    BY <2>1 DEF EndpointReady
  <2>2. CASE OwnServerExited
    BY <2>2 DEF OwnServerExited, CleanUpStart
  <2>3. CASE ReadyTimesOut
    BY <2>3 DEF ReadyTimesOut, CleanUpStart
  <2>. QED
    BY <1>2, <2>1, <2>2, <2>3 DEF Wait
<1>3. CASE StopSteps
  <2>1. CASE StopWithoutProcess
    BY <2>1 DEF StopWithoutProcess, Return
  <2>2. CASE Stop
    BY <2>2 DEF Stop
  <2>3. CASE LeaderExits
    BY <2>3 DEF LeaderExits
  <2>4. CASE TerminateTimesOut
    BY <2>4 DEF TerminateTimesOut, AfterKill
  <2>5. CASE KillTimesOut
    BY <2>5 DEF KillTimesOut, Raise
  <2>6. CASE GroupGone
    BY <2>6 DEF GroupGone, Return, GroupExists
  <2>7. CASE SignalGroup
    BY <2>7 DEF SignalGroup
  <2>8. CASE KillGroup
    BY <2>8 DEF KillGroup, AfterKill, GroupExists
  <2>9. CASE KillGroupTimesOut
    BY <2>9 DEF KillGroupTimesOut, Return, GroupExists
  <2>. QED
    BY <1>3, <2>1, <2>2, <2>3, <2>4, <2>5, <2>6, <2>7, <2>8, <2>9 DEF StopSteps
<1>4. CASE RunSteps
  <2>1. CASE Collect
    BY <2>1 DEF Collect
  <2>2. CASE CollectEndsRun
    BY <2>2 DEF CollectEndsRun, Raise
  <2>3. CASE Train
    BY <2>3, NextGroupUnstarted DEF Train
  <2>4. CASE TrainerExited
    BY <2>4 DEF TrainerExited
  <2>5. CASE Resolve
    BY <2>5 DEF Resolve
  <2>6. CASE ResolveFails
    BY <2>6 DEF ResolveFails, Raise
  <2>7. CASE Commit
    BY <2>7 DEF Commit
  <2>. QED
    BY <1>4, <2>1, <2>2, <2>3, <2>4, <2>5, <2>6, <2>7 DEF RunSteps
<1>5. CASE BeginSession \/ Interrupt \/ KillLoop
  <2>1. CASE BeginSession
    BY <2>1 DEF BeginSession
  <2>2. CASE Interrupt
    BY <2>2 DEF Interrupt, Raise, GivenUp
  <2>3. CASE KillLoop
    BY <2>3 DEF KillLoop
  <2>. QED
    BY <1>5, <2>1, <2>2, <2>3
<1>6. CASE Environment
  <2>1. PICK g \in Group : ServerLoads(g) \/ TrainerEnds(g) \/ LeaderDies(g) \/ WorkersEnd(g)
    BY <1>6 DEF Environment
  <2>. QED
    BY <2>1 DEF ServerLoads, TrainerEnds, LeaderDies, WorkersEnd
<1>7. CASE UNCHANGED vars
  BY <1>7 DEF vars
<1>. QED
  BY <1>1, <1>2, <1>3, <1>4, <1>5, <1>6, <1>7 DEF Next

\* Servers start in Launch only, which looks at who is loading.
LEMMA AnswerNext ==
  ASSUME TypeOK, StartedInv, HandleInv, AnswerInv, [Next]_vars
  PROVE  AnswerInv'
<1>. USE GroupFacts
         DEF TypeOK, StartedInv, HandleInv, AnswerInv, RunPc, StopPc,
             LiveLeader, LeaderAlive, Unstarted, processes, loop, history
<1>1. CASE Start
  <2>1. CASE StartRefused
    BY <2>1 DEF StartRefused, Raise
  <2>2. CASE Launch
    BY <2>2, NextGroupUnstarted DEF Launch, OwnServerAlive, AddressFree, Answering
  <2>. QED
    BY <1>1, <2>1, <2>2 DEF Start
<1>2. CASE Wait
  <2>1. CASE EndpointReady
    BY <2>1 DEF EndpointReady
  <2>2. CASE OwnServerExited
    BY <2>2 DEF OwnServerExited, CleanUpStart
  <2>3. CASE ReadyTimesOut
    BY <2>3 DEF ReadyTimesOut, CleanUpStart
  <2>. QED
    BY <1>2, <2>1, <2>2, <2>3 DEF Wait
<1>3. CASE StopSteps
  <2>1. CASE StopWithoutProcess
    BY <2>1 DEF StopWithoutProcess, Return
  <2>2. CASE Stop
    BY <2>2 DEF Stop
  <2>3. CASE LeaderExits
    BY <2>3 DEF LeaderExits
  <2>4. CASE TerminateTimesOut
    BY <2>4 DEF TerminateTimesOut, AfterKill
  <2>5. CASE KillTimesOut
    BY <2>5 DEF KillTimesOut, Raise
  <2>6. CASE GroupGone
    BY <2>6 DEF GroupGone, Return, GroupExists
  <2>7. CASE SignalGroup
    BY <2>7 DEF SignalGroup
  <2>8. CASE KillGroup
    BY <2>8 DEF KillGroup, AfterKill, GroupExists
  <2>9. CASE KillGroupTimesOut
    BY <2>9 DEF KillGroupTimesOut, Return, GroupExists
  <2>. QED
    BY <1>3, <2>1, <2>2, <2>3, <2>4, <2>5, <2>6, <2>7, <2>8, <2>9 DEF StopSteps
<1>4. CASE RunSteps
  <2>1. CASE Collect
    BY <2>1 DEF Collect
  <2>2. CASE CollectEndsRun
    BY <2>2 DEF CollectEndsRun, Raise
  <2>3. CASE Train
    BY <2>3, NextGroupUnstarted DEF Train
  <2>4. CASE TrainerExited
    BY <2>4 DEF TrainerExited
  <2>5. CASE Resolve
    BY <2>5 DEF Resolve
  <2>6. CASE ResolveFails
    BY <2>6 DEF ResolveFails, Raise
  <2>7. CASE Commit
    BY <2>7 DEF Commit
  <2>. QED
    BY <1>4, <2>1, <2>2, <2>3, <2>4, <2>5, <2>6, <2>7 DEF RunSteps
<1>5. CASE BeginSession \/ Interrupt \/ KillLoop
  <2>1. CASE BeginSession
    BY <2>1 DEF BeginSession
  <2>2. CASE Interrupt
    BY <2>2 DEF Interrupt, Raise, GivenUp
  <2>3. CASE KillLoop
    BY <2>3 DEF KillLoop
  <2>. QED
    BY <1>5, <2>1, <2>2, <2>3
<1>6. CASE Environment
  <2>1. PICK g \in Group : ServerLoads(g) \/ TrainerEnds(g) \/ LeaderDies(g) \/ WorkersEnd(g)
    BY <1>6 DEF Environment
  <2>. QED
    BY <2>1 DEF ServerLoads, TrainerEnds, LeaderDies, WorkersEnd
<1>7. CASE UNCHANGED vars
  BY <1>7 DEF vars
<1>. QED
  BY <1>1, <1>2, <1>3, <1>4, <1>5, <1>6, <1>7 DEF Next

-----------------------------------------------------------------------------
(* The theorems                                                            *)

\* What the loop holds, stops or gives up accounts for every process it has
\* started, and who may answer is known, for any kills and interrupts.
THEOREM GroupInvariant == Spec => []GroupInv
<1>1. Init => GroupInv
  BY GroupInit
<1>2. GroupInv /\ [Next]_vars => GroupInv'
  BY TypeNext, StartedNext, HandleNext, HeldNext, AnswerNext DEF GroupInv
<1>. QED
  BY <1>1, <1>2, PTL DEF Spec

\* A collection reads from the loop's own server with the model it asked for,
\* or from an orphan that was loading when start looked at the address.
THEOREM CollectsFromItsOwn == Spec => []CollectsFromItsModel
<1>1. GroupInv => CollectsFromItsModel
  BY DEF GroupInv, AnswerInv, CollectsFromItsModel, Answering
<1>. QED
  BY <1>1, GroupInvariant, PTL

\* While the trainer runs, no process of a server this loop started is left,
\* unless its stop was cut short.
THEOREM TrainerAlone == Spec => []TrainerHasTheGpus
<1>1. GroupInv => TrainerHasTheGpus
  <2>. SUFFICES ASSUME GroupInv, pc \in {"train", "training"},
                       NEW g \in mine, kind[g] = "server", Alive(g)
                PROVE  g \in cutShort
    BY DEF TrainerHasTheGpus
  <2>1. g # None /\ handle = None
    BY GroupFacts DEF GroupInv, TypeOK, HandleInv
  <2>2. ~(g = target /\ pc \in StopPc \cup {"training"})
    BY DEF GroupInv, HandleInv, StopPc
  <2>. QED
    BY <2>1, <2>2 DEF GroupInv, HeldInv
<1>. QED
  BY <1>1, GroupInvariant, PTL

\* A loop that has ended leaves only processes whose cleanup was cut short.
THEOREM NothingOutlives == Spec => []NothingOutlivesTheLoop
<1>1. GroupInv => NothingOutlivesTheLoop
  BY GroupFacts DEF GroupInv, TypeOK, HandleInv, HeldInv, StopPc, NothingOutlivesTheLoop
<1>. QED
  BY <1>1, GroupInvariant, PTL
=============================================================================
