------------------------ MODULE RftRuntimeLoopProofs ------------------------
(***************************************************************************)
(* Proofs about the outer RFT loop for every number of steps, every set of *)
(* sessions and any number of crashes and lost manifests: what a step      *)
(* commits and a session resumes; what the loop records and retains, the   *)
(* manifest beside the summaries, the convergence curve, the trees and     *)
(* payloads on disk; and the hand-over of a checkpoint to SDPO, which      *)
(* rests on the loop's own invariant.                                      *)
(***************************************************************************)
EXTENDS SdpoLaunch, FiniteSetTheorems, TLAPS

-----------------------------------------------------------------------------
(* The inductive invariant *)

\* Before the first step of a session.
StartPc == {"launch", "launching"}

\* The steps of the loop at which the current step may hold a checkpoint.
HasCheckpoint == pc \in TrainedPc \cup RecordPc /\ pendingIndex = stepIndex

\* The process agrees with the disk on what is committed, and works on a
\* later step.
CommitInv ==
    /\ pc \in RunPc => committed = commitPointer.step
    /\ pc \in StartPc \cup StepPc => stepIndex > committed
    /\ pc \in TrainedPc \cup {"pointer"} => pendingIndex = stepIndex

\* No checkpoint directory in the prune list is later than the commit, the
\* one just trained excepted; that one is complete.
PruneListInv ==
    /\ pc \in RunPc => \A d \in ckptStepDirs : d <= committed \/ (HasCheckpoint /\ d = stepIndex)
    /\ HasCheckpoint => tree[stepIndex] = "full"

\* What answers to a loop that has started a server is that server, with the
\* loop's current model, or took the address after the look at it.  The
\* current model is the committed one until the step has trained.
ServerInv ==
    /\ pc \in IdlePc \cup {"launch", "train", "training", "restart", "final"} =>
          handle = "none"
    /\ pc \in WaitPc \cup {"reset", "resetting", "collect"} => handle # "none"
    /\ pc \in {"prune"} \cup RecordPc /\ stepIndex + 1 < session.limit => handle # "none"
    /\ handle = "serving" => endpoint = currentModel
    /\ unseen <=> endpoint # NoServer /\ handle \notin {"none", "serving"}
    /\ pc \in RunPc => currentModel = IF HasCheckpoint THEN stepIndex ELSE committed

-----------------------------------------------------------------------------
(* Type correctness *)

\* The session a stopped process is given is one of the sessions.
LEMMA DefaultSessionType == DefaultSession \in Session
<1>1. PICK l \in Limits, k \in KeepLasts, g \in Stages, p \in EvalPools : TRUE
  BY SessionAssumption
<1>2. [limit |-> l, keep |-> k, stage |-> g, pool |-> p] \in Session
  BY <1>1 DEF Session
<1>. QED
  BY <1>2 DEF DefaultSession

\* A process that ends leaves memory of the right type.
LEMMA ForgetType ==
  ASSUME Forget
  PROVE  /\ session' \in Session /\ stepIndex' \in Step
         /\ committed' \in Model /\ pendingIndex' \in Model /\ currentModel' \in Model
         /\ ckptStepDirs' \subseteq Step /\ steps' \subseteq Entry
BY DefaultSessionType, StepsAssumption DEF Forget, Step, Model, NoStep

\* What the loader returns is a set of step entries.
LEMMA LoadedStepsType ==
  ASSUME TypeOK
  PROVE  LoadedSteps \subseteq Entry /\ LoadedPool \in EvalPools \cup {None}
BY DEF TypeOK, LoadedSteps, LoadedPool

\* The step after the commit is a step when the session asks for it.
LEMMA NextStepType ==
  ASSUME NEW i \in Model, NEW s \in Session, i + 1 < s.limit
  PROVE  i + 1 \in Step
<1>1. s.limit \in 1 .. RftSteps
  BY StepsAssumption DEF Session
<1>2. i \in Int /\ i >= -1
  BY StepsAssumption DEF Model, Step, NoStep
<1>. QED
  BY <1>1, <1>2, StepsAssumption DEF Step

\* The entry recorded for a step is an entry.
LEMMA StepEntryType == TypeOK => StepEntry \in Entry
BY DEF TypeOK, StepEntry, TrainedThisStep, Entry, Session

LEMMA TypeInit == Init => TypeOK
<1>. SUFFICES ASSUME Init PROVE TypeOK
  OBVIOUS
<1>1. 0 \in Step
  BY StepsAssumption DEF Step
<1>. QED
  BY <1>1, DefaultSessionType DEF Init, TypeOK, Model, NoStep, NoServer, None, IdlePc

LEMMA TypeStart == TypeOK /\ StartSession => TypeOK'
<1>. SUFFICES ASSUME TypeOK, NEW s \in Session,
                     Refuse(s) \/ NothingLeft(s) \/ Begin(s)
              PROVE  TypeOK'
  BY DEF StartSession
<1>1. CASE Refuse(s)
  BY <1>1 DEF Refuse, TypeOK, disk, memory, server, IdlePc
<1>2. CASE NothingLeft(s)
  BY <1>2, LoadedStepsType DEF NothingLeft, TypeOK, memory, server, IdlePc
<1>3. CASE Begin(s)
  <2>1. commitPointer.step \in Model /\ stepIndex' \in Step
    BY <1>3, NextStepType DEF Begin, FirstStep, TypeOK
  <2>2. ckptStepDirs' \subseteq Step /\ steps' \subseteq Entry
    BY <1>3, LoadedStepsType DEF Begin, FirstStep, ExistingCheckpointDirs
  <2>. QED
    BY <1>3, <2>1, <2>2 DEF Begin, FirstStep, TypeOK, disk, server, RunPc
<1>. QED
  BY <1>1, <1>2, <1>3

LEMMA TypeLoop == TypeOK /\ LoopStep => TypeOK'
<1>. SUFFICES ASSUME TypeOK, LoopStep PROVE TypeOK'
  OBVIOUS
<1>. USE DEF disk, memory, server, RunPc, StepPc, TrainedPc, RecordPc, StartPc
<1>1. CASE LaunchServer
  BY <1>1 DEF LaunchServer, Popen, TypeOK
<1>2. CASE AddressOccupied
  BY <1>2, ForgetType DEF AddressOccupied, TypeOK, IdlePc
<1>3. CASE ResetBegin
  BY <1>3 DEF ResetBegin, TypeOK
<1>4. CASE ResetEnd
  BY <1>4 DEF ResetEnd, TypeOK
<1>5. CASE Collect
  BY <1>5 DEF Collect, TypeOK
<1>6. CASE StopForTraining
  BY <1>6 DEF StopForTraining, StopServer, TypeOK
<1>7. CASE TrainBegin
  BY <1>7 DEF TrainBegin, TypeOK
<1>8. CASE TrainEnd
  BY <1>8 DEF TrainEnd, TypeOK, Model
<1>9. CASE RestartServer
  BY <1>9 DEF RestartServer, Popen, TypeOK
<1>10. CASE PruneTree
  BY <1>10 DEF PruneTree, TypeOK
<1>11. CASE PruneDone
  BY <1>11 DEF PruneDone, TypeOK
<1>12. CASE PrunePayloads
  BY <1>12 DEF PrunePayloads, TypeOK
<1>13. CASE WriteSummary
  BY <1>13, StepEntryType DEF WriteSummary, TypeOK
<1>14. CASE WriteManifest
  <2>1. stepIndex' \in Step /\ pc' \in RunPc
    BY <1>14, NextStepType DEF WriteManifest, Advance, TypeOK, Model
  <2>. QED
    BY <1>14, <2>1 DEF WriteManifest, TypeOK, Session
<1>15. CASE WritePointer
  <2>1. stepIndex' \in Step /\ pc' \in RunPc
    BY <1>15, NextStepType DEF WritePointer, Advance, TypeOK, Model
  <2>. QED
    BY <1>15, <2>1 DEF WritePointer, TypeOK, Session, Model
<1>16. CASE Finish
  BY <1>16 DEF Finish, StopServer, TypeOK
<1>17. CASE FinalManifest
  BY <1>17, ForgetType DEF FinalManifest, TypeOK, Session, IdlePc
<1>18. CASE ServerReady
  BY <1>18 DEF ServerReady, WaitPc, TypeOK
<1>19. CASE LaunchFails
  BY <1>19, ForgetType DEF LaunchFails, StopServer, TypeOK, IdlePc
<1>. QED
  BY <1>1, <1>2, <1>3, <1>4, <1>5, <1>6, <1>7, <1>8, <1>9, <1>10, <1>11,
     <1>12, <1>13, <1>14, <1>15, <1>16, <1>17, <1>18, <1>19 DEF LoopStep

LEMMA TypeFault == TypeOK /\ (Fault \/ ServerLoads \/ Orphans) => TypeOK'
<1>. SUFFICES ASSUME TypeOK, Fault \/ ServerLoads \/ Orphans PROVE TypeOK'
  OBVIOUS
<1>. USE DEF disk, memory, server, IdlePc
<1>1. CASE Abort
  BY <1>1, ForgetType DEF Abort, StopServer, TypeOK
<1>2. CASE Crash
  BY <1>2, ForgetType DEF Crash, TypeOK
<1>3. CASE ServerDies
  BY <1>3 DEF ServerDies, TypeOK
<1>4. CASE Orphans
  BY <1>4 DEF Orphans, KillOrphan, OrphanLoads, OrphanExits, OrphanLeaves, TypeOK
<1>5. CASE LoseManifest
  BY <1>5 DEF LoseManifest, TypeOK
<1>6. CASE ServerLoads
  BY <1>6 DEF ServerLoads, TypeOK
<1>. QED
  BY <1>1, <1>2, <1>3, <1>4, <1>5, <1>6 DEF Fault

\* Every reachable state of the loop is well typed, for every number of
\* steps and every set of sessions.
THEOREM TypeCorrect == Spec => []TypeOK
<1>1. TypeOK /\ UNCHANGED vars => TypeOK'
  BY DEF TypeOK, vars, disk, memory, server
<1>2. TypeOK /\ [Next]_vars => TypeOK'
  BY <1>1, TypeStart, TypeLoop, TypeFault DEF Next
<1>. QED
  BY TypeInit, <1>2, PTL DEF Spec

-----------------------------------------------------------------------------
(* The inductive invariant holds in every reachable state *)

LoopInv == CommitInv /\ PruneListInv /\ ServerInv

LEMMA InvInit == Init => LoopInv
BY DEF Init, LoopInv, CommitInv, PruneListInv, ServerInv, HasCheckpoint,
       RunPc, StepPc, TrainedPc, RecordPc, StartPc, WaitPc, IdlePc

\* Where the process is, in terms of plain strings.
LEMMA IdleIsNotRunning ==
  ASSUME pc \in IdlePc
  PROVE  pc \notin RunPc /\ ~HasCheckpoint
BY DEF IdlePc, RunPc, StepPc, TrainedPc, RecordPc, StartPc, WaitPc, HasCheckpoint

\* What servers do by themselves changes neither the disk nor the process.
LEMMA ServersApart ==
  ASSUME ServerLoads \/ Orphans
  PROVE  UNCHANGED <<disk, pc, memory>>
BY DEF ServerLoads, Orphans, KillOrphan, OrphanLoads, OrphanExits

\* A stopped process without a server satisfies the invariant.
LEMMA InvStopped ==
  ASSUME pc' \in IdlePc, handle' = "none", ~unseen'
  PROVE  LoopInv'
BY DEF LoopInv, CommitInv, PruneListInv, ServerInv, HasCheckpoint,
       RunPc, StepPc, TrainedPc, RecordPc, StartPc, WaitPc, IdlePc

LEMMA InvStart == TypeOK /\ LoopInv /\ StartSession => LoopInv'
<1>. SUFFICES ASSUME TypeOK, LoopInv, NEW s \in Session,
                     Refuse(s) \/ NothingLeft(s) \/ Begin(s)
              PROVE  LoopInv'
  BY DEF StartSession
<1>1. handle = "none" /\ ~unseen
  BY DEF LoopInv, ServerInv, Refuse, NothingLeft, Begin
<1>2. CASE Refuse(s)
  BY <1>1, <1>2, InvStopped DEF Refuse, server, IdlePc, TypeOK
<1>3. CASE NothingLeft(s)
  BY <1>1, <1>3, InvStopped DEF NothingLeft, server, IdlePc, TypeOK
<1>4. CASE Begin(s)
  <2>1. commitPointer.step \in Int
    BY StepsAssumption DEF TypeOK, Model, Step, NoStep
  <2>2. /\ pc' = "launch" /\ commitPointer' = commitPointer
        /\ committed' = commitPointer.step /\ currentModel' = commitPointer.step
        /\ stepIndex' = commitPointer.step + 1
        /\ handle' = "none" /\ ~unseen'
        /\ \A d \in ckptStepDirs' : d <= commitPointer.step
    BY <1>1, <1>4 DEF Begin, FirstStep, disk, server, ExistingCheckpointDirs, TypeOK
  <2>. QED
    BY <2>1, <2>2 DEF LoopInv, CommitInv, PruneListInv, ServerInv, HasCheckpoint,
                      RunPc, StepPc, TrainedPc, RecordPc, StartPc, WaitPc, IdlePc
<1>. QED
  BY <1>2, <1>3, <1>4

\* The indices of the loop are integers.
LEMMA IntegerState ==
  ASSUME TypeOK
  PROVE  /\ stepIndex \in Int /\ committed \in Int /\ commitPointer.step \in Int
         /\ session.limit \in Int /\ session.keep \in Nat /\ ckptStepDirs \subseteq Int
<1>1. Step \subseteq Int /\ Model \subseteq Int
  BY StepsAssumption DEF Step, Model, NoStep
<1>2. session.limit \in Limits /\ session.keep \in KeepLasts
  BY DEF TypeOK, Session
<1>a. \A l \in Limits : l \in 1 .. RftSteps
  BY StepsAssumption
<1>b. \A k \in KeepLasts : k \in Nat
  BY KeepAssumption
<1>c. \A l \in 1 .. RftSteps : l \in Int
  BY StepsAssumption
<1>3. session.limit \in Int /\ session.keep \in Nat
  BY <1>2, <1>a, <1>b, <1>c
<1>4. stepIndex \in Step /\ committed \in Model /\ ckptStepDirs \subseteq Step
  BY DEF TypeOK
<1>5. commitPointer.step \in Model
  BY DEF TypeOK
<1>. QED
  BY <1>1, <1>3, <1>4, <1>5

LEMMA InvLoop == TypeOK /\ LoopInv /\ LoopStep => LoopInv'
<1>. SUFFICES ASSUME TypeOK, LoopInv, LoopStep PROVE LoopInv'
  OBVIOUS
<1>. USE DEF disk, memory, server
<1>0. stepIndex \in Int /\ committed \in Int /\ session.limit \in Int /\ ckptStepDirs \subseteq Int
  BY IntegerState
<1>. USE DEF LoopInv, CommitInv, PruneListInv, ServerInv, HasCheckpoint,
             RunPc, StepPc, TrainedPc, RecordPc, StartPc, WaitPc, IdlePc
<1>1. CASE LaunchServer
  BY <1>0, <1>1 DEF LaunchServer, Popen, AddressFree
<1>2. CASE AddressOccupied
  BY <1>2 DEF AddressOccupied, TypeOK
<1>3. CASE ResetBegin
  BY <1>0, <1>3 DEF ResetBegin
<1>4. CASE ResetEnd
  BY <1>0, <1>4 DEF ResetEnd
<1>5. CASE Collect
  BY <1>0, <1>5 DEF Collect
<1>6. CASE StopForTraining
  BY <1>0, <1>6 DEF StopForTraining, StopServer
<1>7. CASE TrainBegin
  BY <1>0, <1>7 DEF TrainBegin
<1>8. CASE TrainEnd
  BY <1>0, <1>8 DEF TrainEnd, TypeOK
<1>9. CASE RestartServer
  BY <1>0, <1>9 DEF RestartServer, Popen, AddressFree
<1>10. CASE PruneTree
  BY <1>0, <1>10 DEF PruneTree, CheckpointsToPrune, TypeOK
<1>11. CASE PruneDone
  BY <1>0, <1>11 DEF PruneDone
<1>12. CASE PrunePayloads
  BY <1>0, <1>12 DEF PrunePayloads
<1>13. CASE WriteSummary
  BY <1>0, <1>13 DEF WriteSummary
<1>14. CASE WriteManifest
  BY <1>0, <1>14 DEF WriteManifest, Advance, TrainedThisStep
<1>15. CASE WritePointer
  BY <1>0, <1>15 DEF WritePointer, Advance
<1>16. CASE Finish
  BY <1>0, <1>16 DEF Finish, StopServer
<1>17. CASE FinalManifest
  BY <1>17 DEF FinalManifest
<1>18. CASE ServerReady
  BY <1>0, <1>18 DEF ServerReady
<1>19. CASE LaunchFails
  BY <1>19, InvStopped DEF LaunchFails, StopServer
<1>. QED
  BY <1>1, <1>2, <1>3, <1>4, <1>5, <1>6, <1>7, <1>8, <1>9, <1>10, <1>11,
     <1>12, <1>13, <1>14, <1>15, <1>16, <1>17, <1>18, <1>19 DEF LoopStep

LEMMA InvFault == TypeOK /\ LoopInv /\ (Fault \/ ServerLoads \/ Orphans) => LoopInv'
<1>. SUFFICES ASSUME TypeOK, LoopInv, Fault \/ ServerLoads \/ Orphans PROVE LoopInv'
  OBVIOUS
<1>1. CASE Abort
  BY <1>1, InvStopped DEF Abort, StopServer, IdlePc
<1>2. CASE Crash
  BY <1>2, InvStopped DEF Crash, IdlePc
<1>3. CASE ServerDies
  BY <1>3 DEF ServerDies, disk, memory, LoopInv, CommitInv, PruneListInv,
              ServerInv, HasCheckpoint
<1>a. CASE UNCHANGED <<disk, pc, memory>> /\ ServerInv'
  BY <1>a DEF disk, memory, LoopInv, CommitInv, PruneListInv, HasCheckpoint
<1>4. CASE Orphans
  <2>1. UNCHANGED <<disk, pc, memory>>
    BY <1>4, ServersApart
  <2>2. handle = "serving" => endpoint # NoServer
    BY StepsAssumption DEF LoopInv, ServerInv, TypeOK, Model, Step, NoStep, NoServer
  <2>3. CASE KillOrphan
    BY <1>a, <2>1, <2>3 DEF KillOrphan, memory, LoopInv, ServerInv, HasCheckpoint
  <2>4. ASSUME NEW m \in Model, OrphanLoads(m)
        PROVE  ServerInv'
    <3>1. m # NoServer
      BY StepsAssumption DEF Model, Step, NoStep, NoServer
    <3>2. handle' = handle /\ endpoint = NoServer /\ endpoint' = m
      BY <2>4 DEF OrphanLoads, AddressFree
    <3>3. unseen' <=> handle # "none"
      BY <2>4 DEF OrphanLoads
    <3>. QED
      BY <2>1, <2>2, <3>1, <3>2, <3>3 DEF memory, LoopInv, ServerInv, HasCheckpoint
  <2>5. ASSUME NEW m \in Model, OrphanExits(m)
        PROVE  ServerInv'
    BY <2>1, <2>5 DEF OrphanExits, memory, LoopInv, ServerInv, HasCheckpoint
  <2>. QED
    BY <1>4, <1>a, <2>1, <2>3, <2>4, <2>5 DEF Orphans
<1>5. CASE LoseManifest
  BY <1>5 DEF LoseManifest, memory, server, LoopInv, CommitInv, PruneListInv,
              ServerInv, HasCheckpoint
<1>6. CASE ServerLoads
  <2>1. UNCHANGED <<disk, pc, memory>>
    BY <1>6, ServersApart
  <2>2. ServerInv'
    BY <1>6, <2>1 DEF ServerLoads, AddressFree, memory, LoopInv, ServerInv, HasCheckpoint
  <2>. QED
    BY <1>a, <2>1, <2>2
<1>. QED
  BY <1>1, <1>2, <1>3, <1>4, <1>5, <1>6 DEF Fault

\* The invariant is kept by every step.
LEMMA InvNext == TypeOK /\ LoopInv /\ [Next]_vars => LoopInv'
<1>1. TypeOK /\ LoopInv /\ UNCHANGED vars => LoopInv'
  BY DEF vars, disk, memory, server, LoopInv, CommitInv, PruneListInv,
         ServerInv, HasCheckpoint
<1>. QED
  BY <1>1, InvStart, InvLoop, InvFault DEF Next

THEOREM LoopInvariant == Spec => []LoopInv
BY InvInit, InvNext, TypeCorrect, PTL DEF Spec

-----------------------------------------------------------------------------
(* What follows from it *)

\* While rollouts are collected the committed model answers, or nothing, or
\* the server of a killed loop that was loading when the loop looked at the
\* address, wherever earlier loops were killed and whatever they left.
THEOREM OnPolicy == Spec => []OnPolicyRollouts
<1>1. LoopInv => OnPolicyRollouts
  BY DEF LoopInv, CommitInv, ServerInv, HasCheckpoint, OnPolicyRollouts,
         CommittedStep, RunPc, StepPc, TrainedPc, RecordPc, StartPc, WaitPc
<1>. QED
  BY <1>1, LoopInvariant, PTL

\* The commit pointer only moves to a later step.
THEOREM CommitMonotone == Spec => CommitNeverMovesBack
<1>1. TypeOK /\ LoopInv /\ [Next]_vars
        => [commitPointer'.step > commitPointer.step]_commitPointer
  <2>. SUFFICES ASSUME TypeOK, LoopInv, [Next]_vars, commitPointer' # commitPointer
                PROVE  commitPointer'.step > commitPointer.step
    OBVIOUS
  <2>1. WritePointer
    BY DEF Next, vars, disk, StartSession, Refuse, NothingLeft, Begin, LoopStep,
           LaunchServer, AddressOccupied, ServerReady, LaunchFails, ResetBegin,
           ResetEnd, Collect, StopForTraining, TrainBegin, TrainEnd, RestartServer, PruneTree,
           PruneDone, PrunePayloads, WriteSummary, WriteManifest, Finish,
           FinalManifest, Fault, Abort, Crash, ServerDies, LoseManifest,
      ServerLoads, Orphans, KillOrphan, OrphanLoads, OrphanExits
  <2>2. stepIndex > commitPointer.step
    BY <2>1 DEF WritePointer, LoopInv, CommitInv, RunPc, StepPc, TrainedPc, RecordPc, StartPc
  <2>. QED
    BY <2>1, <2>2 DEF WritePointer
<1>. QED
  BY <1>1, TypeCorrect, LoopInvariant, PTL DEF Spec, CommitNeverMovesBack

-----------------------------------------------------------------------------
(* Pruning, when at least two checkpoints are kept *)

KeepsTwo == \A k \in KeepLasts : k >= 2

\* A set of integers with at most one later element loses nothing of rank
\* two or more: the committed step is never in the prune list.
LEMMA PruneSparesCommit ==
  ASSUME KeepsTwo, TypeOK, LoopInv, pc = "prune", NEW d \in CheckpointsToPrune
  PROVE  d # commitPointer.step /\ d # stepIndex
<1>1. committed = commitPointer.step /\ pendingIndex = stepIndex
  BY DEF LoopInv, CommitInv, RunPc, StepPc, TrainedPc
<1>2. d # stepIndex
  BY <1>1 DEF CheckpointsToPrune
<1>3. ASSUME d = committed PROVE FALSE
  <2>1. {e \in ckptStepDirs : e > d} \subseteq {stepIndex}
    <3>1. \A e \in ckptStepDirs : e <= committed \/ e = stepIndex
      BY DEF LoopInv, PruneListInv, RunPc, StepPc, TrainedPc
    <3>. QED
      BY <1>3, <3>1, IntegerState
  <2>. DEFINE Later == {e \in ckptStepDirs : e > d}
  <2>a. IsFiniteSet({stepIndex}) /\ Cardinality({stepIndex}) = 1
    BY FS_Singleton
  <2>b. Later \in SUBSET {stepIndex}
    BY <2>1
  <2>. HIDE DEF Later
  <2>2. IsFiniteSet(Later) /\ Cardinality(Later) <= 1
    BY <2>a, <2>b, FS_Subset
  <2>3. Cardinality(Later) \in Nat
    BY <2>2, FS_CardinalityType
  <2>4. session.keep >= 2 /\ session.keep \in Nat
    BY IntegerState DEF KeepsTwo, TypeOK, Session
  <2>5. Cardinality(Later) >= session.keep
    BY DEF CheckpointsToPrune, Later
  <2>. QED
    BY <2>2, <2>3, <2>4, <2>5
<1>. QED
  BY <1>1, <1>2, <1>3

\* The only trees a step touches are the current step's and pruned ones.
LEMMA TargetKept ==
  ASSUME KeepsTwo, TypeOK, LoopInv, ResumeTargetExists, [Next]_vars
  PROVE  ResumeTargetExists'
<1>. USE DEF ResumeTargetExists, CommittedStep
<1>1. CASE UNCHANGED <<commitPointer, tree>>
  BY <1>1
<1>2. CASE ResetBegin \/ ResetEnd \/ TrainBegin \/ TrainEnd
  <2>1. stepIndex # commitPointer.step /\ commitPointer' = commitPointer
    BY <1>2, IntegerState DEF ResetBegin, ResetEnd, TrainBegin, TrainEnd,
           LoopInv, CommitInv, RunPc, StepPc
  <2>2. \A i \in Step : i # stepIndex => tree'[i] = tree[i]
    BY <1>2 DEF ResetBegin, ResetEnd, TrainBegin, TrainEnd, TypeOK
  <2>3. commitPointer.step # NoStep => commitPointer.step \in Step
    BY DEF TypeOK, Model
  <2>. QED
    BY <2>1, <2>2, <2>3
<1>3. CASE PruneTree
  <2>1. commitPointer' = commitPointer
    BY <1>3 DEF PruneTree
  <2>2. PICK d \in CheckpointsToPrune :
            tree' = [tree EXCEPT ![d] = IF @ = "full" THEN "partial" ELSE "none"]
    BY <1>3 DEF PruneTree
  <2>3. d # commitPointer.step
    BY <1>3, PruneSparesCommit DEF PruneTree
  <2>4. commitPointer.step # NoStep => commitPointer.step \in Step
    BY DEF TypeOK, Model
  <2>. QED
    BY <2>1, <2>2, <2>3, <2>4 DEF TypeOK
<1>4. CASE WritePointer
  BY <1>4 DEF WritePointer, LoopInv, CommitInv, PruneListInv, HasCheckpoint,
              TypeOK, RunPc, StepPc, TrainedPc, RecordPc, StartPc
<1>. QED
  BY <1>1, <1>2, <1>3, <1>4
  DEF Next, vars, disk, StartSession, Refuse, NothingLeft, Begin, LoopStep,
      LaunchServer, AddressOccupied, ServerReady, LaunchFails, Collect,
      StopForTraining, RestartServer,
      PruneDone, PrunePayloads, WriteSummary, WriteManifest, Finish,
      FinalManifest, Fault, Abort, Crash, ServerDies, LoseManifest,
      ServerLoads, Orphans, KillOrphan, OrphanLoads, OrphanExits

\* With checkpoint_keep_last of two or more in every session, the checkpoint
\* that resume depends on is complete in every reachable state.
THEOREM ResumeTargetKept ==
  ASSUME KeepsTwo
  PROVE  Spec => []ResumeTargetExists
<1>1. Init => ResumeTargetExists
  BY DEF Init, ResumeTargetExists, CommittedStep
<1>2. TypeOK /\ LoopInv /\ ResumeTargetExists /\ [Next]_vars => ResumeTargetExists'
  BY TargetKept
<1>. QED
  BY <1>1, <1>2, TypeCorrect, LoopInvariant, PTL DEF Spec

-----------------------------------------------------------------------------
(* Refinement of the commit contract *)

\* The loop implements CommitContract: one authoritative commit that only
\* moves forward to a complete checkpoint, which is never discarded.
LEMMA ContractStep ==
  ASSUME KeepsTwo, TypeOK, LoopInv, [Next]_vars
  PROVE  [Contract!Next]_(Contract!vars)
<1>. USE DEF Contract!Next, Contract!vars, Contract!Save, Contract!Discard,
             Contract!Commit
<1>1. CASE UNCHANGED <<commitPointer, tree>>
  BY <1>1
<1>2. stepIndex \in Step /\ tree \in [Step -> {"none", "partial", "full"}]
  BY DEF TypeOK
<1>3. CASE ResetBegin \/ ResetEnd \/ TrainBegin
  <2>1. stepIndex # commitPointer.step /\ commitPointer' = commitPointer
    BY <1>3, IntegerState DEF ResetBegin, ResetEnd, TrainBegin,
           LoopInv, CommitInv, RunPc, StepPc
  <2>2. \A i \in Step : IF i = stepIndex THEN tree'[i] # "full" ELSE tree'[i] = tree[i]
    BY <1>2, <1>3 DEF ResetBegin, ResetEnd, TrainBegin
  <2>3. {s \in Step : tree'[s] = "full"} = {s \in Step : tree[s] = "full"} \ {stepIndex}
    BY <2>2
  <2>4. Contract!Discard(stepIndex)
    BY <2>1, <2>3
  <2>. QED
    BY <1>2, <2>4
<1>4. CASE TrainEnd
  <2>1. stepIndex > commitPointer.step /\ commitPointer' = commitPointer
    BY <1>4 DEF TrainEnd, LoopInv, CommitInv, RunPc, StepPc
  <2>2. {s \in Step : tree'[s] = "full"} = {s \in Step : tree[s] = "full"} \cup {stepIndex}
    BY <1>2, <1>4 DEF TrainEnd
  <2>3. Contract!Save(stepIndex)
    BY <2>1, <2>2
  <2>. QED
    BY <1>2, <2>3
<1>5. CASE PruneTree
  <2>1. PICK d \in CheckpointsToPrune :
            tree' = [tree EXCEPT ![d] = IF @ = "full" THEN "partial" ELSE "none"]
    BY <1>5 DEF PruneTree
  <2>2. d \in Step /\ d # commitPointer.step /\ commitPointer' = commitPointer
    BY <1>5, PruneSparesCommit DEF PruneTree, CheckpointsToPrune, TypeOK
  <2>3. {s \in Step : tree'[s] = "full"} = {s \in Step : tree[s] = "full"} \ {d}
    BY <1>2, <2>1
  <2>4. Contract!Discard(d)
    BY <2>2, <2>3
  <2>. QED
    BY <2>2, <2>4
<1>6. CASE WritePointer
  <2>1. stepIndex > commitPointer.step /\ tree[stepIndex] = "full"
    BY <1>6 DEF WritePointer, LoopInv, CommitInv, PruneListInv, HasCheckpoint,
                RunPc, StepPc, TrainedPc, RecordPc, StartPc
  <2>2. commitPointer'.step = stepIndex /\ tree' = tree
    BY <1>6 DEF WritePointer
  <2>3. Contract!Commit(stepIndex)
    BY <1>2, <2>1, <2>2
  <2>. QED
    BY <1>2, <2>3
<1>. QED
  BY <1>1, <1>3, <1>4, <1>5, <1>6
  DEF Next, vars, disk, StartSession, Refuse, NothingLeft, Begin, LoopStep,
      LaunchServer, AddressOccupied, ServerReady, LaunchFails, Collect,
      StopForTraining, RestartServer,
      PruneDone, PrunePayloads, WriteSummary, WriteManifest, Finish,
      FinalManifest, Fault, Abort, Crash, ServerDies, LoseManifest,
      ServerLoads, Orphans, KillOrphan, OrphanLoads, OrphanExits

THEOREM Refinement ==
  ASSUME KeepsTwo
  PROVE  Spec => ImplementsContract
<1>1. Init => Contract!Init
  BY DEF Init, Contract!Init, Contract!NotCommitted, NoStep
<1>2. TypeOK /\ LoopInv /\ [Next]_vars => [Contract!Next]_(Contract!vars)
  BY ContractStep
<1>. QED
  BY <1>1, <1>2, TypeCorrect, LoopInvariant, PTL DEF Spec, ImplementsContract, Contract!Spec

-----------------------------------------------------------------------------
(* What the loop records and retains: its inductive invariant              *)

\* Before and after the step the process is at has its summary.
PlannedPc  == (StartPc \cup StepPc) \ {"manifest", "pointer"}
RecordedPc == {"manifest", "pointer", "finish", "final"}

EverySummary(n, entries) == \A k \in Step : k <= n => \E e \in entries : e.step = k

\* The summaries: one a step, none missing up to the commit, and the manifest,
\* where there is one, says the same of the committed steps.
DiskInv ==
    /\ OneEntryPerStep(summary)
    /\ EverySummary(commitPointer.step, summary)
    /\ OneEntryPerStep(manifest.steps)
    /\ manifest.exists =>
          EntriesUpTo(commitPointer.step, manifest.steps) =
              EntriesUpTo(commitPointer.step, summary)

\* The list in memory is the summaries of the steps done, and the step at work
\* has none between its reset and its record.
StepsInv ==
    /\ pc \in PlannedPc =>
          /\ steps = EntriesUpTo(stepIndex - 1, summary)
          /\ EverySummary(stepIndex - 1, summary)
    /\ pc \in PlannedPc \ (StartPc \cup {"reset", "resetting"}) =>
          \A e \in summary : e.step # stepIndex
    /\ pc \in RecordedPc =>
          /\ steps = EntriesUpTo(stepIndex, summary)
          /\ EverySummary(stepIndex, summary)
          /\ commitPointer.step <= stepIndex
    /\ pc = "pointer" => manifest = [exists |-> TRUE, steps |-> steps, pool |-> session.pool]

\* Entries of one curve, and a pool that may go on with them.
Curve(entries) ==
    \A e, f \in entries : e.stage = f.stage /\ (e.pool = f.pool \/ NoEval \in {e.pool, f.pool})
GoesOn(pool, entries) == \A e \in entries : e.pool = pool \/ NoEval \in {e.pool, pool}

CurveInv ==
    /\ Curve(manifest.steps)
    /\ Curve(EntriesUpTo(commitPointer.step, summary))
    /\ \A e \in EntriesUpTo(commitPointer.step, summary) : e.stage = commitPointer.stage
    /\ manifest.exists /\ manifest.pool # None =>
          GoesOn(manifest.pool, EntriesUpTo(commitPointer.step, summary))
    /\ pc \in RunPc =>
          /\ Curve(steps)
          /\ \A e \in steps : e.stage = session.stage
          /\ GoesOn(session.pool, steps)

\* A tree below the step at work is of a step that trained, and on the list of
\* the trees subject to retention; the step at work has none until it trains.
HasTree(s) == tree[s] # "none"
TrainedStep(s) == \E e \in summary : e.step = s /\ e.trained

TreeInv ==
    /\ \A s \in Step : s <= commitPointer.step /\ HasTree(s) => TrainedStep(s)
    /\ pc \in StartPc \cup StepPc =>
          \A s \in Step : s < stepIndex /\ HasTree(s) => TrainedStep(s) /\ s \in ckptStepDirs
    /\ pc \in {"collect", "stop", "train"} => ~HasTree(stepIndex)
    /\ pc \in RecordPc /\ pendingIndex # stepIndex => ~HasTree(stepIndex)
    /\ pc \in TrainedPc \cup RecordPc /\ HasTree(stepIndex) => stepIndex \in ckptStepDirs
    /\ pc \in {"manifest", "pointer"} /\ HasTree(stepIndex) => TrainedStep(stepIndex)

\* What pruning has left.
RetainInv ==
    /\ pc \in RecordPc /\ TrainedThisStep => \A d \in CheckpointsToPrune : ~HasTree(d)
    /\ pc \in {"summary", "manifest", "pointer"} => payload \cap PayloadsToPrune = {}

RecordInv == DiskInv /\ StepsInv /\ CurveInv /\ TreeInv /\ RetainInv

\* The numbers of entries and steps are integers.
LEMMA RecordFacts ==
  ASSUME TypeOK
  PROVE  /\ stepIndex \in Int /\ committed \in Int /\ commitPointer.step \in Int
         /\ commitPointer.step >= NoStep
         /\ \A s \in Step : s \in Int /\ s > NoStep
         /\ \A e \in Entry : e.step \in Int /\ e.step > NoStep
         /\ summary \subseteq Entry /\ steps \subseteq Entry /\ manifest.steps \subseteq Entry
BY IntegerState, StepsAssumption DEF TypeOK, Entry, Step, Model, NoStep

\* The loader returns the summaries of the committed steps.
LEMMA LoadedIsCommitted ==
  ASSUME TypeOK, DiskInv
  PROVE  LoadedSteps = EntriesUpTo(commitPointer.step, summary)
<1>. DEFINE c == commitPointer.step
            recorded == EntriesUpTo(c, summary)
<1>1. CASE c = NoStep
  BY <1>1, RecordFacts DEF LoadedSteps, EntriesUpTo
<1>2. CASE c # NoStep /\ manifest.exists
  BY <1>2 DEF LoadedSteps, EntriesUpTo, DiskInv
<1>3. CASE c # NoStep /\ ~manifest.exists
  BY <1>3 DEF LoadedSteps, EntriesUpTo
<1>. QED
  BY <1>1, <1>2, <1>3

-----------------------------------------------------------------------------
(* Every step preserves what is recorded                                   *)

\* The files.
LEMMA DiskNext ==
  ASSUME TypeOK, LoopInv, DiskInv, StepsInv, [Next]_vars
  PROVE  DiskInv'
<1>. USE RecordFacts
         DEF DiskInv, StepsInv, LoopInv, CommitInv, OneEntryPerStep,
             EverySummary, EntriesUpTo, RunPc, StepPc, TrainedPc, RecordPc, StartPc,
             IdlePc, PlannedPc, RecordedPc, disk, memory, server
<1>1. ASSUME NEW s \in Session, Refuse(s) PROVE DiskInv'
  BY <1>1 DEF Refuse
<1>2. ASSUME NEW s \in Session, NothingLeft(s) PROVE DiskInv'
  BY <1>2, LoadedIsCommitted DEF NothingLeft
<1>3. ASSUME NEW s \in Session, Begin(s) PROVE DiskInv'
  BY <1>3 DEF Begin, FirstStep
<1>4. CASE StartSession
  BY <1>1, <1>2, <1>3, <1>4 DEF StartSession
<1>5. CASE LoopStep
  <2>1. CASE LaunchServer
    BY <2>1 DEF LaunchServer
  <2>2. CASE AddressOccupied
    BY <2>2 DEF AddressOccupied, Forget
  <2>3. CASE ResetBegin
    BY <2>3 DEF ResetBegin
  <2>4. CASE ResetEnd
    BY <2>4 DEF ResetEnd
  <2>5. CASE Collect
    BY <2>5 DEF Collect
  <2>6. CASE StopForTraining
    BY <2>6 DEF StopForTraining
  <2>7. CASE TrainBegin
    BY <2>7 DEF TrainBegin
  <2>8. CASE TrainEnd
    BY <2>8 DEF TrainEnd
  <2>9. CASE RestartServer
    BY <2>9 DEF RestartServer
  <2>10. CASE PruneTree
    BY <2>10 DEF PruneTree, CheckpointsToPrune
  <2>11. CASE PruneDone
    BY <2>11 DEF PruneDone
  <2>12. CASE PrunePayloads
    BY <2>12 DEF PrunePayloads
  <2>13. CASE WriteSummary
    BY <2>13 DEF WriteSummary, StepEntry, TrainedThisStep
  <2>14. CASE WriteManifest
    BY <2>14 DEF WriteManifest, Advance, TrainedThisStep
  <2>15. CASE WritePointer
    BY <2>15 DEF WritePointer, Advance
  <2>16. CASE Finish
    BY <2>16 DEF Finish
  <2>17. CASE FinalManifest
    BY <2>17 DEF FinalManifest, Forget
  <2>18. CASE ServerReady
    BY <2>18 DEF ServerReady, WaitPc
  <2>19. CASE LaunchFails
    BY <2>19 DEF LaunchFails, Forget
  <2>. QED
    BY <1>5, <2>1, <2>2, <2>3, <2>4, <2>5, <2>6, <2>7, <2>8, <2>9, <2>10,
       <2>11, <2>12, <2>13, <2>14, <2>15, <2>16, <2>17, <2>18, <2>19 DEF LoopStep
<1>6. CASE Fault \/ ServerLoads \/ Orphans
  <2>1. CASE Abort
    BY <2>1 DEF Abort, Forget
  <2>2. CASE Crash
    BY <2>2 DEF Crash, Forget
  <2>3. CASE ServerDies
    BY <2>3 DEF ServerDies
  <2>4. CASE LoseManifest
    BY <2>4 DEF LoseManifest
  <2>5. CASE ServerLoads \/ Orphans
    BY <2>5, ServersApart
  <2>. QED
    BY <1>6, <2>1, <2>2, <2>3, <2>4, <2>5 DEF Fault
<1>7. CASE UNCHANGED vars
  BY <1>7 DEF vars
<1>. QED
  BY <1>4, <1>5, <1>6, <1>7 DEF Next

\* The list in memory.
LEMMA StepsNext ==
  ASSUME TypeOK, LoopInv, DiskInv, StepsInv, [Next]_vars
  PROVE  StepsInv'
<1>. USE RecordFacts
         DEF DiskInv, StepsInv, LoopInv, CommitInv, OneEntryPerStep,
             EverySummary, EntriesUpTo, RunPc, StepPc, TrainedPc, RecordPc, StartPc,
             IdlePc, PlannedPc, RecordedPc, disk, memory, server
<1>1. ASSUME NEW s \in Session, Refuse(s) PROVE StepsInv'
  BY <1>1 DEF Refuse
<1>2. ASSUME NEW s \in Session, NothingLeft(s) PROVE StepsInv'
  BY <1>2 DEF NothingLeft
<1>3. ASSUME NEW s \in Session, Begin(s) PROVE StepsInv'
  BY <1>3, LoadedIsCommitted DEF Begin, FirstStep
<1>4. CASE StartSession
  BY <1>1, <1>2, <1>3, <1>4 DEF StartSession
<1>5. CASE LoopStep
  <2>1. CASE LaunchServer
    BY <2>1 DEF LaunchServer
  <2>2. CASE AddressOccupied
    BY <2>2 DEF AddressOccupied, Forget
  <2>3. CASE ResetBegin
    BY <2>3 DEF ResetBegin
  <2>4. CASE ResetEnd
    BY <2>4 DEF ResetEnd
  <2>5. CASE Collect
    BY <2>5 DEF Collect
  <2>6. CASE StopForTraining
    BY <2>6 DEF StopForTraining
  <2>7. CASE TrainBegin
    BY <2>7 DEF TrainBegin
  <2>8. CASE TrainEnd
    BY <2>8 DEF TrainEnd
  <2>9. CASE RestartServer
    BY <2>9 DEF RestartServer
  <2>10. CASE PruneTree
    BY <2>10 DEF PruneTree, CheckpointsToPrune
  <2>11. CASE PruneDone
    BY <2>11 DEF PruneDone
  <2>12. CASE PrunePayloads
    BY <2>12 DEF PrunePayloads
  <2>13. CASE WriteSummary
    <3>. DEFINE new == StepEntry
    <3>1. /\ steps' = steps \cup {new} /\ summary' = summary \cup {new}
          /\ new.step = stepIndex /\ pc = "summary" /\ pc' = "manifest"
          /\ UNCHANGED <<stepIndex, commitPointer>>
      BY <2>13 DEF WriteSummary, StepEntry
    <3>. HIDE DEF new
    <3>2. steps' = EntriesUpTo(stepIndex, summary)'
      BY <3>1
    <3>3. EverySummary(stepIndex, summary)'
      <4>. SUFFICES ASSUME NEW k \in Step, k <= stepIndex
                    PROVE  \E e \in summary' : e.step = k
        BY <3>1
      <4>1. CASE k = stepIndex
        BY <3>1, <4>1
      <4>2. CASE k <= stepIndex - 1
        BY <3>1, <4>2
      <4>. QED
        BY <4>1, <4>2
    <3>. QED
      BY <3>1, <3>2, <3>3
  <2>14. CASE WriteManifest
    BY <2>14 DEF WriteManifest, Advance, TrainedThisStep
  <2>15. CASE WritePointer
    BY <2>15 DEF WritePointer, Advance
  <2>16. CASE Finish
    BY <2>16 DEF Finish
  <2>17. CASE FinalManifest
    BY <2>17 DEF FinalManifest, Forget
  <2>18. CASE ServerReady
    BY <2>18 DEF ServerReady, WaitPc
  <2>19. CASE LaunchFails
    BY <2>19 DEF LaunchFails, Forget
  <2>. QED
    BY <1>5, <2>1, <2>2, <2>3, <2>4, <2>5, <2>6, <2>7, <2>8, <2>9, <2>10,
       <2>11, <2>12, <2>13, <2>14, <2>15, <2>16, <2>17, <2>18, <2>19 DEF LoopStep
<1>6. CASE Fault \/ ServerLoads \/ Orphans
  <2>1. CASE Abort
    BY <2>1 DEF Abort, Forget
  <2>2. CASE Crash
    BY <2>2 DEF Crash, Forget
  <2>3. CASE ServerDies
    BY <2>3 DEF ServerDies
  <2>4. CASE LoseManifest
    BY <2>4 DEF LoseManifest
  <2>5. CASE ServerLoads \/ Orphans
    BY <2>5, ServersApart
  <2>. QED
    BY <1>6, <2>1, <2>2, <2>3, <2>4, <2>5 DEF Fault
<1>7. CASE UNCHANGED vars
  BY <1>7 DEF vars
<1>. QED
  BY <1>4, <1>5, <1>6, <1>7 DEF Next

\* Stages and pools.
LEMMA CurveNext ==
  ASSUME TypeOK, LoopInv, DiskInv, StepsInv, CurveInv, [Next]_vars
  PROVE  CurveInv'
<1>. USE RecordFacts
         DEF StepsInv, CurveInv, LoopInv, CommitInv, Curve, GoesOn,
             EntriesUpTo, RunPc, StepPc, TrainedPc, RecordPc, StartPc, IdlePc,
             PlannedPc, RecordedPc, disk, memory, server
<1>1. ASSUME NEW s \in Session, Refuse(s) PROVE CurveInv'
  BY <1>1 DEF Refuse
<1>2. ASSUME NEW s \in Session, NothingLeft(s) PROVE CurveInv'
  <2>1. /\ manifest' = [exists |-> TRUE, steps |-> LoadedSteps, pool |-> LoadedPool]
        /\ pc' = "done" /\ UNCHANGED <<commitPointer, summary>>
    BY <1>2 DEF NothingLeft
  <2>2. Curve(LoadedSteps)
    BY LoadedIsCommitted
  <2>3. LoadedPool # None => GoesOn(LoadedPool, EntriesUpTo(commitPointer.step, summary))
    BY DEF LoadedPool
  <2>. QED
    BY <2>1, <2>2, <2>3
<1>3. ASSUME NEW s \in Session, Begin(s) PROVE CurveInv'
  <2>. DEFINE done == EntriesUpTo(commitPointer.step, summary)
  <2>1. /\ steps' = done /\ session' = s /\ pc' = "launch"
        /\ UNCHANGED <<manifest, commitPointer, summary>>
    BY <1>3, LoadedIsCommitted DEF Begin
  <2>2. \A e \in done : e.stage = s.stage
    BY <1>3 DEF Begin, StageAccepted
  <2>3. GoesOn(s.pool, done)
    BY <1>3 DEF Begin, EvalPoolAccepted, LoadedPool
  <2>. QED
    BY <2>1, <2>2, <2>3
<1>4. CASE StartSession
  BY <1>1, <1>2, <1>3, <1>4 DEF StartSession
<1>5. CASE LoopStep
  <2>1. CASE LaunchServer
    BY <2>1 DEF LaunchServer
  <2>2. CASE AddressOccupied
    BY <2>2 DEF AddressOccupied, Forget
  <2>3. CASE ResetBegin
    BY <2>3 DEF ResetBegin
  <2>4. CASE ResetEnd
    BY <2>4 DEF ResetEnd
  <2>5. CASE Collect
    BY <2>5 DEF Collect
  <2>6. CASE StopForTraining
    BY <2>6 DEF StopForTraining
  <2>7. CASE TrainBegin
    BY <2>7 DEF TrainBegin
  <2>8. CASE TrainEnd
    BY <2>8 DEF TrainEnd
  <2>9. CASE RestartServer
    BY <2>9 DEF RestartServer
  <2>10. CASE PruneTree
    BY <2>10 DEF PruneTree, CheckpointsToPrune
  <2>11. CASE PruneDone
    BY <2>11 DEF PruneDone
  <2>12. CASE PrunePayloads
    BY <2>12 DEF PrunePayloads
  <2>13. CASE WriteSummary
    BY <2>13 DEF WriteSummary, StepEntry, TrainedThisStep
  <2>14. CASE WriteManifest
    BY <2>14 DEF WriteManifest, Advance, TrainedThisStep
  <2>15. CASE WritePointer
    BY <2>15 DEF WritePointer, Advance
  <2>16. CASE Finish
    BY <2>16 DEF Finish
  <2>17. CASE FinalManifest
    BY <2>17 DEF FinalManifest, Forget
  <2>18. CASE ServerReady
    BY <2>18 DEF ServerReady, WaitPc
  <2>19. CASE LaunchFails
    BY <2>19 DEF LaunchFails, Forget
  <2>. QED
    BY <1>5, <2>1, <2>2, <2>3, <2>4, <2>5, <2>6, <2>7, <2>8, <2>9, <2>10,
       <2>11, <2>12, <2>13, <2>14, <2>15, <2>16, <2>17, <2>18, <2>19 DEF LoopStep
<1>6. CASE Fault \/ ServerLoads \/ Orphans
  <2>1. CASE Abort
    BY <2>1 DEF Abort, Forget
  <2>2. CASE Crash
    BY <2>2 DEF Crash, Forget
  <2>3. CASE ServerDies
    BY <2>3 DEF ServerDies
  <2>4. CASE LoseManifest
    BY <2>4 DEF LoseManifest
  <2>5. CASE ServerLoads \/ Orphans
    BY <2>5, ServersApart
  <2>. QED
    BY <1>6, <2>1, <2>2, <2>3, <2>4, <2>5 DEF Fault
<1>7. CASE UNCHANGED vars
  BY <1>7 DEF vars
<1>. QED
  BY <1>4, <1>5, <1>6, <1>7 DEF Next

\* Trees.
LEMMA TreeNext ==
  ASSUME TypeOK, LoopInv, TreeInv, [Next]_vars
  PROVE  TreeInv'
<1>. USE RecordFacts
         DEF TypeOK, TreeInv, LoopInv, CommitInv, HasTree, TrainedStep,
             RunPc, StepPc, TrainedPc, RecordPc, StartPc, IdlePc, PlannedPc,
             RecordedPc, disk, memory, server
<1>1. ASSUME NEW s \in Session, Refuse(s) PROVE TreeInv'
  BY <1>1 DEF Refuse
<1>2. ASSUME NEW s \in Session, NothingLeft(s) PROVE TreeInv'
  BY <1>2 DEF NothingLeft
<1>3. ASSUME NEW s \in Session, Begin(s) PROVE TreeInv'
  BY <1>3 DEF Begin, FirstStep, ExistingCheckpointDirs
<1>4. CASE StartSession
  BY <1>1, <1>2, <1>3, <1>4 DEF StartSession
<1>5. CASE LoopStep
  <2>1. CASE LaunchServer
    BY <2>1 DEF LaunchServer
  <2>2. CASE AddressOccupied
    BY <2>2 DEF AddressOccupied, Forget
  <2>3. CASE ResetBegin
    BY <2>3 DEF ResetBegin
  <2>4. CASE ResetEnd
    BY <2>4 DEF ResetEnd
  <2>5. CASE Collect
    BY <2>5 DEF Collect
  <2>6. CASE StopForTraining
    BY <2>6 DEF StopForTraining
  <2>7. CASE TrainBegin
    BY <2>7 DEF TrainBegin
  <2>8. CASE TrainEnd
    BY <2>8 DEF TrainEnd
  <2>9. CASE RestartServer
    BY <2>9 DEF RestartServer
  <2>10. CASE PruneTree
    BY <2>10 DEF PruneTree, CheckpointsToPrune
  <2>11. CASE PruneDone
    BY <2>11 DEF PruneDone
  <2>12. CASE PrunePayloads
    BY <2>12 DEF PrunePayloads
  <2>13. CASE WriteSummary
    <3>1. StepEntry.step = stepIndex /\ (StepEntry.trained <=> pendingIndex = stepIndex)
      BY DEF StepEntry, TrainedThisStep
    <3>2. /\ summary' = summary \cup {StepEntry} /\ pc = "summary" /\ pc' = "manifest"
          /\ UNCHANGED <<tree, stepIndex, commitPointer, pendingIndex, ckptStepDirs>>
      BY <2>13 DEF WriteSummary
    <3>3. ASSUME NEW k \in Step, TrainedStep(k)
          PROVE  TrainedStep(k)'
      BY <3>2, <3>3
    <3>4. HasTree(stepIndex) => TrainedStep(stepIndex)'
      BY <3>1, <3>2
    <3>. QED
      BY <3>2, <3>3, <3>4
  <2>14. CASE WriteManifest
    BY <2>14 DEF WriteManifest, Advance, TrainedThisStep
  <2>15. CASE WritePointer
    BY <2>15 DEF WritePointer, Advance
  <2>16. CASE Finish
    BY <2>16 DEF Finish
  <2>17. CASE FinalManifest
    BY <2>17 DEF FinalManifest, Forget
  <2>18. CASE ServerReady
    BY <2>18 DEF ServerReady, WaitPc
  <2>19. CASE LaunchFails
    BY <2>19 DEF LaunchFails, Forget
  <2>. QED
    BY <1>5, <2>1, <2>2, <2>3, <2>4, <2>5, <2>6, <2>7, <2>8, <2>9, <2>10,
       <2>11, <2>12, <2>13, <2>14, <2>15, <2>16, <2>17, <2>18, <2>19 DEF LoopStep
<1>6. CASE Fault \/ ServerLoads \/ Orphans
  <2>1. CASE Abort
    BY <2>1 DEF Abort, Forget
  <2>2. CASE Crash
    BY <2>2 DEF Crash, Forget
  <2>3. CASE ServerDies
    BY <2>3 DEF ServerDies
  <2>4. CASE LoseManifest
    BY <2>4 DEF LoseManifest
  <2>5. CASE ServerLoads \/ Orphans
    BY <2>5, ServersApart
  <2>. QED
    BY <1>6, <2>1, <2>2, <2>3, <2>4, <2>5 DEF Fault
<1>7. CASE UNCHANGED vars
  BY <1>7 DEF vars
<1>. QED
  BY <1>4, <1>5, <1>6, <1>7 DEF Next

\* What pruning leaves.
LEMMA RetainNext ==
  ASSUME TypeOK, LoopInv, RetainInv, [Next]_vars
  PROVE  RetainInv'
<1>. USE RecordFacts
         DEF RetainInv, LoopInv, CommitInv, HasTree, TrainedThisStep,
             CheckpointsToPrune, PayloadsToPrune, RunPc, StepPc, TrainedPc,
             RecordPc, IdlePc, PlannedPc, RecordedPc, disk, memory, server
<1>1. ASSUME NEW s \in Session, Refuse(s) PROVE RetainInv'
  BY <1>1 DEF Refuse
<1>2. ASSUME NEW s \in Session, NothingLeft(s) PROVE RetainInv'
  BY <1>2 DEF NothingLeft
<1>3. ASSUME NEW s \in Session, Begin(s) PROVE RetainInv'
  BY <1>3 DEF Begin, FirstStep
<1>4. CASE StartSession
  BY <1>1, <1>2, <1>3, <1>4 DEF StartSession
<1>5. CASE LoopStep
  <2>1. CASE LaunchServer
    BY <2>1 DEF LaunchServer
  <2>2. CASE AddressOccupied
    BY <2>2 DEF AddressOccupied, Forget
  <2>3. CASE ResetBegin
    BY <2>3 DEF ResetBegin
  <2>4. CASE ResetEnd
    BY <2>4 DEF ResetEnd
  <2>5. CASE Collect
    BY <2>5 DEF Collect
  <2>6. CASE StopForTraining
    BY <2>6 DEF StopForTraining
  <2>7. CASE TrainBegin
    BY <2>7 DEF TrainBegin
  <2>8. CASE TrainEnd
    BY <2>8 DEF TrainEnd
  <2>9. CASE RestartServer
    BY <2>9 DEF RestartServer
  <2>10. CASE PruneTree
    BY <2>10 DEF PruneTree
  <2>11. CASE PruneDone
    BY <2>11 DEF PruneDone
  <2>12. CASE PrunePayloads
    BY <2>12 DEF PrunePayloads
  <2>13. CASE WriteSummary
    BY <2>13 DEF WriteSummary, StepEntry
  <2>14. CASE WriteManifest
    BY <2>14 DEF WriteManifest, Advance
  <2>15. CASE WritePointer
    BY <2>15 DEF WritePointer, Advance
  <2>16. CASE Finish
    BY <2>16 DEF Finish
  <2>17. CASE FinalManifest
    BY <2>17 DEF FinalManifest, Forget
  <2>18. CASE ServerReady
    BY <2>18 DEF ServerReady, WaitPc
  <2>19. CASE LaunchFails
    BY <2>19 DEF LaunchFails, Forget
  <2>. QED
    BY <1>5, <2>1, <2>2, <2>3, <2>4, <2>5, <2>6, <2>7, <2>8, <2>9, <2>10,
       <2>11, <2>12, <2>13, <2>14, <2>15, <2>16, <2>17, <2>18, <2>19 DEF LoopStep
<1>6. CASE Fault \/ ServerLoads \/ Orphans
  <2>1. CASE Abort
    BY <2>1 DEF Abort, Forget
  <2>2. CASE Crash
    BY <2>2 DEF Crash, Forget
  <2>3. CASE ServerDies
    BY <2>3 DEF ServerDies
  <2>4. CASE LoseManifest
    BY <2>4 DEF LoseManifest
  <2>5. CASE ServerLoads \/ Orphans
    BY <2>5, ServersApart
  <2>. QED
    BY <1>6, <2>1, <2>2, <2>3, <2>4, <2>5 DEF Fault
<1>7. CASE UNCHANGED vars
  BY <1>7 DEF vars
<1>. QED
  BY <1>4, <1>5, <1>6, <1>7 DEF Next

-----------------------------------------------------------------------------
(* Counting what is retained                                               *)

\* A set of steps has a first one.
LEMMA SmallestElement ==
  ASSUME NEW T \in SUBSET Nat, T # {}
  PROVE  \E x \in T : \A y \in T : x <= y
<1>. DEFINE less == {p \in Nat \X Nat : p[1] < p[2]}
<1>1. IsWellFoundedOn(less, Nat)
  BY NatLessThanWellFounded DEF OpToRel
<1>. HIDE DEF less
<1>2. PICK x \in T : \A y \in T : <<y, x>> \notin less
  BY <1>1, WFMin
<1>3. \A y \in T : ~(y < x)
  BY <1>2 DEF less
<1>. QED
  BY <1>3

\* Of a set of steps, at most k have fewer than k later ones.
LEMMA LastOnes ==
  ASSUME NEW D \in SUBSET Nat, IsFiniteSet(D), NEW k \in Nat,
         NEW T \in SUBSET D, \A d \in T : Cardinality({e \in D : e > d}) < k
  PROVE  Cardinality(T) <= k
<1>1. IsFiniteSet(T)
  BY FS_Subset
<1>2. CASE T = {}
  BY <1>2, FS_EmptySet
<1>3. CASE T # {}
  <2>1. PICK x \in T : \A y \in T : x <= y
    BY <1>3, SmallestElement
  <2>. DEFINE Later == {e \in D : e > x}
  <2>2. T \ {x} \in SUBSET Later
    BY <2>1
  <2>3. Later \in SUBSET D
    OBVIOUS
  <2>4. IsFiniteSet(Later) /\ Cardinality(T \ {x}) <= Cardinality(Later)
    BY <2>2, <2>3, FS_Subset
  <2>5. Cardinality(T \ {x}) = Cardinality(T) - 1
    BY <1>1, <2>1, FS_RemoveElement
  <2>6. Cardinality(Later) < k
    BY <2>1
  <2>7. Cardinality(T) \in Nat /\ Cardinality(Later) \in Nat
    BY <1>1, <2>4, FS_CardinalityType
  <2>. QED
    BY <2>4, <2>5, <2>6, <2>7
<1>. QED
  BY <1>2, <1>3

\* The trees that are left are the last ones of the prune list.
LEMMA TreesRetained ==
  ASSUME TypeOK, LoopInv, TreeInv, RetainInv,
         pc \in {"summary", "manifest", "pointer"}, TrainedThisStep
  PROVE  Cardinality({s \in 0 .. stepIndex : HasTree(s)}) <= session.keep
<1>. DEFINE Left == {s \in 0 .. stepIndex : HasTree(s)}
<1>1. /\ stepIndex \in Step /\ Step \subseteq Nat /\ session.keep \in Nat /\ session.keep > 0
      /\ \A s \in 0 .. stepIndex : s \in Step
  <2>1. session.keep \in KeepLasts
    BY DEF TypeOK, Session
  <2>2. \A k \in KeepLasts : k \in Nat /\ k > 0
    BY KeepAssumption
  <2>. QED
    BY <2>1, <2>2, StepsAssumption DEF TypeOK, Step
<1>2. ckptStepDirs \in SUBSET Nat /\ IsFiniteSet(ckptStepDirs)
  <2>1. IsFiniteSet(0 .. RftSteps - 1)
    BY StepsAssumption, FS_Interval
  <2>2. ckptStepDirs \in SUBSET (0 .. RftSteps - 1)
    BY DEF TypeOK, Step
  <2>. QED
    BY <1>1, <2>1, <2>2, FS_Subset DEF Step
<1>3. Left \in SUBSET ckptStepDirs
  BY <1>1 DEF TreeInv, StepPc, RecordPc
<1>4. ASSUME NEW d \in Left
      PROVE  Cardinality({e \in ckptStepDirs : e > d}) < session.keep
  <2>. DEFINE Later == {e \in ckptStepDirs : e > d}
  <2>1. Cardinality(Later) \in Nat
    BY <1>2, FS_Subset, FS_CardinalityType
  <2>2. CASE d = stepIndex
    <3>1. Later = {}
      BY <1>1, <2>2, IntegerState
         DEF LoopInv, CommitInv, PruneListInv, HasCheckpoint, RunPc, StepPc, RecordPc
    <3>. QED
      BY <1>1, <3>1, FS_EmptySet
  <2>3. CASE d # stepIndex
    <3>1. d \notin CheckpointsToPrune
      BY <1>1, <1>4 DEF RetainInv, RecordPc
    <3>2. ~(Cardinality(Later) >= session.keep)
      BY <1>3, <2>3, <3>1 DEF CheckpointsToPrune, TrainedThisStep
    <3>. QED
      BY <1>1, <2>1, <3>2
  <2>. QED
    BY <2>2, <2>3
<1>. QED
  BY <1>1, <1>2, <1>3, <1>4, LastOnes

\* Payloads are counted back from the current step.
LEMMA PayloadsRetained ==
  ASSUME TypeOK, RetainInv,
         pc \in {"summary", "manifest", "pointer"}, TrainedThisStep
  PROVE  Cardinality(payload \cap (0 .. stepIndex)) <= session.keep
<1>. DEFINE first == stepIndex - session.keep + 1
            Left  == payload \cap (0 .. stepIndex)
<1>1. stepIndex \in Int /\ session.keep \in Nat /\ session.keep > 0
  <2>1. session.keep \in KeepLasts
    BY DEF TypeOK, Session
  <2>2. \A k \in KeepLasts : k \in Nat /\ k > 0
    BY KeepAssumption
  <2>. QED
    BY <2>1, <2>2, IntegerState
<1>2. Left \in SUBSET (first .. stepIndex)
  <2>. SUFFICES ASSUME NEW d \in Left PROVE d \in first .. stepIndex
    OBVIOUS
  <2>1. d \in Int /\ d <= stepIndex
    BY <1>1
  <2>2. d = stepIndex \/ ~(stepIndex - d >= session.keep)
    BY DEF RetainInv, PayloadsToPrune, TrainedThisStep
  <2>. QED
    BY <1>1, <2>1, <2>2
<1>3. IsFiniteSet(first .. stepIndex) /\ Cardinality(first .. stepIndex) = session.keep
  <2>1. first \in Int /\ ~(first > stepIndex) /\ stepIndex - first + 1 = session.keep
    BY <1>1
  <2>. HIDE DEF first
  <2>. QED
    BY <1>1, <2>1, FS_Interval
<1>4. Cardinality(Left) <= Cardinality(first .. stepIndex)
  BY <1>2, <1>3, FS_Subset
<1>. QED
  BY <1>3, <1>4

-----------------------------------------------------------------------------
(* The theorems about what is recorded and retained                        *)

\* What is on disk, what the process remembers of it and what pruning leaves
\* agree in every state.
THEOREM RecordInvariant == Spec => [](TypeOK /\ LoopInv /\ RecordInv)
<1>1. Init => RecordInv
  BY StepsAssumption DEF Init, RecordInv, DiskInv, StepsInv, CurveInv, TreeInv, RetainInv,
     OneEntryPerStep, EverySummary, EntriesUpTo, Curve, GoesOn, HasTree, Step, NoStep,
     RunPc, StepPc, TrainedPc, RecordPc, StartPc, PlannedPc, RecordedPc
<1>2. TypeOK /\ LoopInv /\ RecordInv /\ [Next]_vars => RecordInv'
  BY DiskNext, StepsNext, CurveNext, TreeNext, RetainNext DEF RecordInv
<1>. QED
  BY <1>1, <1>2, TypeCorrect, LoopInvariant, PTL DEF Spec

\* The manifest and the summaries agree on every committed step, and the
\* summaries of the committed steps are complete.
THEOREM ManifestIsTrue == Spec => []ManifestAgrees
<1>1. TypeOK /\ RecordInv => ManifestAgrees
  <2>. SUFFICES ASSUME TypeOK, RecordInv PROVE ManifestAgrees
    OBVIOUS
  <2>. DEFINE c == CommittedStep
              committedSteps == {e.step : e \in EntriesUpTo(c, summary)}
  <2>1. committedSteps \subseteq 0 .. c
    BY RecordFacts DEF EntriesUpTo, CommittedStep, NoStep
  <2>2. ASSUME NEW k \in 0 .. c
        PROVE  k \in committedSteps
    <3>1. k \in Step
      BY <2>2, StepsAssumption DEF TypeOK, CommittedStep, Model, Step, NoStep
    <3>. QED
      BY <2>2, <3>1 DEF RecordInv, DiskInv, EverySummary, EntriesUpTo, CommittedStep
  <2>. QED
    BY <2>1, <2>2 DEF RecordInv, DiskInv, ManifestAgrees, CommittedStep
<1>. QED
  BY <1>1, RecordInvariant, PTL

\* The entries of a manifest are of one stage and one held-out pool.
THEOREM CurveIsOne == Spec => []OneCurve
<1>1. RecordInv => OneCurve
  BY DEF RecordInv, CurveInv, Curve, OneCurve
<1>. QED
  BY <1>1, RecordInvariant, PTL

\* A tree at or below the commit is of a step that trained.
THEOREM TreesAreTrained == Spec => []NoStaleTrees
<1>1. RecordInv => NoStaleTrees
  BY DEF RecordInv, TreeInv, HasTree, TrainedStep, NoStaleTrees, CommittedStep
<1>. QED
  BY <1>1, RecordInvariant, PTL

\* After a training step no more than keep_last trees and payloads are left.
THEOREM Retained == Spec => []RetentionBounded
<1>1. TypeOK /\ LoopInv /\ RecordInv => RetentionBounded
  BY TreesRetained, PayloadsRetained DEF RecordInv, HasTree, RetentionBounded
<1>. QED
  BY <1>1, RecordInvariant, PTL

\* A step deletes and rewrites trees of other steps than the model's.
LEMMA ModelKept ==
  ASSUME TypeOK, LoopInv, ModelStaysOnDisk, [Next]_vars
  PROVE  ModelStaysOnDisk'
<1>. USE IntegerState DEF ModelStaysOnDisk
<1>0. currentModel # NoStep => currentModel \in Step
  BY DEF TypeOK, Model
<1>1. CASE UNCHANGED <<tree, currentModel>> /\ (pc' \in RunPc => pc \in RunPc)
  BY <1>1
<1>2. CASE pc' \in IdlePc
  BY <1>2 DEF IdlePc, RunPc, StartPc, StepPc, TrainedPc, RecordPc
<1>3. ASSUME NEW s \in Session, Begin(s)
      PROVE  ModelStaysOnDisk'
  BY <1>3 DEF Begin, PointerMayLoad, disk
<1>4. CASE ResetBegin \/ ResetEnd \/ TrainBegin
  <2>1. currentModel # stepIndex /\ pc \in RunPc /\ currentModel' = currentModel
    BY <1>4 DEF ResetBegin, ResetEnd, TrainBegin, memory, LoopInv, CommitInv,
       ServerInv, HasCheckpoint, RunPc, StepPc, TrainedPc, RecordPc, StartPc
  <2>2. \A i \in Step : i # stepIndex => tree'[i] = tree[i]
    BY <1>4 DEF ResetBegin, ResetEnd, TrainBegin, TypeOK
  <2>. QED
    BY <1>0, <2>1, <2>2
<1>5. CASE TrainEnd
  BY <1>5 DEF TrainEnd, TypeOK
<1>6. CASE PruneTree
  <2>1. pendingIndex = stepIndex /\ currentModel = stepIndex
    BY <1>6 DEF PruneTree, LoopInv, CommitInv, ServerInv, HasCheckpoint, RunPc,
       StepPc, TrainedPc, RecordPc, StartPc
  <2>2. PICK d \in CheckpointsToPrune :
            tree' = [tree EXCEPT ![d] = IF @ = "full" THEN "partial" ELSE "none"]
    BY <1>6 DEF PruneTree
  <2>3. d # currentModel /\ currentModel' = currentModel /\ pc' = pc
    BY <1>6, <2>1 DEF PruneTree, CheckpointsToPrune, memory
  <2>. QED
    BY <1>0, <2>2, <2>3 DEF TypeOK
<1>. QED
  <2>1. CASE StartSession
    BY <1>2, <1>3, <2>1 DEF StartSession, Refuse, NothingLeft, IdlePc
  <2>2. CASE AddressOccupied \/ LaunchFails \/ FinalManifest \/ Abort \/ Crash
    BY <1>2, <2>2 DEF AddressOccupied, LaunchFails, FinalManifest, Abort, Crash, IdlePc
  <2>3. CASE LaunchServer \/ ServerReady \/ Collect \/ StopForTraining \/ RestartServer
    BY <1>1, <2>3 DEF LaunchServer, ServerReady, WaitPc, Collect, StopForTraining,
       RestartServer, disk, memory, RunPc, StepPc, TrainedPc, RecordPc
  <2>4. CASE PruneDone \/ PrunePayloads \/ WriteSummary \/ WriteManifest \/ WritePointer
             \/ Finish
    BY <1>1, <2>4 DEF PruneDone, PrunePayloads, WriteSummary, WriteManifest,
       WritePointer, Finish, disk, memory, RunPc, StepPc, TrainedPc, RecordPc
  <2>5. CASE ServerLoads \/ Orphans \/ ServerDies \/ LoseManifest \/ UNCHANGED vars
    BY <1>1, <2>5, ServersApart DEF ServerDies, LoseManifest, vars, disk, memory
  <2>. QED
    BY <1>4, <1>5, <1>6, <2>1, <2>2, <2>3, <2>4, <2>5 DEF Next, LoopStep, Fault

\* The model a run serves and trains from next is never deleted under it.
THEOREM ModelStays == Spec => []ModelStaysOnDisk
<1>1. Init => ModelStaysOnDisk
  BY DEF Init, ModelStaysOnDisk
<1>2. TypeOK /\ LoopInv /\ ModelStaysOnDisk /\ [Next]_vars => ModelStaysOnDisk'
  BY ModelKept
<1>. QED
  BY <1>1, <1>2, TypeCorrect, LoopInvariant, PTL DEF Spec

-----------------------------------------------------------------------------
(* The hand-over to SDPO                                                   *)

\* The launcher goes to the manifest only when there was no commit to see.
HandoverInv ==
    /\ sdpo = [pc |-> sdpo.pc, pinned |-> sdpo.pinned, seen |-> sdpo.seen,
               model |-> sdpo.model]
    /\ sdpo.pc \in {"manifest", "again"} => sdpo.seen = NoStep
    /\ sdpo.pc \in {"resolved", "loading"} /\ sdpo.seen # NoStep =>
          sdpo.model = sdpo.seen

\* The launcher only reads: with it the loop runs as it does alone.
LEMMA LoopAsAlone ==
  ASSUME [LaunchNext]_<<vars, launchVars>>
  PROVE  [Next]_vars
<1>1. CASE RunStep
  BY <1>1 DEF RunStep, PathStep, OtherStep, Next, StartSession, LoopStep, Fault
<1>2. CASE LaunchStep
  BY <1>2 DEF LaunchStep, Launch, ReadPointer, ReadManifest, Confirm, Load
<1>3. CASE UNCHANGED <<vars, launchVars>>
  BY <1>3
<1>. QED
  BY <1>1, <1>2, <1>3 DEF LaunchNext

\* A run that has committed is resolved by its pointer.
LEMMA PointerResolves ==
  ASSUME TypeOK, ResumeTargetExists, HandoverInv, ReadPointer
  PROVE  HandoverInv'
<1>. DEFINE c == commitPointer.step
<1>2. CASE c = NoStep
  <2>1. sdpo' = [sdpo EXCEPT !.pc = "manifest", !.seen = NoStep]
    BY <1>2 DEF ReadPointer
  <2>2. sdpo' = [pc |-> "manifest", pinned |-> sdpo.pinned, seen |-> NoStep,
                 model |-> sdpo.model]
    BY <2>1 DEF HandoverInv
  <2>. QED
    BY <2>2 DEF HandoverInv
<1>3. CASE c # NoStep
  <2>1. MustExist(c) /\ FromPointer(c) = {c}
    BY <1>3 DEF ResumeTargetExists, CommittedStep, MustExist, MayExist, FromPointer
  <2>2. sdpo' = [Resolved(c) EXCEPT !.seen = c]
    BY <1>3, <2>1 DEF ReadPointer
  <2>3. sdpo' = [pc |-> "resolved", pinned |-> sdpo.pinned, seen |-> c, model |-> c]
    BY <2>2 DEF Resolved, HandoverInv
  <2>. QED
    BY <1>3, <2>3 DEF HandoverInv
<1>. QED
  BY <1>2, <1>3

LEMMA HandoverNext ==
  ASSUME TypeOK, ResumeTargetExists, HandoverInv, [LaunchNext]_<<vars, launchVars>>
  PROVE  HandoverInv'
<1>1. CASE RunStep \/ UNCHANGED <<vars, launchVars>>
  BY <1>1 DEF RunStep, launchVars, HandoverInv
<1>2. CASE \E pinned \in BOOLEAN : Launch(pinned)
  <2>1. PICK pinned \in BOOLEAN : Launch(pinned)
    BY <1>2
  <2>2. CASE sdpo' = [sdpo EXCEPT !.pinned = pinned, !.pc = "pointer"]
    <3>1. sdpo' = [pc |-> "pointer", pinned |-> pinned, seen |-> sdpo.seen,
                   model |-> sdpo.model]
      BY <2>2 DEF HandoverInv
    <3>. QED
      BY <3>1 DEF HandoverInv
  <2>3. CASE sdpo' = Over
    BY <2>3 DEF Over, Launcher, Absent, HandoverInv
  <2>. QED
    BY <2>1, <2>2, <2>3 DEF Launch
<1>3. CASE ReadPointer
  BY <1>3, PointerResolves
<1>4. CASE ReadManifest
  <2>1. sdpo.seen = NoStep
    BY <1>4 DEF ReadManifest, HandoverInv
  <2>2. CASE \E m \in Candidates : sdpo' = Resolved(m)
    <3>1. PICK m : sdpo' = [sdpo EXCEPT !.pc = "resolved", !.model = m]
      BY <2>2 DEF Resolved
    <3>2. sdpo' = [pc |-> "resolved", pinned |-> sdpo.pinned, seen |-> NoStep,
                   model |-> m]
      BY <2>1, <3>1 DEF HandoverInv
    <3>. QED
      BY <3>2 DEF HandoverInv
  <2>3. CASE sdpo' = Over \/ sdpo' = [sdpo EXCEPT !.pc = "again"]
    BY <2>1, <2>3 DEF Over, Launcher, Absent, HandoverInv
  <2>. QED
    BY <1>4, <2>2, <2>3 DEF ReadManifest
<1>5. CASE Confirm
  BY <1>5 DEF Confirm, Over, Launcher, Absent, HandoverInv
<1>6. CASE Load
  BY <1>6 DEF Load, Over, Launcher, Absent, HandoverInv
<1>. QED
  BY <1>1, <1>2, <1>3, <1>4, <1>5, <1>6 DEF LaunchNext, LaunchStep

\* With checkpoint_keep_last of two or more, an SDPO launch on a run that has
\* committed starts from the commit it saw, whole as long as the run has not
\* moved on, whatever the run does meanwhile and wherever it is killed.
THEOREM StartsFromTheCommit ==
  ASSUME KeepsTwo
  PROVE  LaunchSpec => []SdpoStartsFromTheCommit
<1>1. LaunchInit => Init /\ HandoverInv
  BY DEF LaunchInit, HandoverInv, Launcher, Absent
<1>2. [LaunchNext]_<<vars, launchVars>> => [Next]_vars
  BY LoopAsAlone
<1>3. TypeOK /\ ResumeTargetExists /\ HandoverInv /\ [LaunchNext]_<<vars, launchVars>>
      => HandoverInv'
  BY HandoverNext
<1>4. ResumeTargetExists /\ HandoverInv => SdpoStartsFromTheCommit
  BY DEF ResumeTargetExists, CommittedStep, HandoverInv, SdpoStartsFromTheCommit
<1>5. Spec => []TypeOK /\ []ResumeTargetExists
  BY TypeCorrect, ResumeTargetKept
<1>. QED
  BY <1>1, <1>2, <1>3, <1>4, <1>5, PTL DEF LaunchSpec, Spec
=============================================================================
