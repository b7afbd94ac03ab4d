------------------------ MODULE AgentLoopSlotsProofs ------------------------
(***************************************************************************)
(* Proofs about slots and threads, for any number of worker processes,     *)
(* agent loops, slots and threads, and whatever times out or is cancelled: *)
(* containers exist under a lease, leases come back, and with no more      *)
(* loops in flight than threads nobody spends an attempt waiting behind    *)
(* waits for slots.                                                        *)
(***************************************************************************)
EXTENDS AgentLoopSlots, FiniteSetTheorems, TLAPS

-----------------------------------------------------------------------------
(* The inductive invariant                                                 *)

\* How far a loop's container is, by where the loop is.
StartInv ==
    \A l \in Loops :
        /\ pc[l] \in {"new", "gate"} => job[l]["start"] = "none"
        /\ pc[l] \in {"turn", "remove", "unlease", "done"} =>
              job[l]["start"] \notin {"queued", "running"}
        /\ job[l]["start"] = "none" => ~container[l]

\* A wait for a slot outlives the loop that wanted it only where the
\* scheduler has cancelled.
GateInv ==
    \A l \in Loops :
        /\ job[l]["gate"] = "queued" => pc[l] = "gate"
        /\ job[l]["gate"] = "running" => pc[l] = "gate" \/ WorkerOf[l] \in failed
        /\ pinned[l] # NoSlot => job[l]["gate"] = "running"
        /\ waitBounded => pinned[l] = NoSlot

\* Who holds a slot: a loop from its grant to its cleanup, and one slot.
LeaseOf(l) ==
    /\ pc[l] \in {"start", "turn"} => HoldsSlot(l)
    /\ pc[l] \in {"drain", "remove", "unlease"} /\ job[l]["start"] # "none" => HoldsSlot(l)
    /\ pc[l] \in {"new"} \cup EndPc => ~HoldsSlot(l)
    /\ job[l]["gate"] \in {"queued", "running"} => ~HoldsSlot(l)
    /\ \A s, r \in Slots : slot[s] = l /\ slot[r] = l => s = r

LeaseInv == \A l \in Loops : LeaseOf(l)

SlotInv == TypeOK /\ StartInv /\ GateInv /\ LeaseInv

\* A loop in flight, or one whose cancelled wait for a slot is still on a
\* thread.
Occupies(l)  == pc[l] \in ActivePc \/ job[l]["gate"] = "running"
Occupying(w) == {l \in Of(w) : Occupies(l)}

InFlightInv == \A w \in Workers : Cardinality(Occupying(w)) <= MaxInFlight

\* Slots are numbers, and NoSlot and NoLoop are neither slot nor loop.
LEMMA SlotFacts ==
  /\ Slots \subseteq Nat
  /\ 0 \in Slots
  /\ \A i \in Slots : (i + 1) % SlotCount \in Slots
  /\ NoSlot \notin Slots
  /\ NoLoop \notin Loops
  /\ WorkerOf \in [Loops -> Workers]
BY SlotAssumption DEF Slots, NoSlot

\* A job changes from one state to another.
LEMMA JobType ==
  ASSUME TypeOK, NEW l \in Loops, NEW k \in Kinds,
         NEW v \in {"none", "queued", "running", "done", "failed"}
  PROVE  [job EXCEPT ![l][k] = v]
            \in [Loops -> [Kinds -> {"none", "queued", "running", "done", "failed"}]]
BY DEF TypeOK

\* At the start no slot is held.
LEMMA SlotInit ==
  ASSUME Init
  PROVE  SlotInv
<1>. USE SlotFacts DEF Init
<1>1. TypeOK
  BY DEF TypeOK, ActivePc, EndPc, Kinds
<1>2. StartInv /\ GateInv /\ LeaseInv
  BY DEF StartInv, GateInv, LeaseInv, LeaseOf, EndPc, HoldsSlot, Kinds
<1>. QED
  BY <1>1, <1>2 DEF SlotInv

-----------------------------------------------------------------------------
(* Every step preserves it                                                 *)

\* Types.
LEMMA TypeNext ==
  ASSUME TypeOK, [Next]_vars
  PROVE  TypeOK'
<1>. USE SlotFacts
         DEF TypeOK, Kinds, ActivePc, EndPc
<1>1. ASSUME NEW w \in Workers, ThreadStep(w) PROVE TypeOK'
  BY <1>1 DEF ThreadStep, ThreadTakesJob, Waiting
<1>2. ASSUME NEW l \in Loops, LoopStep(l) PROVE TypeOK'
  <2>1. CASE Launch(l)
    BY <1>2, <2>1 DEF LoopStep, Launch, Submit
  <2>2. CASE SlotAcquired(l)
    BY <1>2, <2>2 DEF LoopStep, SlotAcquired, Submit
  <2>3. CASE SlotRefused(l)
    BY <1>2, <2>3 DEF LoopStep, SlotRefused
  <2>4. CASE Started(l)
    <3>1. CASE job[l]["start"] = "done"
      <4>1. /\ pc' = [pc EXCEPT ![l] = "turn"]
            /\ job' = [job EXCEPT ![l]["turn"] = "queued"]
            /\ queue' = [queue EXCEPT ![WorkerOf[l]] = Append(@, <<l, "turn">>)]
            /\ UNCHANGED <<slot, cursor, pinned, container, failed, waitBounded>>
        BY <1>2, <2>4, <3>1 DEF LoopStep, Started, Submit
      <4>. QED
        BY <2>4, <3>1, <4>1 DEF Started
    <3>2. CASE job[l]["start"] # "done"
      BY <1>2, <2>4, <3>2 DEF LoopStep, Started
    <3>. QED
      BY <3>1, <3>2
  <2>5. CASE TurnsDone(l)
    BY <1>2, <2>5 DEF LoopStep, TurnsDone
  <2>6. CASE Drain(l)
    BY <1>2, <2>6 DEF LoopStep, Drain, Submit
  <2>7. CASE Removed(l)
    BY <1>2, <2>7 DEF LoopStep, Removed
  <2>8. CASE Unlease(l)
    BY <1>2, <2>8 DEF LoopStep, Unlease
  <2>. QED
    BY <1>2, <2>1, <2>2, <2>3, <2>4, <2>5, <2>6, <2>7, <2>8 DEF LoopStep
<1>3. ASSUME NEW l \in Loops, GateStep(l) PROVE TypeOK'
  <2>1. CASE GateTries(l)
    BY <1>3, <2>1 DEF GateStep, GateTries, Granted, Free
  <2>2. CASE GateBlocks(l)
    BY <1>3, <2>2 DEF GateStep, GateBlocks
  <2>3. CASE GateWakes(l)
    BY <1>3, <2>3 DEF GateStep, GateWakes, Granted, Free
  <2>. QED
    BY <1>3, <2>1, <2>2, <2>3 DEF GateStep
<1>4. ASSUME NEW l \in Loops, JobStep(l) PROVE TypeOK'
  <2>1. CASE StartRuns(l)
    BY <1>4, <2>1 DEF JobStep, StartRuns
  <2>2. CASE TurnRuns(l)
    BY <1>4, <2>2 DEF JobStep, TurnRuns
  <2>3. CASE RemoveRuns(l)
    BY <1>4, <2>3 DEF JobStep, RemoveRuns
  <2>. QED
    BY <1>4, <2>1, <2>2, <2>3 DEF JobStep
<1>5. ASSUME NEW l \in Loops, Disturbance(l) PROVE TypeOK'
  <2>1. CASE AttemptTimesOut(l)
    <3>1. CASE pc[l] = "turn"
      <4>1. \/ job' = job
            \/ job' = [job EXCEPT ![l]["turn"] = "none"]
        BY <2>1, <3>1 DEF AttemptTimesOut, Abandon
      <4>2. UNCHANGED <<slot, cursor, pinned, queue, container, failed, waitBounded>>
            /\ pc' = [pc EXCEPT ![l] = "drain"]
        BY <1>5, <2>1, <3>1 DEF Disturbance, AttemptTimesOut, Abandon
      <4>3. [job EXCEPT ![l]["turn"] = "none"]
                \in [Loops -> [Kinds -> {"none", "queued", "running", "done", "failed"}]]
        BY JobType
      <4>. QED
        BY <4>1, <4>2, <4>3
    <3>2. CASE pc[l] # "turn"
      BY <1>5, <2>1, <3>2 DEF Disturbance, AttemptTimesOut
    <3>. QED
      BY <3>1, <3>2
  <2>2. CASE RemoveTimesOut(l)
    BY <1>5, <2>2 DEF Disturbance, RemoveTimesOut, Abandon
  <2>3. CASE RaiseAndCancel(l)
    BY <1>5, <2>3 DEF Disturbance, RaiseAndCancel
  <2>4. CASE GateGivesUp(l)
    BY <1>5, <2>4 DEF Disturbance, GateGivesUp
  <2>. QED
    BY <1>5, <2>1, <2>2, <2>3, <2>4 DEF Disturbance
<1>6. CASE UNCHANGED vars
  BY <1>6 DEF vars
<1>. QED
  BY <1>1, <1>2, <1>3, <1>4, <1>5, <1>6 DEF Next, AllEnded

\* pool.acquire is over before the container is removed.
LEMMA StartNext ==
  ASSUME TypeOK, StartInv, [Next]_vars
  PROVE  StartInv'
<1>. USE SlotFacts
         DEF TypeOK, StartInv, Kinds, ActivePc, EndPc
<1>1. ASSUME NEW w \in Workers, ThreadStep(w) PROVE StartInv'
  BY <1>1 DEF ThreadStep, ThreadTakesJob, Waiting
<1>2. ASSUME NEW l \in Loops, LoopStep(l) PROVE StartInv'
  <2>1. CASE Launch(l)
    BY <1>2, <2>1 DEF LoopStep, Launch, Submit
  <2>2. CASE SlotAcquired(l)
    BY <1>2, <2>2 DEF LoopStep, SlotAcquired, Submit
  <2>3. CASE SlotRefused(l)
    BY <1>2, <2>3 DEF LoopStep, SlotRefused
  <2>4. CASE Started(l)
    <3>1. CASE job[l]["start"] = "done"
      <4>1. /\ pc' = [pc EXCEPT ![l] = "turn"]
            /\ job' = [job EXCEPT ![l]["turn"] = "queued"]
            /\ queue' = [queue EXCEPT ![WorkerOf[l]] = Append(@, <<l, "turn">>)]
            /\ UNCHANGED <<slot, cursor, pinned, container, failed, waitBounded>>
        BY <1>2, <2>4, <3>1 DEF LoopStep, Started, Submit
      <4>. QED
        BY <2>4, <3>1, <4>1 DEF Started
    <3>2. CASE job[l]["start"] # "done"
      BY <1>2, <2>4, <3>2 DEF LoopStep, Started
    <3>. QED
      BY <3>1, <3>2
  <2>5. CASE TurnsDone(l)
    BY <1>2, <2>5 DEF LoopStep, TurnsDone
  <2>6. CASE Drain(l)
    BY <1>2, <2>6 DEF LoopStep, Drain, Submit
  <2>7. CASE Removed(l)
    BY <1>2, <2>7 DEF LoopStep, Removed
  <2>8. CASE Unlease(l)
    BY <1>2, <2>8 DEF LoopStep, Unlease
  <2>. QED
    BY <1>2, <2>1, <2>2, <2>3, <2>4, <2>5, <2>6, <2>7, <2>8 DEF LoopStep
<1>3. ASSUME NEW l \in Loops, GateStep(l) PROVE StartInv'
  <2>1. CASE GateTries(l)
    BY <1>3, <2>1 DEF GateStep, GateTries, Granted, Free
  <2>2. CASE GateBlocks(l)
    BY <1>3, <2>2 DEF GateStep, GateBlocks
  <2>3. CASE GateWakes(l)
    BY <1>3, <2>3 DEF GateStep, GateWakes, Granted, Free
  <2>. QED
    BY <1>3, <2>1, <2>2, <2>3 DEF GateStep
<1>4. ASSUME NEW l \in Loops, JobStep(l) PROVE StartInv'
  <2>1. CASE StartRuns(l)
    BY <1>4, <2>1 DEF JobStep, StartRuns
  <2>2. CASE TurnRuns(l)
    BY <1>4, <2>2 DEF JobStep, TurnRuns
  <2>3. CASE RemoveRuns(l)
    BY <1>4, <2>3 DEF JobStep, RemoveRuns
  <2>. QED
    BY <1>4, <2>1, <2>2, <2>3 DEF JobStep
<1>5. ASSUME NEW l \in Loops, Disturbance(l) PROVE StartInv'
  <2>1. CASE AttemptTimesOut(l)
    <3>1. CASE pc[l] = "turn"
      BY <1>5, <2>1, <3>1 DEF Disturbance, AttemptTimesOut, Abandon
    <3>2. CASE pc[l] # "turn"
      BY <1>5, <2>1, <3>2 DEF Disturbance, AttemptTimesOut
    <3>. QED
      BY <3>1, <3>2
  <2>2. CASE RemoveTimesOut(l)
    BY <1>5, <2>2 DEF Disturbance, RemoveTimesOut, Abandon
  <2>3. CASE RaiseAndCancel(l)
    BY <1>5, <2>3 DEF Disturbance, RaiseAndCancel
  <2>4. CASE GateGivesUp(l)
    BY <1>5, <2>4 DEF Disturbance, GateGivesUp
  <2>. QED
    BY <1>5, <2>1, <2>2, <2>3, <2>4 DEF Disturbance
<1>6. CASE UNCHANGED vars
  BY <1>6 DEF vars
<1>. QED
  BY <1>1, <1>2, <1>3, <1>4, <1>5, <1>6 DEF Next, AllEnded

\* A wait for a slot ends with its loop, or its worker has failed.
LEMMA GateNext ==
  ASSUME TypeOK, GateInv, [Next]_vars
  PROVE  GateInv'
<1>. USE SlotFacts
         DEF TypeOK, GateInv, Kinds, ActivePc, EndPc
<1>1. ASSUME NEW w \in Workers, ThreadStep(w) PROVE GateInv'
  BY <1>1 DEF ThreadStep, ThreadTakesJob, Waiting
<1>2. ASSUME NEW l \in Loops, LoopStep(l) PROVE GateInv'
  <2>1. CASE Launch(l)
    BY <1>2, <2>1 DEF LoopStep, Launch, Submit
  <2>2. CASE SlotAcquired(l)
    BY <1>2, <2>2 DEF LoopStep, SlotAcquired, Submit
  <2>3. CASE SlotRefused(l)
    BY <1>2, <2>3 DEF LoopStep, SlotRefused
  <2>4. CASE Started(l)
    <3>1. CASE job[l]["start"] = "done"
      <4>1. /\ pc' = [pc EXCEPT ![l] = "turn"]
            /\ job' = [job EXCEPT ![l]["turn"] = "queued"]
            /\ queue' = [queue EXCEPT ![WorkerOf[l]] = Append(@, <<l, "turn">>)]
            /\ UNCHANGED <<slot, cursor, pinned, container, failed, waitBounded>>
        BY <1>2, <2>4, <3>1 DEF LoopStep, Started, Submit
      <4>. QED
        BY <2>4, <3>1, <4>1 DEF Started
    <3>2. CASE job[l]["start"] # "done"
      BY <1>2, <2>4, <3>2 DEF LoopStep, Started
    <3>. QED
      BY <3>1, <3>2
  <2>5. CASE TurnsDone(l)
    BY <1>2, <2>5 DEF LoopStep, TurnsDone
  <2>6. CASE Drain(l)
    BY <1>2, <2>6 DEF LoopStep, Drain, Submit
  <2>7. CASE Removed(l)
    BY <1>2, <2>7 DEF LoopStep, Removed
  <2>8. CASE Unlease(l)
    BY <1>2, <2>8 DEF LoopStep, Unlease
  <2>. QED
    BY <1>2, <2>1, <2>2, <2>3, <2>4, <2>5, <2>6, <2>7, <2>8 DEF LoopStep
<1>3. ASSUME NEW l \in Loops, GateStep(l) PROVE GateInv'
  <2>1. CASE GateTries(l)
    BY <1>3, <2>1 DEF GateStep, GateTries, Granted, Free
  <2>2. CASE GateBlocks(l)
    BY <1>3, <2>2 DEF GateStep, GateBlocks
  <2>3. CASE GateWakes(l)
    BY <1>3, <2>3 DEF GateStep, GateWakes, Granted, Free
  <2>. QED
    BY <1>3, <2>1, <2>2, <2>3 DEF GateStep
<1>4. ASSUME NEW l \in Loops, JobStep(l) PROVE GateInv'
  <2>1. CASE StartRuns(l)
    BY <1>4, <2>1 DEF JobStep, StartRuns
  <2>2. CASE TurnRuns(l)
    BY <1>4, <2>2 DEF JobStep, TurnRuns
  <2>3. CASE RemoveRuns(l)
    BY <1>4, <2>3 DEF JobStep, RemoveRuns
  <2>. QED
    BY <1>4, <2>1, <2>2, <2>3 DEF JobStep
<1>5. ASSUME NEW l \in Loops, Disturbance(l) PROVE GateInv'
  <2>1. CASE AttemptTimesOut(l)
    <3>1. CASE pc[l] = "turn"
      BY <1>5, <2>1, <3>1 DEF Disturbance, AttemptTimesOut, Abandon
    <3>2. CASE pc[l] # "turn"
      BY <1>5, <2>1, <3>2 DEF Disturbance, AttemptTimesOut
    <3>. QED
      BY <3>1, <3>2
  <2>2. CASE RemoveTimesOut(l)
    BY <1>5, <2>2 DEF Disturbance, RemoveTimesOut, Abandon
  <2>3. CASE RaiseAndCancel(l)
    <3>. DEFINE w == WorkerOf[l]
                victims == IF Bounded(w) THEN InFlight(w) \ {l} ELSE {}
    <3>1. failed' = failed \cup {w} /\ pinned' = pinned /\ waitBounded' = waitBounded
      BY <1>5, <2>3 DEF Disturbance, RaiseAndCancel
    <3>2. ASSUME NEW v \in Loops
          PROVE  job'[v]["gate"] = job[v]["gate"] \/ (job'[v]["gate"] = "none"
                     /\ (job[v]["gate"] = "queued" \/ job[v]["gate"] = "done"))
      BY <2>3 DEF RaiseAndCancel
    <3>3. ASSUME NEW v \in Loops, pc'[v] # pc[v]
          PROVE  WorkerOf[v] = w /\ (v = l \/ v \in victims)
      BY <2>3, <3>3 DEF RaiseAndCancel, InFlight, Of
    <3>4. ASSUME NEW v \in victims, job[v]["gate"] = "queued"
          PROVE  job'[v]["gate"] = "none"
      BY <2>3, <3>4 DEF RaiseAndCancel, InFlight, Of
    <3>5. pc[l] = "unlease"
      BY <2>3 DEF RaiseAndCancel
    <3>. QED
      BY <3>1, <3>2, <3>3, <3>4, <3>5, ZenonT(40)
  <2>4. CASE GateGivesUp(l)
    BY <1>5, <2>4 DEF Disturbance, GateGivesUp
  <2>. QED
    BY <1>5, <2>1, <2>2, <2>3, <2>4 DEF Disturbance
<1>6. CASE UNCHANGED vars
  BY <1>6 DEF vars
<1>. QED
  BY <1>1, <1>2, <1>3, <1>4, <1>5, <1>6 DEF Next, AllEnded

\* A slot is granted to a loop at the gate and taken back in its cleanup.
LEMMA LeaseNext ==
  ASSUME TypeOK, StartInv, GateInv, LeaseInv, [Next]_vars
  PROVE  LeaseInv'
<1>. USE SlotFacts
         DEF TypeOK, StartInv, GateInv, LeaseInv, LeaseOf, HoldsSlot, Kinds,
             ActivePc, EndPc
<1>1. ASSUME NEW w \in Workers, ThreadStep(w) PROVE LeaseInv'
  BY <1>1 DEF ThreadStep, ThreadTakesJob, Waiting
<1>2. ASSUME NEW l \in Loops, LoopStep(l) PROVE LeaseInv'
  <2>1. CASE Launch(l)
    BY <1>2, <2>1 DEF LoopStep, Launch, Submit
  <2>2. CASE SlotAcquired(l)
    BY <1>2, <2>2 DEF LoopStep, SlotAcquired, Submit
  <2>3. CASE SlotRefused(l)
    BY <1>2, <2>3 DEF LoopStep, SlotRefused
  <2>4. CASE Started(l)
    <3>1. CASE job[l]["start"] = "done"
      <4>1. /\ pc' = [pc EXCEPT ![l] = "turn"]
            /\ job' = [job EXCEPT ![l]["turn"] = "queued"]
            /\ queue' = [queue EXCEPT ![WorkerOf[l]] = Append(@, <<l, "turn">>)]
            /\ UNCHANGED <<slot, cursor, pinned, container, failed, waitBounded>>
        BY <1>2, <2>4, <3>1 DEF LoopStep, Started, Submit
      <4>. QED
        BY <2>4, <3>1, <4>1 DEF Started
    <3>2. CASE job[l]["start"] # "done"
      BY <1>2, <2>4, <3>2 DEF LoopStep, Started
    <3>. QED
      BY <3>1, <3>2
  <2>5. CASE TurnsDone(l)
    BY <1>2, <2>5 DEF LoopStep, TurnsDone
  <2>6. CASE Drain(l)
    BY <1>2, <2>6 DEF LoopStep, Drain, Submit
  <2>7. CASE Removed(l)
    BY <1>2, <2>7 DEF LoopStep, Removed
  <2>8. CASE Unlease(l)
    BY <1>2, <2>8 DEF LoopStep, Unlease
  <2>. QED
    BY <1>2, <2>1, <2>2, <2>3, <2>4, <2>5, <2>6, <2>7, <2>8 DEF LoopStep
<1>3. ASSUME NEW l \in Loops, GateStep(l) PROVE LeaseInv'
  <2>1. CASE GateTries(l)
    BY <1>3, <2>1 DEF GateStep, GateTries, Granted, Free
  <2>2. CASE GateBlocks(l)
    BY <1>3, <2>2 DEF GateStep, GateBlocks
  <2>3. CASE GateWakes(l)
    BY <1>3, <2>3 DEF GateStep, GateWakes, Granted, Free
  <2>. QED
    BY <1>3, <2>1, <2>2, <2>3 DEF GateStep
<1>4. ASSUME NEW l \in Loops, JobStep(l) PROVE LeaseInv'
  <2>1. CASE StartRuns(l)
    BY <1>4, <2>1 DEF JobStep, StartRuns
  <2>2. CASE TurnRuns(l)
    BY <1>4, <2>2 DEF JobStep, TurnRuns
  <2>3. CASE RemoveRuns(l)
    BY <1>4, <2>3 DEF JobStep, RemoveRuns
  <2>. QED
    BY <1>4, <2>1, <2>2, <2>3 DEF JobStep
<1>5. ASSUME NEW l \in Loops, Disturbance(l) PROVE LeaseInv'
  <2>1. CASE AttemptTimesOut(l)
    <3>1. CASE pc[l] = "turn"
      BY <1>5, <2>1, <3>1 DEF Disturbance, AttemptTimesOut, Abandon
    <3>2. CASE pc[l] # "turn"
      BY <1>5, <2>1, <3>2 DEF Disturbance, AttemptTimesOut
    <3>. QED
      BY <3>1, <3>2
  <2>2. CASE RemoveTimesOut(l)
    BY <1>5, <2>2 DEF Disturbance, RemoveTimesOut, Abandon
  <2>3. CASE RaiseAndCancel(l)
    <3>. DEFINE w == WorkerOf[l]
                victims == IF Bounded(w) THEN InFlight(w) \ {l} ELSE {}
                working == {v \in victims : pc[v] \in {"gate", "start", "turn"}}
                cleaning == {v \in victims : pc[v] \in {"drain", "remove"}}
                unleased == {l} \cup cleaning \cup {v \in working : pc[v] = "gate"}
    <3>1. /\ pc' = [v \in Loops |-> CASE v = l -> "done"
                                     [] v \in working -> "drain"
                                     [] v \in cleaning -> "abandoned"
                                     [] OTHER -> pc[v]]
          /\ slot' = [s \in Slots |-> IF slot[s] \in unleased THEN NoLoop ELSE slot[s]]
      BY <2>3 DEF RaiseAndCancel
    <3>2. ASSUME NEW v \in Loops
          PROVE  /\ job'[v]["start"] = job[v]["start"]
                 /\ job'[v]["gate"] \in {"none", job[v]["gate"]}
      BY <2>3 DEF RaiseAndCancel
    <3>3. ASSUME NEW v \in Loops, v \in unleased
          PROVE  pc'[v] \in EndPc \/ (pc'[v] = "drain" /\ pc[v] = "gate")
      BY <3>1, <3>3, <2>3 DEF RaiseAndCancel
    <3>4. ASSUME NEW v \in Loops, v \notin unleased
          PROVE  pc'[v] = pc[v] \/ (pc'[v] = "drain" /\ pc[v] \in {"start", "turn"})
      BY <3>1, <3>4
    <3>5. ASSUME NEW v \in Loops
          PROVE  /\ HoldsSlot(v)' <=> HoldsSlot(v) /\ v \notin unleased
                 /\ \A s \in Slots : slot'[s] = v => slot[s] = v
      BY <3>1
    <3>. HIDE DEF unleased
    <3>6. ASSUME NEW v \in Loops
          PROVE  LeaseOf(v)'
      <4>1. CASE v \in unleased
        BY <3>2, <3>3, <3>5, <4>1
      <4>2. CASE v \notin unleased
        BY <3>2, <3>4, <3>5, <4>2
      <4>. QED
        BY <4>1, <4>2
    <3>. QED
      BY <3>6
  <2>4. CASE GateGivesUp(l)
    BY <1>5, <2>4 DEF Disturbance, GateGivesUp
  <2>. QED
    BY <1>5, <2>1, <2>2, <2>3, <2>4 DEF Disturbance
<1>6. CASE UNCHANGED vars
  BY <1>6 DEF vars
<1>. QED
  BY <1>1, <1>2, <1>3, <1>4, <1>5, <1>6 DEF Next, AllEnded

\* Only a launch adds to the loops that occupy their worker.
LEMMA OccupiesNext ==
  ASSUME TypeOK, GateInv, NEW v \in Loops, Occupies(v)', ~Occupies(v),
         [Next]_vars
  PROVE  Launch(v)
<1>. USE SlotFacts
         DEF TypeOK, GateInv, Occupies, Kinds, ActivePc, EndPc
<1>1. ASSUME NEW w \in Workers, ThreadStep(w) PROVE Launch(v)
  BY <1>1 DEF ThreadStep, ThreadTakesJob, Waiting
<1>2. ASSUME NEW l \in Loops, LoopStep(l) PROVE Launch(v)
  <2>1. CASE Launch(l)
    BY <1>2, <2>1 DEF LoopStep, Launch, Submit
  <2>2. CASE SlotAcquired(l)
    BY <1>2, <2>2 DEF LoopStep, SlotAcquired, Submit
  <2>3. CASE SlotRefused(l)
    BY <1>2, <2>3 DEF LoopStep, SlotRefused
  <2>4. CASE Started(l)
    <3>1. CASE job[l]["start"] = "done"
      <4>1. /\ pc' = [pc EXCEPT ![l] = "turn"]
            /\ job' = [job EXCEPT ![l]["turn"] = "queued"]
            /\ queue' = [queue EXCEPT ![WorkerOf[l]] = Append(@, <<l, "turn">>)]
            /\ UNCHANGED <<slot, cursor, pinned, container, failed, waitBounded>>
        BY <1>2, <2>4, <3>1 DEF LoopStep, Started, Submit
      <4>. QED
        BY <2>4, <3>1, <4>1 DEF Started
    <3>2. CASE job[l]["start"] # "done"
      BY <1>2, <2>4, <3>2 DEF LoopStep, Started
    <3>. QED
      BY <3>1, <3>2
  <2>5. CASE TurnsDone(l)
    BY <1>2, <2>5 DEF LoopStep, TurnsDone
  <2>6. CASE Drain(l)
    BY <1>2, <2>6 DEF LoopStep, Drain, Submit
  <2>7. CASE Removed(l)
    BY <1>2, <2>7 DEF LoopStep, Removed
  <2>8. CASE Unlease(l)
    BY <1>2, <2>8 DEF LoopStep, Unlease
  <2>. QED
    BY <1>2, <2>1, <2>2, <2>3, <2>4, <2>5, <2>6, <2>7, <2>8 DEF LoopStep
<1>3. ASSUME NEW l \in Loops, GateStep(l) PROVE Launch(v)
  <2>1. CASE GateTries(l)
    BY <1>3, <2>1 DEF GateStep, GateTries, Granted, Free
  <2>2. CASE GateBlocks(l)
    BY <1>3, <2>2 DEF GateStep, GateBlocks
  <2>3. CASE GateWakes(l)
    BY <1>3, <2>3 DEF GateStep, GateWakes, Granted, Free
  <2>. QED
    BY <1>3, <2>1, <2>2, <2>3 DEF GateStep
<1>4. ASSUME NEW l \in Loops, JobStep(l) PROVE Launch(v)
  <2>1. CASE StartRuns(l)
    BY <1>4, <2>1 DEF JobStep, StartRuns
  <2>2. CASE TurnRuns(l)
    BY <1>4, <2>2 DEF JobStep, TurnRuns
  <2>3. CASE RemoveRuns(l)
    BY <1>4, <2>3 DEF JobStep, RemoveRuns
  <2>. QED
    BY <1>4, <2>1, <2>2, <2>3 DEF JobStep
<1>5. ASSUME NEW l \in Loops, Disturbance(l) PROVE Launch(v)
  <2>1. CASE AttemptTimesOut(l)
    <3>1. CASE pc[l] = "turn"
      BY <1>5, <2>1, <3>1 DEF Disturbance, AttemptTimesOut, Abandon
    <3>2. CASE pc[l] # "turn"
      BY <1>5, <2>1, <3>2 DEF Disturbance, AttemptTimesOut
    <3>. QED
      BY <3>1, <3>2
  <2>2. CASE RemoveTimesOut(l)
    BY <1>5, <2>2 DEF Disturbance, RemoveTimesOut, Abandon
  <2>3. CASE RaiseAndCancel(l)
    BY <1>5, <2>3 DEF Disturbance, RaiseAndCancel
  <2>4. CASE GateGivesUp(l)
    BY <1>5, <2>4 DEF Disturbance, GateGivesUp
  <2>. QED
    BY <1>5, <2>1, <2>2, <2>3, <2>4 DEF Disturbance
<1>6. CASE UNCHANGED vars
  BY <1>6 DEF vars
<1>. QED
  BY <1>1, <1>2, <1>3, <1>4, <1>5, <1>6 DEF Next, AllEnded

\* There are finitely many loops.
LEMMA OccupyingFinite ==
  ASSUME NEW w
  PROVE  IsFiniteSet(Occupying(w)) /\ Cardinality(Occupying(w)) \in Nat
<1>1. Occupying(w) \in SUBSET Loops
  BY DEF Occupying, Of
<1>. QED
  BY <1>1, FS_Subset, FS_CardinalityType, SlotAssumption

\* Where nothing was cancelled, the scheduler's count of the loops in flight
\* is the count of those that occupy threads.
LEMMA InFlightNext ==
  ASSUME TypeOK, GateInv, InFlightInv, [Next]_vars
  PROVE  InFlightInv'
<1>. SUFFICES ASSUME NEW w \in Workers
              PROVE  Cardinality(Occupying(w)') <= MaxInFlight
  BY DEF InFlightInv
<1>. DEFINE before == Occupying(w)
            after  == Occupying(w)'
<1>1. Cardinality(before) <= MaxInFlight /\ IsFiniteSet(before) /\ Cardinality(before) \in Nat
  BY OccupyingFinite DEF InFlightInv
<1>2. MaxInFlight \in Nat
  BY SlotAssumption
<1>3. CASE after \subseteq before
  <2>1. Cardinality(after) <= Cardinality(before) /\ Cardinality(after) \in Nat
    BY <1>1, <1>3, FS_Subset, FS_CardinalityType
  <2>. QED
    BY <1>1, <1>2, <2>1
<1>4. CASE ~(after \subseteq before)
  <2>1. PICK l \in Loops : l \in after /\ l \notin before
    BY <1>4 DEF Occupying, Of
  <2>2. WorkerOf[l] = w /\ Occupies(l)' /\ ~Occupies(l)
    BY <2>1 DEF Occupying, Of
  <2>3. Launch(l)
    BY <2>2, OccupiesNext
  <2>4. after \subseteq before \cup {l}
    BY <2>3 DEF Launch, Submit, Occupying, Occupies, Of, TypeOK, Kinds, ActivePc
  <2>5. before = InFlight(w)
    BY <2>2, <2>3 DEF Launch, Occupying, Occupies, InFlight, Of, GateInv, ActivePc
  <2>6. Cardinality(before) < MaxInFlight
    BY <2>2, <2>3, <2>5 DEF Launch
  <2>7. IsFiniteSet(before \cup {l}) /\ Cardinality(before \cup {l}) <= Cardinality(before) + 1
    BY <1>1, FS_AddElement
  <2>8. Cardinality(after) <= Cardinality(before \cup {l})
    BY <2>4, <2>7, FS_Subset
  <2>9. Cardinality(after) \in Nat /\ Cardinality(before \cup {l}) \in Nat
    BY <2>4, <2>7, FS_Subset, FS_CardinalityType
  <2>. QED
    BY <1>1, <1>2, <2>6, <2>7, <2>8, <2>9
<1>. QED
  BY <1>3, <1>4

-----------------------------------------------------------------------------
(* The theorems                                                            *)

\* Leases, containers and waits for slots agree in every state.
THEOREM SlotInvariant == Spec => [](SlotInv /\ InFlightInv)
<1>1. Init => SlotInv
  BY SlotInit
<1>2. Init => InFlightInv
  <2>. SUFFICES ASSUME Init, NEW w \in Workers
                PROVE  Cardinality(Occupying(w)) <= MaxInFlight
    BY DEF InFlightInv
  <2>1. Occupying(w) = {}
    BY DEF Init, Occupying, Occupies, Of, ActivePc, Kinds
  <2>. QED
    BY <2>1, FS_EmptySet, SlotAssumption
<1>3. SlotInv /\ InFlightInv /\ [Next]_vars => (SlotInv /\ InFlightInv)'
  BY TypeNext, StartNext, GateNext, LeaseNext, InFlightNext DEF SlotInv
<1>. QED
  BY <1>1, <1>2, <1>3, PTL DEF Spec

\* A container is started and used under a lease only.
THEOREM Leased == Spec => []ContainerUnderLease
<1>1. SlotInv => ContainerUnderLease
  BY DEF SlotInv, TypeOK, StartInv, LeaseInv, LeaseOf, ContainerUnderLease, ActivePc, EndPc
<1>. QED
  BY <1>1, SlotInvariant, PTL

\* A loop that has ended holds no slot, and no loop holds two.
THEOREM SlotsReturned == Spec => []SlotsComeBack
<1>1. SlotInv => SlotsComeBack
  <2>. SUFFICES ASSUME SlotInv, NEW l \in Loops
                PROVE  Cardinality({s \in Slots : slot[s] = l}) <= 1
    BY DEF SlotInv, LeaseInv, LeaseOf, SlotsComeBack
  <2>. DEFINE Held == {s \in Slots : slot[s] = l}
  <2>1. CASE Held = {}
    BY <2>1, FS_EmptySet
  <2>2. CASE Held # {}
    <3>1. PICK s \in Held : TRUE
      BY <2>2
    <3>2. Held = {s}
      BY <3>1 DEF SlotInv, LeaseInv, LeaseOf
    <3>3. Cardinality(Held) = 1
      BY <3>2, FS_Singleton, Zenon
    <3>. QED
      BY <3>3
  <2>. QED
    BY <2>1, <2>2
<1>. QED
  BY <1>1, SlotInvariant, PTL

\* With at least as many threads as loops in flight, a loop that holds a slot
\* finds a thread that does not wait for one.
THEOREM BudgetSpared ==
  ASSUME MaxInFlight <= Threads
  PROVE  Spec => []SlotWaitSparesBudget
<1>1. SlotInv /\ InFlightInv => SlotWaitSparesBudget
  <2>. SUFFICES ASSUME SlotInv, InFlightInv, NEW l \in Loops,
                       HoldsSlot(l), \A j \in Running(WorkerOf[l]) : j[2] = "gate"
                PROVE  Cardinality(Running(WorkerOf[l])) < Threads
    BY DEF SlotWaitSparesBudget
  <2>. DEFINE w      == WorkerOf[l]
              Others == Occupying(w) \ {l}
              loopOf == [j \in Running(w) |-> j[1]]
  <2>1. pc[l] \in ActivePc /\ job[l]["gate"] # "running" /\ l \in Occupying(w)
    BY DEF SlotInv, TypeOK, LeaseInv, LeaseOf, EndPc, Occupying, Occupies, Of
  <2>2. w \in Workers /\ Cardinality(Occupying(w)) <= MaxInFlight
    BY SlotAssumption DEF InFlightInv
  <2>3. /\ IsFiniteSet(Others)
        /\ Cardinality(Others) = Cardinality(Occupying(w)) - 1
        /\ Cardinality(Occupying(w)) \in Nat
    BY <2>1, OccupyingFinite, FS_RemoveElement
  <2>4. ASSUME NEW j \in Running(w)
        PROVE  j = <<j[1], "gate">> /\ j[1] \in Others
    <3>1. j \in Of(w) \X Kinds /\ job[j[1]][j[2]] = "running" /\ j[2] = "gate"
      BY <2>4 DEF Running
    <3>. QED
      BY <2>1, <3>1 DEF Occupying, Occupies
  <2>5. loopOf \in Injection(Running(w), Others)
    <3>1. loopOf \in [Running(w) -> Others]
      BY <2>4
    <3>2. ASSUME NEW i \in Running(w), NEW j \in Running(w), loopOf[i] = loopOf[j]
          PROVE  i = j
      BY <2>4, <3>2
    <3>. QED
      BY <3>1, <3>2 DEF Injection, IsInjective
  <2>6. Cardinality(Running(w)) <= Cardinality(Others) /\ Cardinality(Running(w)) \in Nat
    BY <2>3, <2>5, FS_Injection, FS_CardinalityType
  <2>. QED
    BY <2>2, <2>3, <2>6, SlotAssumption
<1>. QED
  BY <1>1, SlotInvariant, PTL
=============================================================================
