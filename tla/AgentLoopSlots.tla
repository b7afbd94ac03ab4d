--------------------------- MODULE AgentLoopSlots ---------------------------
(***************************************************************************)
(* The SDPO agent loops and the containers they share:                     *)
(* SWEBridgeAgentLoop.run, the file-backed container slot gate of          *)
(* swe_bridge_agent_loop.py, and the bounded scheduler of                  *)
(* ppo_runtime_patch.py.                                                   *)
(*                                                                         *)
(* Each worker process runs one asyncio loop.  Every blocking call of its  *)
(* agent loops (waiting for a slot, starting the container, running a      *)
(* turn, removing the container) is a job of the process's default thread  *)
(* pool, which has a fixed number of threads and one FIFO queue.  A slot   *)
(* is a file lock shared by all processes.  Time is abstract: a timeout    *)
(* may fire whenever the awaited job is not done.                          *)
(***************************************************************************)
EXTENDS Integers, Sequences, FiniteSets

CONSTANTS
    Workers,      \* agent loop worker processes
    Loops,        \* agent loops, one a sample
    WorkerOf,     \* the worker that runs each loop
    MaxInFlight,  \* _resolve_swe_agent_loop_max_in_flight
    Threads,      \* threads of a process's default executor
    SlotCount,    \* env_pool_size
    WaitBounds,   \* may a wait for a slot have a deadline
    NoLoop

Slots  == 0 .. SlotCount - 1
NoSlot == -1
\* The jobs of a loop: wait for a slot, pool.acquire, a bridge or verifier
\* call, pool.release_all.  A loop awaits one turn job at a time, so one
\* stands for them all.
Kinds  == {"gate", "start", "turn", "remove"}

ASSUME SlotAssumption ==
    /\ MaxInFlight \in Nat \ {0} /\ Threads \in Nat \ {0} /\ SlotCount \in Nat \ {0}
    /\ WorkerOf \in [Loops -> Workers] /\ IsFiniteSet(Loops)
    /\ WaitBounds \subseteq BOOLEAN /\ NoLoop \notin Loops

VARIABLES
    slot,       \* the holder of each file lock
    cursor,     \* _blocking_slot_cursor of each process
    pinned,     \* the slot file a gate job blocks on in flock
    pc,
    queue,      \* the work queue of each process's executor
    job,        \* the state of each loop's jobs
    container,  \* whether the loop's container exists
    failed,     \* workers whose generate_sequences has raised
    waitBounded \* container_slot_wait_timeout_sec > 0, a setting of the run

vars == <<slot, cursor, pinned, pc, queue, job, container, failed,
          waitBounded>>

ActivePc == {"gate", "start", "turn", "drain", "remove", "unlease"}
EndPc    == {"done", "abandoned"}

Of(w) == {l \in Loops : WorkerOf[l] = w}
InFlight(w) == {l \in Of(w) : pc[l] \in ActivePc}
Running(w)  == {j \in Of(w) \X Kinds : job[j[1]][j[2]] = "running"}

HoldsSlot(l) == \E s \in Slots : slot[s] = l
Free(s) == slot[s] = NoLoop

\* The except clause of the scheduler cancels tasks only when it bounds them.
Bounded(w) == MaxInFlight < Cardinality(Of(w))

-----------------------------------------------------------------------------
(* Faulty variants of the definitions below *)

\* The scheduler launches the whole batch.
LaunchUnbounded(l) ==
    /\ pc[l] = "new"
    /\ WorkerOf[l] \notin failed
    /\ pc' = [pc EXCEPT ![l] = "gate"]
    /\ job' = [job EXCEPT ![l]["gate"] = "queued"]
    /\ queue' = [queue EXCEPT ![WorkerOf[l]] = Append(@, <<l, "gate">>)]
    /\ UNCHANGED <<slot, cursor, pinned, container, failed>>

\* Cleanup does not wait for pool.acquire to return.
DrainAtOnce(l) ==
    /\ pc[l] = "drain"
    /\ pc' = [pc EXCEPT ![l] = "remove"]
    /\ job' = [job EXCEPT ![l]["remove"] = "queued"]
    /\ queue' = [queue EXCEPT ![WorkerOf[l]] = Append(@, <<l, "remove">>)]
    /\ UNCHANGED <<slot, cursor, pinned, container, failed>>

\* The cleanup of the loop forgets its lease.
UnleaseForgotten(l) ==
    /\ pc[l] = "unlease"
    /\ pc' = [pc EXCEPT ![l] = "done"]
    /\ UNCHANGED <<slot, cursor, pinned, queue, job, container, failed>>

-----------------------------------------------------------------------------
(* The thread pool *)

\* The loop's next job goes to the end of its process's queue.
Submit(l, k) ==
    /\ job' = [job EXCEPT ![l][k] = "queued"]
    /\ queue' = [queue EXCEPT ![WorkerOf[l]] = Append(@, <<l, k>>)]

\* A queued job whose future is cancelled never runs, though it stays in the
\* queue; a running one goes on.
Abandon(l, k) ==
    /\ job' = IF job[l][k] = "queued" THEN [job EXCEPT ![l][k] = "none"] ELSE job
    /\ UNCHANGED queue

\* The jobs of a queue that were not cancelled, by their place in it.
Waiting(w) == {i \in DOMAIN queue[w] : job[queue[w][i][1]][queue[w][i][2]] = "queued"}

\* A free thread takes the first job that was not cancelled.
ThreadTakesJob(w) ==
    /\ Cardinality(Running(w)) < Threads
    /\ \E i \in Waiting(w) :
        /\ \A k \in Waiting(w) : i <= k
        /\ job' = [job EXCEPT ![queue[w][i][1]][queue[w][i][2]] = "running"]
        /\ queue' = [queue EXCEPT ![w] = SubSeq(@, i + 1, Len(@))]
    /\ UNCHANGED <<slot, cursor, pinned, pc, container, failed>>

-----------------------------------------------------------------------------
(* The slot gate *)

\* The job's thread holds lock s.  When its loop was cancelled meanwhile, the
\* lease is dropped at once and its file closed, which unlocks it.
Granted(l, s) ==
    /\ slot' = IF pc[l] = "gate" THEN [slot EXCEPT ![s] = l] ELSE slot
    /\ job' = [job EXCEPT ![l]["gate"] = IF pc[l] = "gate" THEN "done" ELSE "none"]

\* try_acquire: the first slot file that locks without blocking.
GateTries(l) ==
    /\ job[l]["gate"] = "running" /\ pinned[l] = NoSlot
    /\ \E s \in Slots :
        /\ Free(s)
        /\ \A r \in Slots : Free(r) => s <= r
        /\ Granted(l, s)
    /\ UNCHANGED <<cursor, pinned, pc, queue, container, failed>>

\* No slot is free: block in flock on one slot file, chosen round robin.
GateBlocks(l) ==
    /\ ~waitBounded
    /\ job[l]["gate"] = "running" /\ pinned[l] = NoSlot
    /\ \A s \in Slots : ~Free(s)
    /\ LET w == WorkerOf[l] IN
        /\ pinned' = [pinned EXCEPT ![l] = cursor[w]]
        /\ cursor' = [cursor EXCEPT ![w] = (@ + 1) % SlotCount]
    /\ UNCHANGED <<slot, pc, queue, job, container, failed>>

\* flock returns when that very slot is released.
GateWakes(l) ==
    /\ pinned[l] # NoSlot
    /\ Free(pinned[l])
    /\ Granted(l, pinned[l])
    /\ pinned' = [pinned EXCEPT ![l] = NoSlot]
    /\ UNCHANGED <<cursor, pc, queue, container, failed>>

\* The polling gate gives up at its deadline.
GateGivesUp(l) ==
    /\ waitBounded
    /\ job[l]["gate"] = "running"
    /\ \A s \in Slots : ~Free(s)
    /\ job' = [job EXCEPT ![l]["gate"] = IF pc[l] = "gate" THEN "done" ELSE "none"]
    /\ UNCHANGED <<slot, cursor, pinned, pc, queue, container, failed>>

-----------------------------------------------------------------------------
(* run() of an agent loop *)

Launch(l) ==
    /\ pc[l] = "new"
    /\ WorkerOf[l] \notin failed
    /\ Cardinality(InFlight(WorkerOf[l])) < MaxInFlight
    /\ pc' = [pc EXCEPT ![l] = "gate"]
    /\ Submit(l, "gate")
    /\ UNCHANGED <<slot, cursor, pinned, container, failed>>

\* The slot is granted: start the container.
SlotAcquired(l) ==
    /\ pc[l] = "gate" /\ job[l]["gate"] = "done" /\ HoldsSlot(l)
    /\ pc' = [pc EXCEPT ![l] = "start"]
    /\ Submit(l, "start")
    /\ UNCHANGED <<slot, cursor, pinned, container, failed>>

\* The wait for a slot timed out: clean up what there is.
SlotRefused(l) ==
    /\ pc[l] = "gate" /\ job[l]["gate"] = "done" /\ ~HoldsSlot(l)
    /\ pc' = [pc EXCEPT ![l] = "drain"]
    /\ UNCHANGED <<slot, cursor, pinned, queue, job, container, failed>>

\* pool.acquire: docker run succeeds, or fails on every attempt.  Docker may
\* still create the container of a docker run that timed out.
StartRuns(l) ==
    /\ job[l]["start"] = "running"
    /\ \E up \in BOOLEAN, outcome \in {"done", "failed"} :
        /\ outcome = "done" => up
        /\ container' = [container EXCEPT ![l] = up]
        /\ job' = [job EXCEPT ![l]["start"] = outcome]
    /\ UNCHANGED <<slot, cursor, pinned, pc, queue, failed>>

Started(l) ==
    /\ pc[l] = "start" /\ job[l]["start"] \in {"done", "failed"}
    /\ IF job[l]["start"] = "done"
       THEN pc' = [pc EXCEPT ![l] = "turn"] /\ Submit(l, "turn")
       ELSE pc' = [pc EXCEPT ![l] = "drain"] /\ UNCHANGED <<queue, job>>
    /\ UNCHANGED <<slot, cursor, pinned, container, failed>>

TurnRuns(l) ==
    /\ job[l]["turn"] = "running"
    /\ job' = [job EXCEPT ![l]["turn"] = "done"]
    /\ UNCHANGED <<slot, cursor, pinned, pc, queue, container, failed>>

TurnsDone(l) ==
    /\ pc[l] = "turn" /\ job[l]["turn"] = "done"
    /\ pc' = [pc EXCEPT ![l] = "drain"]
    /\ UNCHANGED <<slot, cursor, pinned, queue, job, container, failed>>

\* The attempt budget ends.  pool.acquire is shielded; a turn is not.
AttemptTimesOut(l) ==
    /\ pc[l] \in {"start", "turn"} /\ job[l][pc[l]] \in {"queued", "running"}
    /\ IF pc[l] = "turn" THEN Abandon(l, "turn") ELSE UNCHANGED <<job, queue>>
    /\ pc' = [pc EXCEPT ![l] = "drain"]
    /\ UNCHANGED <<slot, cursor, pinned, container, failed>>

\* _cleanup_container_pool_after_acquire: pool.acquire is over before
\* release_all is called.
Drain(l) ==
    /\ pc[l] = "drain"
    /\ job[l]["start"] \notin {"queued", "running"}
    /\ pc' = [pc EXCEPT ![l] = "remove"]
    /\ Submit(l, "remove")
    /\ UNCHANGED <<slot, cursor, pinned, container, failed>>

\* release_all removes the containers the pool knows of, which a failed
\* acquire has left to docker; a docker rm that times out removes nothing.
RemoveRuns(l) ==
    /\ job[l]["remove"] = "running"
    /\ \E timedOut \in BOOLEAN :
        container' = [container EXCEPT ![l] = @ /\ (timedOut \/ job[l]["start"] = "failed")]
    /\ job' = [job EXCEPT ![l]["remove"] = "done"]
    /\ UNCHANGED <<slot, cursor, pinned, pc, queue, failed>>

Removed(l) ==
    /\ pc[l] = "remove" /\ job[l]["remove"] = "done"
    /\ pc' = [pc EXCEPT ![l] = "unlease"]
    /\ UNCHANGED <<slot, cursor, pinned, queue, job, container, failed>>

\* release_all is late: the loop goes on without it.  Still queued, it is
\* dropped and the container stays.
RemoveTimesOut(l) ==
    /\ pc[l] = "remove" /\ job[l]["remove"] # "done"
    /\ Abandon(l, "remove")
    /\ pc' = [pc EXCEPT ![l] = "unlease"]
    /\ UNCHANGED <<slot, cursor, pinned, container, failed>>

Unlease(l) ==
    /\ pc[l] = "unlease"
    /\ slot' = [s \in Slots |-> IF slot[s] = l THEN NoLoop ELSE slot[s]]
    /\ pc' = [pc EXCEPT ![l] = "done"]
    /\ UNCHANGED <<cursor, pinned, queue, job, container, failed>>

\* run() raises after its cleanup.  The scheduler cancels the loops in
\* flight and raises.  A loop cancelled at work cleans up; one cancelled in
\* its cleanup ends there, its container unremoved and its lease dropped.
RaiseAndCancel(l) ==
    /\ pc[l] = "unlease"
    /\ LET w == WorkerOf[l]
           victims == IF Bounded(w) THEN InFlight(w) \ {l} ELSE {}
           working == {v \in victims : pc[v] \in {"gate", "start", "turn"}}
           cleaning == {v \in victims : pc[v] \in {"drain", "remove"}}
           unleased == {l} \cup cleaning \cup {v \in working : pc[v] = "gate"}
           dropped(v, k) ==
               /\ v \in victims /\ k # "start"
               /\ job[v][k] = "queued" \/ (k = "gate" /\ job[v][k] = "done" /\ pc[v] = "gate")
       IN  /\ failed' = failed \cup {w}
           /\ pc' = [v \in Loops |-> CASE v = l -> "done"
                                       [] v \in working -> "drain"
                                       [] v \in cleaning -> "abandoned"
                                       [] OTHER -> pc[v]]
           /\ job' = [v \in Loops |-> [k \in Kinds |->
                          IF dropped(v, k) THEN "none" ELSE job[v][k]]]
           /\ slot' = [s \in Slots |-> IF slot[s] \in unleased THEN NoLoop ELSE slot[s]]
    /\ UNCHANGED <<cursor, pinned, queue, container>>

-----------------------------------------------------------------------------
Init ==
    /\ slot = [s \in Slots |-> NoLoop]
    /\ cursor = [w \in Workers |-> 0]
    /\ pinned = [l \in Loops |-> NoSlot]
    /\ pc = [l \in Loops |-> "new"]
    /\ queue = [w \in Workers |-> <<>>]
    /\ job = [l \in Loops |-> [k \in Kinds |-> "none"]]
    /\ container = [l \in Loops |-> FALSE]
    /\ failed = {}
    /\ waitBounded \in WaitBounds

\* Steps the event loop, the threads and docker take by themselves.
LoopStep(l) ==
    /\ \/ Launch(l) \/ SlotAcquired(l) \/ SlotRefused(l) \/ Started(l)
       \/ TurnsDone(l) \/ Drain(l) \/ Removed(l) \/ Unlease(l)
    /\ UNCHANGED waitBounded

GateStep(l) ==
    (GateTries(l) \/ GateBlocks(l) \/ GateWakes(l)) /\ UNCHANGED waitBounded

JobStep(l) ==
    (StartRuns(l) \/ TurnRuns(l) \/ RemoveRuns(l)) /\ UNCHANGED waitBounded

ThreadStep(w) == ThreadTakesJob(w) /\ UNCHANGED waitBounded

\* Steps the clock or an exception takes.
Disturbance(l) ==
    /\ AttemptTimesOut(l) \/ RemoveTimesOut(l) \/ RaiseAndCancel(l) \/ GateGivesUp(l)
    /\ UNCHANGED waitBounded

\* Every launched loop has ended.
AllEnded ==
    /\ \A l \in Loops : pc[l] \in EndPc \/ (pc[l] = "new" /\ WorkerOf[l] \in failed)
    /\ UNCHANGED vars

Next ==
    \/ \E w \in Workers : ThreadStep(w)
    \/ \E l \in Loops : LoopStep(l) \/ GateStep(l) \/ JobStep(l) \/ Disturbance(l)
    \/ AllEnded

Spec == Init /\ [][Next]_vars

\* Threads, event loops and docker commands make progress, each docker
\* command having a timeout of its own; no timeout has to fire.
FairSpec ==
    /\ Spec
    /\ \A w \in Workers : WF_vars(ThreadStep(w))
    /\ \A l \in Loops : WF_vars(LoopStep(l)) /\ WF_vars(GateStep(l)) /\ WF_vars(JobStep(l))

-----------------------------------------------------------------------------
(* Properties *)

\* Every variable has its type.
TypeOK ==
    /\ slot \in [Slots -> Loops \cup {NoLoop}]
    /\ cursor \in [Workers -> Slots]
    /\ pinned \in [Loops -> Slots \cup {NoSlot}]
    /\ pc \in [Loops -> {"new"} \cup ActivePc \cup EndPc]
    /\ queue \in [Workers -> Seq(Loops \X Kinds)]
    /\ job \in [Loops -> [Kinds -> {"none", "queued", "running", "done", "failed"}]]
    /\ container \in [Loops -> BOOLEAN]
    /\ failed \subseteq Workers
    /\ waitBounded \in WaitBounds

\* A container is created and used under a lease only: whatever timed out or
\* was cancelled, pool.acquire is never in flight for a loop that has given
\* its slot back, so the slots bound the containers that loops work with.
\* Loops cancelled in the middle of their cleanup are the exception.
ContainerUnderLease ==
    \A l \in Loops :
        /\ job[l]["start"] \in {"queued", "running"} /\ pc[l] # "abandoned" => HoldsSlot(l)
        /\ pc[l] \in {"start", "turn", "drain", "remove"} /\ container[l] => HoldsSlot(l)

\* No slot is lost: a loop that has ended, or whose wait for a slot was
\* cancelled, holds none, and a loop never holds two.  (With the types.)
SlotsComeBack ==
    /\ TypeOK
    /\ \A l \in Loops :
          /\ pc[l] \in {"new"} \cup EndPc => ~HoldsSlot(l)
          /\ Cardinality({s \in Slots : slot[s] = l}) <= 1

\* A slot holder never waits for threads that all wait for slots: its
\* attempt budget is not spent on the contention for slots.
SlotWaitSparesBudget ==
    \A l \in Loops, k \in Kinds :
        HoldsSlot(l) /\ job[l][k] = "queued" =>
            \/ Cardinality(Running(WorkerOf[l])) < Threads
            \/ \E j \in Running(WorkerOf[l]) : j[2] # "gate"

\* Every launched loop ends: no loop waits forever for a slot or a thread.
EveryLoopEnds == \A l \in Loops : pc[l] = "gate" ~> pc[l] \in EndPc
=============================================================================
