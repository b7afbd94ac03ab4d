---------------------------- MODULE ContainerPool ----------------------------
(***************************************************************************)
(* One BatchContainerPool for each task at a time (env/container_pool.py): *)
(* docker run with retries, the best-effort removal between them, and      *)
(* release_all.  A docker command that times out is given up by the        *)
(* client only; the daemon may still carry it out, at any later time.      *)
(*                                                                         *)
(* A container is the docker run that made or will make it: task, attempt, *)
(* name, try, and how that command ended for the client.  Names are fresh  *)
(* uuids, so a name is a number within its attempt.                        *)
(***************************************************************************)
EXTENDS Integers, FiniteSets

CONSTANTS Tasks,         \* the tasks of the step
          FaultyDocker,  \* the tasks whose docker commands may go wrong
          LateBound      \* bound: given-up commands the daemon still has

ASSUME PoolAssumption ==
    /\ FaultyDocker \subseteq Tasks
    /\ LateBound \in Nat

VARIABLES phase,     \* where the pool of each task stands
          start,     \* the locals of _start_container
          handle,    \* the container in _active_handles, or none
          up,        \* the containers the daemon has
          late,      \* creations the client gave up on
          dying      \* containers whose removal the client gave up on

poolVars == <<phase, start, handle, up, late, dying>>

StartTries == 3      \* _CONTAINER_START_MAX_ATTEMPTS

Containers ==
    [task : Tasks, attempt : Nat, name : Nat, try : Nat,
     end : {"ok", "error", "timeout"}]

NoContainer == [end |-> "none"]

Phases == {"idle", "starting", "clearing", "held", "failed"}

FreshStart(attempt) ==
    [attempt |-> attempt, try |-> 0, name |-> 0, sawTimeout |-> FALSE]

Container(t, end) ==
    [task |-> t, attempt |-> start[t].attempt, name |-> start[t].name,
     try |-> start[t].try, end |-> end]

\* Names are unique among the containers the daemon has.
SameName(c, d) == c.task = d.task /\ c.attempt = d.attempt /\ c.name = d.name

NameTaken(c) == \E d \in up : SameName(c, d)

PoolInit ==
    /\ phase = [t \in Tasks |-> "idle"]
    /\ start = [t \in Tasks |-> FreshStart(0)]
    /\ handle = [t \in Tasks |-> NoContainer]
    /\ up = {}
    /\ late = {}
    /\ dying = {}

-----------------------------------------------------------------------------
\* A new pool, and acquire([task]) up to its first docker run.
Acquire(t, attempt) ==
    /\ phase[t] = "idle"
    /\ phase' = [phase EXCEPT ![t] = "starting"]
    /\ start' = [start EXCEPT ![t] = FreshStart(attempt)]
    /\ UNCHANGED <<handle, up, late, dying>>

RunStarts(t) ==
    LET c == Container(t, "ok")
    IN  /\ phase[t] = "starting"
        /\ ~NameTaken(c)
        /\ up' = up \cup {c}
        /\ handle' = [handle EXCEPT ![t] = c]
        /\ phase' = [phase EXCEPT ![t] = "held"]
        /\ UNCHANGED <<start, late, dying>>

MayGiveUp == Cardinality(late \cup dying) < LateBound

\* The container may be created all the same, or not.
MayComeLate(c) ==
    \/ late' = late
    \/ MayGiveUp /\ late' = late \cup {c}

\* docker run ends with an error other than a name conflict, as when the
\* client loses the daemon.
RunFails(t) ==
    /\ phase[t] = "starting"
    /\ t \in FaultyDocker
    /\ MayComeLate(Container(t, "error"))
    /\ phase' = [phase EXCEPT ![t] = "clearing"]
    /\ UNCHANGED <<start, handle, up, dying>>

RunTimesOut(t) ==
    /\ phase[t] = "starting"
    /\ t \in FaultyDocker
    /\ MayComeLate(Container(t, "timeout"))
    /\ start' = [start EXCEPT ![t].sawTimeout = TRUE]
    /\ phase' = [phase EXCEPT ![t] = "clearing"]
    /\ UNCHANGED <<handle, up, dying>>

\* The docker client cannot be run at all: acquire gives up at once.
RunRaises(t) ==
    /\ phase[t] = "starting"
    /\ t \in FaultyDocker
    /\ phase' = [phase EXCEPT ![t] = "failed"]
    /\ UNCHANGED <<start, handle, up, late, dying>>

\* Faulty variant: the name changes after every conflict.
NextNameAlways(s) == s.name + 1

\* After a conflict the name changes, unless a run that timed out may yet
\* create a container under it.
NextName(s) == IF s.sawTimeout THEN s.name ELSE s.name + 1

\* Faulty variant: the tries are not counted.
NextTryUncounted(t, name) ==
    /\ start' = [start EXCEPT ![t].name = name % StartTries]
    /\ phase' = [phase EXCEPT ![t] = "starting"]

\* _best_effort_remove_container removes by the name the run had, and the
\* loop goes on with conflict deciding the name of the next try.
NextTry(t, name) ==
    IF start[t].try + 1 < StartTries
    THEN /\ start' = [start EXCEPT ![t].try = @ + 1, ![t].name = name]
         /\ phase' = [phase EXCEPT ![t] = "starting"]
    ELSE /\ start' = start
         /\ phase' = [phase EXCEPT ![t] = "failed"]

\* docker rm -f of the containers in ref: done, or given up on.
Remove(t, ref) ==
    \/ /\ up' = up \ ref
       /\ dying' = dying \ ref
    \/ /\ t \in FaultyDocker /\ MayGiveUp
       /\ dying' = dying \cup (ref \cap up)
       /\ up' = up

UnderName(t) == {c \in up : SameName(c, Container(t, "ok"))}

ClearName(t) ==
    /\ phase[t] = "clearing"
    /\ Remove(t, UnderName(t))
    /\ NextTry(t, start[t].name)
    /\ UNCHANGED <<handle, late>>

\* docker run is refused since the name is taken; the container that has it
\* is removed and the next try follows.
RunConflicts(t) ==
    /\ phase[t] = "starting"
    /\ NameTaken(Container(t, "ok"))
    /\ Remove(t, UnderName(t))
    /\ NextTry(t, NextName(start[t]))
    /\ UNCHANGED <<handle, late>>

\* release_all: the handles are forgotten first, whatever docker rm does.
ReleaseAll(t) ==
    /\ phase[t] \in {"held", "failed"}
    /\ phase' = [phase EXCEPT ![t] = "idle"]
    /\ handle' = [handle EXCEPT ![t] = NoContainer]
    /\ Remove(t, IF phase[t] = "held" THEN {handle[t]} ELSE {})
    /\ UNCHANGED <<start, late>>

-----------------------------------------------------------------------------
\* The daemon finishes, or drops, what its clients no longer wait for.
CreatesLate ==
    \E c \in late :
        /\ late' = late \ {c}
        /\ up' = IF NameTaken(c) THEN up ELSE up \cup {c}
        /\ UNCHANGED <<phase, start, handle, dying>>

DropsLate ==
    \E c \in late :
        /\ late' = late \ {c}
        /\ UNCHANGED <<phase, start, handle, up, dying>>

RemovesLate ==
    \E c \in dying :
        /\ up' = up \ {c}
        /\ dying' = dying \ {c}
        /\ UNCHANGED <<phase, start, handle, late>>

Daemon == CreatesLate \/ DropsLate \/ RemovesLate

-----------------------------------------------------------------------------
\* The pool's variables hold containers, and a handle only while one is held.
PoolTypeOK ==
    /\ phase \in [Tasks -> Phases]
    /\ start \in [Tasks -> [attempt : Nat, try : 0..(StartTries - 1),
                           name : Nat, sawTimeout : BOOLEAN]]
    /\ handle \in [Tasks -> Containers \cup {NoContainer}]
    /\ up \subseteq Containers
    /\ late \subseteq Containers
    /\ dying \subseteq Containers
    /\ \A t \in Tasks : phase[t] = "held" <=> handle[t] # NoContainer

\* A docker run that timed out cannot give an attempt a second container
\* next to the one it works in: the later tries keep its name, so the daemon
\* refuses one of the two (container_pool.py:133-136).
TimedOutRunNeverDuplicates ==
    \A t \in Tasks, c \in up :
        phase[t] = "held" /\ c.end = "timeout"
        => ~ (c.task = t /\ c.attempt = handle[t].attempt)
=============================================================================
