----------------------------- MODULE SdpoLaunch -----------------------------
(***************************************************************************)
(* The hand-over of a checkpoint from an RFT run to SDPO: scripts/         *)
(* run_sdpo.sh finds the model to start from in the output directory of a  *)
(* run that may still be running, or may have been killed anywhere.  It    *)
(* reads the commit pointer, falls back on the manifest, looks whether the *)
(* path exists, and only much later the trainer loads it; RftRuntimeLoop   *)
(* writes, resets and prunes in between.                                   *)
(*                                                                         *)
(* A path is known by the step whose tree it is in, and one launch is      *)
(* followed, which may come at any time.                                   *)
(***************************************************************************)
EXTENDS RftRuntimeLoop

CONSTANTS InitialIsPath   \* is config.initial_model a local path

ASSUME PathAssumption == InitialIsPath \in BOOLEAN

VARIABLES
    finalPath,  \* final_model_path of the manifest on disk
    keptPath,   \* the same key of the loop's runtime_manifest
    sdpo        \* the launcher: [pc, pinned, seen, model]

launchVars == <<finalPath, keptPath, sdpo>>

Absent == -2    \* no such key, no such model

Launcher(at) == [pc |-> at, pinned |-> FALSE, seen |-> Absent, model |-> Absent]

\* The launcher has given up, or SDPO runs, or SDPO could not load its model.
Over == Launcher("over")

LaunchInit ==
    /\ Init
    /\ finalPath = Absent
    /\ keptPath = Absent
    /\ sdpo = Launcher("idle")

-----------------------------------------------------------------------------
(* final_model_path, which the loop's steps carry along                    *)

\* _load_existing_runtime_manifest keeps the key of a committed run.
LoadedPath ==
    IF commitPointer.step = NoStep \/ ~manifest.exists THEN Absent ELSE finalPath

\* The key is set at the end of a session only; until then each write of the
\* manifest repeats what an earlier session left.
PathStep ==
    \/ (\E s \in Session : Begin(s)) /\ keptPath' = LoadedPath /\ UNCHANGED finalPath
    \/ WriteManifest /\ finalPath' = keptPath /\ UNCHANGED keptPath
    \/ FinalManifest /\ finalPath' = currentModel /\ keptPath' = Absent
    \/ /\ \E s \in Session : NothingLeft(s)
       /\ finalPath' = commitPointer.step /\ UNCHANGED keptPath
    \/ LoseManifest /\ finalPath' = Absent /\ UNCHANGED keptPath
    \/ (Abort \/ Crash) /\ keptPath' = Absent /\ UNCHANGED finalPath

OtherStep ==
    \/ \E s \in Session : Refuse(s)
    \/ LaunchServer \/ ServerReady \/ ResetBegin \/ ResetEnd \/ Collect \/ StopForTraining
    \/ TrainBegin \/ TrainEnd \/ RestartServer \/ PruneTree \/ PruneDone
    \/ PrunePayloads \/ WriteSummary \/ WritePointer \/ Finish
    \/ ServerLoads \/ ServerDies \/ Orphans

\* A refused address and a server that exits end the process as an exception
\* does.
RunStep ==
    /\ \/ PathStep
       \/ OtherStep /\ UNCHANGED <<finalPath, keptPath>>
       \/ (AddressOccupied \/ LaunchFails) /\ keptPath' = Absent /\ UNCHANGED finalPath
    /\ UNCHANGED sdpo

-----------------------------------------------------------------------------
(* The launcher                                                            *)

\* A path inside a tree that is being deleted or written is there or not.
MayExist(m)  == IF m = NoStep THEN InitialIsPath ELSE tree[m] # "none"
MustExist(m) == IF m = NoStep THEN InitialIsPath ELSE tree[m] = "full"

\* SDPO_RFT_MANIFEST names the run; without it runs are found by their
\* manifests.
Launch(pinned) ==
    /\ sdpo.pc = "idle"
    /\ sdpo' = IF pinned \/ manifest.exists
               THEN [sdpo EXCEPT !.pinned = pinned, !.pc = "pointer"] ELSE Over
    /\ UNCHANGED <<vars, finalPath, keptPath>>

Resolved(m) == [sdpo EXCEPT !.pc = "resolved", !.model = m]

\* Faulty variant: the manifest is asked first, as before there was a pointer.
FromPointerNever(c) == {}

\* _checkpoint_from_latest_commit: the checkpoint of the pointer.
FromPointer(c) == {m \in {c} : MayExist(m)}

\* A pinned run whose pointer leads nowhere is refused, a found one is tried
\* by its manifest.
ReadPointer ==
    /\ sdpo.pc = "pointer"
    /\ LET c == commitPointer.step
       IN  IF c = NoStep THEN sdpo' = [sdpo EXCEPT !.pc = "manifest", !.seen = c]
           ELSE \/ \E m \in FromPointer(c) :
                      sdpo' = [Resolved(m) EXCEPT !.seen = c]
                \/ /\ \A m \in FromPointer(c) : ~MustExist(m)
                   /\ sdpo' = IF sdpo.pinned THEN Over
                              ELSE [sdpo EXCEPT !.seen = c, !.pc = "manifest"]
    /\ UNCHANGED <<vars, finalPath, keptPath>>

\* _checkpoint_from_manifest: the first path that exists of final_model_path
\* and the checkpoints of the steps, newest first.
Candidates ==
    ({finalPath} \ {Absent}) \cup {e.step : e \in {f \in manifest.steps : f.trained}}

Before(m, n) == n # finalPath /\ (m = finalPath \/ m > n)

FirstIn(m) ==
    MayExist(m) /\ \A n \in Candidates : Before(n, m) => ~MustExist(n)

\* A run that was found is tried once more before the launcher gives up.
ReadManifest ==
    /\ sdpo.pc \in {"manifest", "again"}
    /\ \/ /\ manifest.exists
          /\ \E m \in Candidates : FirstIn(m) /\ sdpo' = Resolved(m)
       \/ /\ manifest.exists => \A m \in Candidates : ~MustExist(m)
          /\ sdpo' = IF sdpo.pinned \/ sdpo.pc = "again" THEN Over
                     ELSE [sdpo EXCEPT !.pc = "again"]
    /\ UNCHANGED <<vars, finalPath, keptPath>>

\* The launcher looks at the path once more.
Confirm ==
    /\ sdpo.pc = "resolved"
    /\ \/ MayExist(sdpo.model) /\ sdpo' = [sdpo EXCEPT !.pc = "loading"]
       \/ ~MustExist(sdpo.model) /\ sdpo' = Over
    /\ UNCHANGED <<vars, finalPath, keptPath>>

\* The workers of SDPO load the model, if it is still whole.
Load ==
    /\ sdpo.pc = "loading"
    /\ sdpo' = Over
    /\ UNCHANGED <<vars, finalPath, keptPath>>

LaunchStep ==
    \/ \E pinned \in BOOLEAN : Launch(pinned)
    \/ ReadPointer \/ ReadManifest \/ Confirm \/ Load

LaunchNext == RunStep \/ LaunchStep

\* An RFT run as fair as it is without the launcher, which may stop anywhere.
LaunchSpec ==
    /\ LaunchInit
    /\ [][LaunchNext]_<<vars, launchVars>>
    /\ Fairness

-----------------------------------------------------------------------------
(* Properties *)

\* Once a run has committed, SDPO starts from the commit the launcher saw:
\* not from the final model of an earlier session, not from a step trained
\* but never committed.  And as long as the run has not moved on, what it is
\* about to load is whole, whatever the run prunes, resets or trains
\* meanwhile (docs/stability_modules_plan.md:247, run_sdpo.sh:1339-1378).
SdpoStartsFromTheCommit ==
    sdpo.pc \in {"resolved", "loading"} /\ sdpo.seen # NoStep =>
        /\ sdpo.model = sdpo.seen
        /\ commitPointer.step = sdpo.seen => tree[sdpo.model] = "full"
=============================================================================
