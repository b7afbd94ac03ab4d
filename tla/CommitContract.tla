--------------------------- MODULE CommitContract ---------------------------
(***************************************************************************)
(* What the outer RFT loop promises about its output directory             *)
(* (src/docs/stability_modules_plan.md, sections 6.2 to 6.5): there is one *)
(* authoritative latest commit, it only moves forward, it always names a   *)
(* complete checkpoint, and any other checkpoint may appear or go at any   *)
(* time.                                                                   *)
(***************************************************************************)
EXTENDS Integers

CONSTANT Steps        \* the outer steps, natural numbers

NotCommitted == -1

VARIABLES latest,     \* the committed step, or NotCommitted
          available   \* the steps whose checkpoint is complete on disk

vars == <<latest, available>>

Init == latest = NotCommitted /\ available = {}

Save(t) ==
    /\ t > latest
    /\ available' = available \cup {t}
    /\ UNCHANGED latest

Discard(t) ==
    /\ t # latest
    /\ available' = available \ {t}
    /\ UNCHANGED latest

Commit(t) ==
    /\ t > latest
    /\ t \in available
    /\ latest' = t
    /\ UNCHANGED available

Next == \E t \in Steps : Save(t) \/ Discard(t) \/ Commit(t)

Spec == Init /\ [][Next]_vars
=============================================================================
