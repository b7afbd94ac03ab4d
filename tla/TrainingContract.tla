-------------------------- MODULE TrainingContract --------------------------
(***************************************************************************)
(* What the outer RFT loop gets from the inner training of a step: one     *)
(* trainer that takes whole batches of the rows it was given, each row     *)
(* once an epoch and one epoch after another, and saves one checkpoint,    *)
(* after the last batch of the last epoch.  How many processes share the   *)
(* work, and how they order the rows, does not show.                       *)
(***************************************************************************)
EXTENDS Integers, Sequences, FiniteSets

CONSTANT Epochs

VARIABLES rows,      \* how many rows it was given
          size,      \* rows of a batch
          lessons,   \* the batches trained, one after another
          saved,     \* the batches the checkpoint is the result of, or 0
          result     \* how the training ended

vars == <<rows, size, lessons, saved, result>>

BatchesPerEpoch == rows \div size

SameEpoch(k, l) == (k - 1) \div BatchesPerEpoch = (l - 1) \div BatchesPerEpoch

Init ==
    /\ rows = 0 /\ size = 0
    /\ lessons = <<>>
    /\ saved = 0
    /\ result = "none"

\* Rows are given once, in whole batches.
Give ==
    /\ rows = 0 /\ result = "none"
    /\ rows' \in Nat \ {0}
    /\ size' \in 1..rows' /\ rows' % size' = 0
    /\ UNCHANGED <<lessons, saved, result>>

\* A batch of rows the epoch has not seen; after the last one the result of
\* all of them is saved.
Train ==
    /\ rows > 0 /\ result = "none"
    /\ Len(lessons) < Epochs * BatchesPerEpoch
    /\ \E batch \in SUBSET (1..rows) :
          /\ Cardinality(batch) = size
          /\ \A k \in DOMAIN lessons :
                SameEpoch(k, Len(lessons) + 1) => lessons[k] \cap batch = {}
          /\ lessons' = Append(lessons, batch)
    /\ saved' = IF Len(lessons') = Epochs * BatchesPerEpoch THEN Len(lessons') ELSE 0
    /\ UNCHANGED <<rows, size, result>>

\* It fails at any time, is skipped for want of rows, or ends well with a
\* checkpoint of all it trained.
End ==
    /\ result = "none"
    /\ \/ result' = "raised"
       \/ result' = "skipped" /\ rows = 0
       \/ result' = "trained" /\ saved > 0
    /\ UNCHANGED <<rows, size, lessons, saved>>

Next == Give \/ Train \/ End

Spec == Init /\ [][Next]_vars
=============================================================================
