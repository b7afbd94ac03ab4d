---------------------------- MODULE Subsequences ----------------------------
(***************************************************************************)
(* The part of a sequence at given places, as a list comprehension with a  *)
(* condition reads it off, and the places in the order it reads them.      *)
(*                                                                         *)
(* Nothing is recursive and no operator is a parameter, so that what holds *)
(* of a part can be proved.                                                *)
(***************************************************************************)
EXTENDS Integers, Sequences, FiniteSets

\* How many numbers of S are at most i: the place of i, when it is in S.
PlaceIn(S, i) == Cardinality({j \in S : j <= i})

\* The numbers of S in ascending order.
Ascending(S) ==
    [k \in 1..Cardinality(S) |-> CHOOSE i \in S : PlaceIn(S, i) = k]

\* The elements of seq at the places of S, in the order of seq.
Picked(seq, S) == [k \in 1..Cardinality(S) |-> seq[Ascending(S)[k]]]
=============================================================================
