------------------------------- MODULE Ranking -------------------------------
(***************************************************************************)
(* Sorting a slice, and keeping some of it: sort.SliceStable and the loops *)
(* that append what passes a test.  An order is a set of pairs, and a set  *)
(* is put in order by counting what precedes each of its elements.  That   *)
(* is what SetToSortSeq and SelectSeq of the community modules answer; the *)
(* provers know nothing of those.                                          *)
(***************************************************************************)
EXTENDS Integers, FiniteSets

\* What comes before x.
preceding(T, R, x) == {y \in T : <<y, x>> \in R}

\* The elements of T in the order R.
Arranged(T, R) ==
    [i \in 1 .. Cardinality(T) |->
        CHOOSE x \in T : Cardinality(preceding(T, R, x)) = i - 1]

\* What the slice e has at the places T.
Kept(e, T) ==
    LET order == Arranged(T, {p \in T \X T : p[1] < p[2]})
    IN [i \in DOMAIN order |-> e[order[i]]]
=============================================================================
