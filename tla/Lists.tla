--------------------------------- MODULE Lists ---------------------------------
(* Erasing elements from a list, as std::list::erase in a loop does. *)
EXTENDS Integers, Sequences, FiniteSets

(***************************************************************************)
(* The list that is left of s when the elements of R are erased from it:   *)
(* the k-th element left is the one with k kept positions up to its own.   *)
(***************************************************************************)
KeptPositions(s, R) == {i \in 1..Len(s) : s[i] \notin R}

Erase(s, R) ==
    LET kept == KeptPositions(s, R)
    IN [k \in 1..Cardinality(kept) |->
          s[CHOOSE i \in kept : Cardinality({j \in kept : j <= i}) = k]]
==============================================================================
