------------------------------ MODULE Filters ------------------------------
(***************************************************************************)
(* Selection from a sequence, written as a recursive function so that the  *)
(* proofs can use it: the filters of the code (retain, filter, filter_map) *)
(* keep the order of what they select.                                     *)
(***************************************************************************)
EXTENDS Integers, Sequences

\* The elements of s that are in T, in their order.
Among(s, T) ==
  LET pick[i \in 0..Len(s)] ==
        IF i = 0 THEN <<>>
        ELSE IF s[i] \in T THEN Append(pick[i - 1], s[i])
        ELSE pick[i - 1]
  IN  pick[Len(s)]
=============================================================================
