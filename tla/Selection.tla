------------------------------- MODULE Selection -------------------------------
(***************************************************************************)
(* Elements picked out of a sequence by their positions, in their order:   *)
(* what the list comprehensions of the code leave of a list.               *)
(***************************************************************************)
EXTENDS Integers, Sequences, Functions

Earliest(S) == CHOOSE i \in S : \A j \in S : i <= j
Latest(S) == CHOOSE i \in S : \A j \in S : j <= i

\* The elements of s at the positions S, in their order.
Kept(s, S) == MapThenFoldSet(LAMBDA i, kept : Append(kept, s[i]), <<>>, LAMBDA i : i, Latest, S)
================================================================================
