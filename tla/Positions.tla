------------------------------- MODULE Positions -------------------------------
(***************************************************************************)
(* What a filter leaves of a sequence, by the positions that it keeps: the *)
(* buffer that is trimmed, rows of a run, entries a seed does not have.    *)
(***************************************************************************)
EXTENDS Naturals, Sequences, FiniteSets

(* the position that the k-th of a set of positions has *)
Place(kept, k) == CHOOSE i \in kept : Cardinality({j \in kept : j <= i}) = k

(* the elements of s at the positions in kept, in order *)
Chosen(s, kept) == [k \in 1 .. Cardinality(kept) |-> s[Place(kept, k)]]
=============================================================================
