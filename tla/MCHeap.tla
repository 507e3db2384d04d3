------------------------------- MODULE MCHeap -------------------------------
(* Small instances of the heap for TLC. *)
EXTENDS HeapProperties, TLC

RcSymmetry == Permutations(Rc)
=============================================================================
