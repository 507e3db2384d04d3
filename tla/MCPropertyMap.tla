---------------------------- MODULE MCPropertyMap ----------------------------
(* Small instances of the objects and caches for TLC. *)
EXTENDS PropertyMapProperties

CONSTANTS p, q, o, a, b, alone, shared

MCRecordKeys == <<a, b>>
MCKeyOf == [s \in Sites |-> IF s = alone THEN a ELSE b]
MCObjsOf == [s \in Sites |-> IF s = alone THEN {o} ELSE {p, q}]

Symmetry == Permutations(Vals) \union Permutations({p, q})
=============================================================================
