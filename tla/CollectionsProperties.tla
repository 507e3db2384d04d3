----------------------- MODULE CollectionsProperties -----------------------
(***************************************************************************)
(* What scripts rely on when they use maps and sets.                       *)
(***************************************************************************)
EXTENDS Collections

\* The index idx knows the keys of the entries es and their places.
SoundIndex(es, idx) ==
    /\ DOMAIN idx = {es[i][1] : i \in DOMAIN es}
    /\ \A i \in DOMAIN es : idx[es[i][1]] = i

(* The vector and the index of a collection tell the same: every entry's key *)
(* leads back to that entry and the index knows no other key.  insert trusts *)
(* the index with the place it overwrites, delete with the place it removes, *)
(* and delete has to write the places behind the removed entry anew          *)
(* (map_remove, set_remove), whatever ran before, callbacks of forEach       *)
(* included.                                                                 *)
IndexSound == \A c \in Existing : SoundIndex(entries[c], indices[c])

Map == INSTANCE OrderedMap
    WITH contents <- entries, Keys <- HashKeys, Shown <- ObjectFromHashKey

(* Every method returns, and hands to its callbacks, what it would if the    *)
(* collection were a plain list of entries with different keys, in the order *)
(* in which the keys came: a key set again keeps its place, a deleted and    *)
(* re-inserted one comes last, and forEach shows the entries of its start.   *)
ImplementsOrderedMap == Map!Spec
=============================================================================
