------------------------ MODULE PropertyMapProperties ------------------------
(***************************************************************************)
(* What the slots, shapes and caches of objects owe the script.            *)
(***************************************************************************)
EXTENDS PropertyMap

Entry == Keys \X (Vals \union {Undefined})

(* Type correctness of the whole state. *)
TypeOK ==
    /\ Existing \subseteq Objs
    /\ \A o \in Existing : hash[o] \in HashObject
    /\ inline_cache \in [Sites -> [shape : Nat, slot : Nat]]
    /\ \/ copying = NoCopy
       \/ copying \in Existing \X Seq(Keys \X Vals) \X SUBSET Keys
    /\ out \in Seq(Entry)

\* pairs, values and str_slots of one object describe one list of properties.
Aligned(h) ==
    /\ Len(h.pairs) = Len(h.values)
    /\ \A i \in 1 .. Len(h.pairs) : h.str_slots[h.pairs[i][1]] = i
    /\ \A k \in Keys : h.str_slots[k] # 0 =>
          h.str_slots[k] \in 1 .. Len(h.pairs) /\ h.pairs[h.str_slots[k]][1] = k

(* pairs is behind values only while pairs_dirty says so, however often    *)
(* cached writes, removals and copies alternate.                           *)
PairsFresh ==
    \A o \in Existing : ~hash[o].pairs_dirty => Contents(hash[o]) = hash[o].pairs

(* The three views of every object stay aligned through inserts, removals  *)
(* and cached writes: a property has one slot, no slot has two properties, *)
(* and a listing after sync_pairs shows the newest values.                 *)
LayoutSound == PairsFresh /\ \A o \in Existing : Aligned(hash[o])

(* The code the caches serve meets, at each site, either one object or     *)
(* objects that get the same properties in the same order.                 *)
SitesAreUniform ==
    \A s \in Sites : (\A x, y \in ObjsOf[s] : x = y) \/ ObjsOf[s] \subseteq Records

(* A site that remembers the shape of an object it meets remembers the     *)
(* slot where that object has the site's property: a cached read or write  *)
(* never lands on another property, nor behind the last one.               *)
CacheSound ==
    \A s \in Sites : \A o \in ObjsOf[s] \intersect Existing :
        inline_cache[s].shape = hash[o].shape_version =>
            /\ inline_cache[s].slot \in 1 .. Len(hash[o].pairs)
            /\ hash[o].pairs[inline_cache[s].slot][1] = KeyOf[s]

(* Objects with slots, shapes, caches and late syncing implement objects   *)
(* that are lists of properties: every read, listing and copy returns what *)
(* was written last, by whatever path, and a frozen object stays as it     *)
(* was, also where a site was warm before the freeze.  (For scripts that   *)
(* keep the writes that do not look at frozen away from it: FrozenStays.)  *)
Store == INSTANCE PropertyStore WITH
    contents <- [o \in Existing |-> Contents(hash[o])],
    frozen <- {o \in Existing : hash[o].frozen}

ImplementsStore == Store!Spec

(* The debug_assert before every cached access: the remembered slot is     *)
(* below values.len() whenever the shapes agree.                           *)
SlotInBounds ==
    \A s \in Sites : \A o \in ObjsOf[s] \intersect Existing :
        inline_cache[s].shape = hash[o].shape_version =>
            inline_cache[s].slot <= Len(hash[o].values)

(* "Silently ignore writes to frozen objects": the properties of a frozen  *)
(* object and their values never change again, whatever instruction or     *)
(* builtin writes to it.                                                   *)
FrozenStays ==
    [][\A o \in Existing : hash[o].frozen =>
          Contents(hash[o]') = Contents(hash[o])]_vars
=============================================================================
