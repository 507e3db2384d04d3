----------------------------- MODULE PropertyMap -----------------------------
(***************************************************************************)
(* HashObject (object.rs) and the register instructions that read, write,  *)
(* delete, list and copy the properties of an object (rvm.rs, vm.rs), with *)
(* the inline caches of a function.                                        *)
(*                                                                         *)
(* Slots are 1-based: slot i is index i-1 of pairs and values.  Every key  *)
(* is a symbol (HashKey::Sym).  A site is a cache slot of the function's   *)
(* code: it names one property and meets the objects ObjsOf[site].  A      *)
(* script builds the objects in Records by giving them the properties of   *)
(* RecordKeys in that order and never deletes one.                         *)
(***************************************************************************)
EXTENDS Integers, SequencesExt

CONSTANTS
    Objs,        \* objects the script may create
    Keys, Vals,
    Undefined,
    Records,     \* objects with the properties RecordKeys, added in order
    RecordKeys,
    Freezable,   \* objects the script may freeze
    WritesFrozen, \* the script writes to frozen objects where the code does not look
    Sites,       \* the cache slots of the code
    KeyOf,       \* the property a site names
    ObjsOf,      \* the objects a site meets
    MaxShape     \* bound on shape_version

ASSUME SiteAssumption ==
    /\ KeyOf \in [Sites -> Keys]
    /\ ObjsOf \in [Sites -> SUBSET Objs]
    /\ Records \subseteq Objs
    /\ RecordKeys \in Seq(Keys)
    /\ \A i, j \in 1 .. Len(RecordKeys) : RecordKeys[i] = RecordKeys[j] => i = j
    /\ Undefined \notin Vals
    /\ WritesFrozen \in BOOLEAN
    /\ MaxShape \in Nat

VARIABLES
    hash,          \* the HashObject of every object there is
    inline_cache,  \* [shape, slot] of every site
    copying,       \* the target, the remaining entries and the excluded keys of a
                   \* copy loop
    out            \* the entries the last instruction returned, if it reads

vars == <<hash, inline_cache, copying, out>>

NoCopy == <<>>
Existing == DOMAIN hash

HashObject == [shape_version : Nat, pairs : Seq(Keys \X Vals), values : Seq(Vals),
               str_slots : [Keys -> Nat], pairs_dirty : BOOLEAN, frozen : BOOLEAN]

EmptyHash == [shape_version |-> 1, pairs |-> <<>>, values |-> <<>>,
              str_slots |-> [k \in Keys |-> 0], pairs_dirty |-> FALSE,
              frozen |-> FALSE]

EmptyCache == [shape |-> 0, slot |-> 0]

Init ==
    /\ hash = [o \in {} |-> EmptyHash]
    /\ inline_cache = [s \in Sites |-> EmptyCache]
    /\ copying = NoCopy
    /\ out = <<>>

-----------------------------------------------------------------------------
(***************************************************************************)
(* The operations of HashObject.                                           *)
(***************************************************************************)

\* The properties of an object: values holds the newest ones.
Contents(h) == [i \in 1 .. Len(h.pairs) |-> <<h.pairs[i][1], h.values[i]>>]

Sync(h) ==
    IF h.pairs_dirty THEN [h EXCEPT !.pairs = Contents(h), !.pairs_dirty = FALSE]
    ELSE h

WriteSlot(h, slot, v) == [h EXCEPT !.values[slot] = v, !.pairs_dirty = TRUE]

InsertPair(h, k, v) ==
    IF h.str_slots[k] # 0
    THEN [h EXCEPT !.values[h.str_slots[k]] = v, !.pairs[h.str_slots[k]] = <<k, v>>]
    ELSE [h EXCEPT !.pairs = Append(@, <<k, v>>),
                   !.values = Append(@, v),
                   !.str_slots[k] = Len(h.values) + 1,
                   !.shape_version = @ + 1]

HasKey(h, k) == \E i \in 1 .. Len(h.pairs) : h.pairs[i][1] = k
SlotOf(h, k) == CHOOSE i \in 1 .. Len(h.pairs) : h.pairs[i][1] = k

\* Mutant: every slot moves down.
ShiftAll(str_slots, k, slot) ==
    [j \in Keys |-> IF j = k THEN 0 ELSE str_slots[j] - 1]

\* Mutant: the slots behind the removed one stay.
ShiftNone(str_slots, k, slot) == [str_slots EXCEPT ![k] = 0]

\* The slots behind the removed one move down.
ShiftSlots(str_slots, k, slot) ==
    [j \in Keys |-> IF j = k THEN 0
                    ELSE IF str_slots[j] > slot THEN str_slots[j] - 1
                    ELSE str_slots[j]]

\* Mutant: a removal leaves the shape as it was.
RemoveSlotSameShape(h, k, slot) ==
    [h EXCEPT !.pairs = RemoveAt(@, slot), !.values = RemoveAt(@, slot),
              !.str_slots = ShiftSlots(@, k, slot)]

RemoveSlot(h, k, slot) ==
    [h EXCEPT !.pairs = RemoveAt(@, slot),
              !.values = RemoveAt(@, slot),
              !.str_slots = ShiftSlots(@, k, slot),
              !.shape_version = @ + 1]

RemovePair(h, k) == IF HasKey(h, k) THEN RemoveSlot(Sync(h), k, SlotOf(h, k)) ELSE h

SetBySym(h, k, v) == IF h.frozen THEN h ELSE InsertPair(h, k, v)

GetBySym(h, k) == IF h.str_slots[k] # 0 THEN h.values[h.str_slots[k]] ELSE Undefined

With(o, h) == [x \in Existing \union {o} |-> IF x = o THEN h ELSE hash[x]]

-----------------------------------------------------------------------------
(***************************************************************************)
(* Inline caches.                                                          *)
(***************************************************************************)

\* The code reads and writes the remembered slot without a bounds check; what
\* happens beyond the end of values is not modelled.
Hit(s, h) ==
    /\ inline_cache[s].shape = h.shape_version
    /\ inline_cache[s].slot \in 1 .. Len(h.values)

\* A miss leaves the shape and the slot behind when the property exists.
Remember(s, h) ==
    inline_cache' =
        IF h.str_slots[KeyOf[s]] = 0 THEN inline_cache
        ELSE [inline_cache EXCEPT ![s] =
                 [shape |-> h.shape_version, slot |-> h.str_slots[KeyOf[s]]]]

Running(o) == copying = NoCopy /\ o \in Existing

\* The properties a script that builds its records in order may put next.
MayPut(o, k) ==
    hash[o].str_slots[k] = 0 =>
        /\ hash[o].shape_version < MaxShape
        /\ o \in Records =>
              /\ Len(hash[o].values) < Len(RecordKeys)
              /\ k = RecordKeys[Len(hash[o].values) + 1]

\* set_property_val and set_by_sym ignore a write to a frozen object.  The cache
\* hits of compound assignments, delete and Object.assign do not look at frozen:
\* a script without WritesFrozen keeps them away from its frozen objects.
MayWriteUnchecked(o) == hash[o].frozen => WritesFrozen

\* ROp::Hash
NewHash(o) ==
    /\ copying = NoCopy
    /\ o \notin Existing
    /\ hash' = With(o, EmptyHash)
    /\ out' = <<>>
    /\ UNCHANGED <<inline_cache, copying>>

\* The value of a property and what a site remembers of it
GetPropertyVal(s, o) ==
    LET h == hash[o]
        k == KeyOf[s]
    IN  IF Hit(s, h)
        THEN /\ out' = << <<k, h.values[inline_cache[s].slot]>> >>
             /\ UNCHANGED inline_cache
        ELSE /\ out' = << <<k, GetBySym(h, k)>> >>
             /\ Remember(s, h)

\* ROp::GetProp: the fast path in front of get_property_val reads the same slot.
GetProp(s, o) ==
    /\ Running(o)
    /\ GetPropertyVal(s, o)
    /\ UNCHANGED <<hash, copying>>

\* Mutant: a warm cache is asked before the frozen flag.
SetPropertyValHitFirst(s, o, v) ==
    LET h == hash[o]
        set == SetBySym(h, KeyOf[s], v)
    IN  IF Hit(s, h)
        THEN /\ hash' = With(o, WriteSlot(h, inline_cache[s].slot, v))
             /\ UNCHANGED inline_cache
        ELSE IF h.frozen THEN UNCHANGED <<hash, inline_cache>>
        ELSE hash' = With(o, set) /\ Remember(s, set)

SetPropertyVal(s, o, v) ==
    LET h == hash[o]
        set == SetBySym(h, KeyOf[s], v)
    IN  IF h.frozen THEN UNCHANGED <<hash, inline_cache>>
        ELSE IF Hit(s, h)
        THEN /\ hash' = With(o, WriteSlot(h, inline_cache[s].slot, v))
             /\ UNCHANGED inline_cache
        ELSE hash' = With(o, set) /\ Remember(s, set)

\* ROp::SetProp, likewise
SetProp(s, o, v) ==
    /\ Running(o)
    /\ MayPut(o, KeyOf[s])
    /\ SetPropertyVal(s, o, v)
    /\ out' = <<>>
    /\ UNCHANGED copying

\* fused_add_const_to_prop_slow: get_property_val, then set_property_val, which
\* hits when the object has the property.
AddMiss(h, k, v) ==
    IF h.frozen THEN h
    ELSE IF h.str_slots[k] # 0 THEN WriteSlot(h, h.str_slots[k], v)
    ELSE InsertPair(h, k, v)

\* ROp::AddConstToRegProp, o.k += c.  A hit writes to frozen objects too.
AddConstToRegProp(s, o, v) ==
    LET h == hash[o]
        set == AddMiss(h, KeyOf[s], v)
    IN  /\ Running(o)
        /\ MayPut(o, KeyOf[s])
        /\ Hit(s, h) => MayWriteUnchecked(o)
        /\ IF Hit(s, h)
           THEN /\ hash' = With(o, WriteSlot(h, inline_cache[s].slot, v))
                /\ UNCHANGED inline_cache
           ELSE hash' = With(o, set) /\ Remember(s, set)
        /\ out' = <<>>
        /\ UNCHANGED copying

\* ROp::Index and ROp::SetIndex with a string key
GetIndex(o, k) ==
    /\ Running(o)
    /\ out' = << <<k, GetBySym(hash[o], k)>> >>
    /\ UNCHANGED <<hash, inline_cache, copying>>

SetIndex(o, k, v) ==
    /\ Running(o)
    /\ MayPut(o, k)
    /\ hash' = With(o, SetBySym(hash[o], k, v))
    /\ out' = <<>>
    /\ UNCHANGED <<inline_cache, copying>>

\* ROp::DeleteProp
DeleteProp(o, k) ==
    /\ Running(o)
    /\ o \notin Records
    /\ HasKey(hash[o], k) => MayWriteUnchecked(o) /\ hash[o].shape_version < MaxShape
    /\ hash' = With(o, RemovePair(hash[o], k))
    /\ out' = <<>>
    /\ UNCHANGED <<inline_cache, copying>>

ObjectFreeze(o) ==
    /\ Running(o)
    /\ o \in Freezable
    /\ hash' = With(o, [hash[o] EXCEPT !.frozen = TRUE])
    /\ out' = <<>>
    /\ UNCHANGED <<inline_cache, copying>>

-----------------------------------------------------------------------------
(***************************************************************************)
(* Object.entries and the copy loops: they read pairs, after sync_pairs.   *)
(***************************************************************************)

\* Mutant: the values cached writes left behind are not synced.
Unsynced(o) == hash[o]

Synced(o) == Sync(hash[o])

ObjectEntries(o) ==
    /\ Running(o)
    /\ hash' = With(o, Synced(o))
    /\ out' = Synced(o).pairs
    /\ UNCHANGED <<inline_cache, copying>>

\* ROp::ObjectRest and, with nothing excluded, the spread of ROp::Hash
ObjectRest(from, to, excluded) ==
    /\ Running(from)
    /\ to \in (Objs \ Existing) \ Records
    /\ Len(hash[from].pairs) < MaxShape
    /\ hash' = [x \in Existing \union {to} |->
                  IF x = to THEN EmptyHash ELSE IF x = from THEN Synced(from) ELSE hash[x]]
    /\ copying' = <<to, Synced(from).pairs, excluded>>
    /\ out' = <<>>
    /\ UNCHANGED inline_cache

\* Object.assign(to, from)
ObjectAssign(from, to) ==
    /\ Running(from)
    /\ to \in Existing \ Records
    /\ MayWriteUnchecked(to)
    /\ Len(hash[from].pairs) + hash[to].shape_version <= MaxShape
    /\ hash' = With(from, Synced(from))
    /\ copying' = <<to, Synced(from).pairs, {}>>
    /\ out' = <<>>
    /\ UNCHANGED inline_cache

\* One turn of a copy loop: a key that is not excluded is given to insert_pair,
\* which does not look at frozen.
CopyEntry ==
    LET to == copying[1]
        entries == copying[2]
        excluded == copying[3]
    IN  /\ entries # <<>>
        /\ hash' = IF Head(entries)[1] \in excluded THEN hash
                   ELSE With(to, InsertPair(hash[to], Head(entries)[1], Head(entries)[2]))
        /\ copying' = <<to, Tail(entries), excluded>>
        /\ out' = <<>>
        /\ UNCHANGED inline_cache

EndCopy ==
    /\ copying[2] = <<>>
    /\ copying' = NoCopy
    /\ out' = <<>>
    /\ UNCHANGED <<hash, inline_cache>>

-----------------------------------------------------------------------------
Next ==
    \/ \E o \in Objs : NewHash(o)
    \/ \E s \in Sites : \E o \in ObjsOf[s] :
          \/ GetProp(s, o)
          \/ \E v \in Vals : SetProp(s, o, v) \/ AddConstToRegProp(s, o, v)
    \/ \E o \in Existing :
          \/ \E k \in Keys :
                \/ GetIndex(o, k) \/ DeleteProp(o, k)
                \/ \E v \in Vals : SetIndex(o, k, v)
          \/ ObjectFreeze(o) \/ ObjectEntries(o)
          \/ \E to \in Objs, excluded \in SUBSET Keys : ObjectRest(o, to, excluded)
          \/ \E to \in Objs : ObjectAssign(o, to)
    \/ copying # NoCopy /\ (CopyEntry \/ EndCopy)

Spec == Init /\ [][Next]_vars
=============================================================================
