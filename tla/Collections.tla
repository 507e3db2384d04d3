----------------------------- MODULE Collections -----------------------------
(***************************************************************************)
(* Map and Set: a vector of entries in insertion order and an index from   *)
(* keys to places, which insert, delete, clear and the constructors keep   *)
(* in step.  A key is what hash_key_from_object, or for the methods that   *)
(* CallMethod runs itself hash_key_from_value, makes of a script value.    *)
(* forEach calls the script back, which may call any method again.         *)
(*                                                                         *)
(* A script value that serves as a key is a pair of its type and its       *)
(* value; an object and a symbol have the text inspect() gives for them in *)
(* place of the value, and a symbol its number as a third part.  The       *)
(* entries of a set, keys alone in the code, are pairs with what the       *)
(* script sees of the key.                                                 *)
(***************************************************************************)
EXTENDS Naturals, FiniteSets, SequencesExt

CONSTANTS
    Maps, Sets,  \* the collections a script may create
    KeyVals,     \* the values it uses as keys
    Vals,        \* the values it maps them to
    Undefined,
    MaxCollections,
    MaxItems,    \* items of the array a collection is created from
    MaxNesting   \* running forEach calls

ASSUME KindsAssumption == Maps \intersect Sets = {}
ASSUME BoundsAssumption == MaxItems \in Nat

VARIABLES
    entries,   \* the entries of every collection there is
    indices,   \* and the places of its keys
    visiting,  \* running forEach calls, the innermost first: the collection and the
               \* entries of the snapshot it has still to show
    filling,   \* the collection a constructor fills and the items still to come
    out        \* what the last call returned or handed to a callback

vars == <<entries, indices, visiting, filling, out>>

NotFilling == <<>>
Existing == DOMAIN entries

-----------------------------------------------------------------------------
(* Keys *)

HashKeyFromObject(v) == IF v[1] \in {"object", "symbol"} THEN <<"Other", v[2]>> ELSE v
HashKeyFromValue(v) == IF v[1] = "symbol" THEN <<"Other", v[3]>> ELSE HashKeyFromObject(v)
ObjectFromHashKey(key) == IF key[1] = "Other" THEN <<"string", key[2]>> ELSE key

(* CallMethod has the number of a symbol at hand, the builtin its text *)
HashKeys == {HashKeyFromObject(v) : v \in KeyVals} \union {HashKeyFromValue(v) : v \in KeyVals}

-----------------------------------------------------------------------------
(* Entries and indices *)

\* A mutated form: the entries behind the removed one keep their old places.
IndicesUnshifted(idx, from, kept) == idx

\* The places of the entries behind the removed one, written anew.
IndicesFrom(idx, from, kept) ==
    [k \in DOMAIN idx |->
        IF \E i \in from .. Len(kept) : kept[i][1] = k
        THEN CHOOSE i \in from .. Len(kept) : kept[i][1] = k
        ELSE idx[k]]

IndexedAt(place, key, idx) ==
    [k \in DOMAIN idx \union {key} |-> IF k = key THEN place ELSE idx[k]]

NewEntry(c, key, x) ==
    /\ entries' = [entries EXCEPT ![c] = Append(@, <<key, x>>)]
    /\ indices' = [indices EXCEPT ![c] = IndexedAt(Len(entries[c]) + 1, key, @)]

\* A mutated form: a key that is there is inserted again, at the end.
InsertLast(c, key, x) == NewEntry(c, key, x)

InsertOrReplace(c, key, x) ==
    \/ /\ key \in DOMAIN indices[c]
       /\ entries' = [entries EXCEPT ![c][indices[c][key]] = <<key, x>>]
       /\ UNCHANGED indices
    \/ key \notin DOMAIN indices[c] /\ NewEntry(c, key, x)

InsertUnique(c, key) ==
    \/ key \in DOMAIN indices[c] /\ UNCHANGED <<entries, indices>>
    \/ key \notin DOMAIN indices[c] /\ NewEntry(c, key, ObjectFromHashKey(key))

RemoveKey(c, key) ==
    \/ /\ key \in DOMAIN indices[c]
       /\ LET place == indices[c][key]
              kept == RemoveAt(entries[c], place)
              others == [k \in DOMAIN indices[c] \ {key} |-> indices[c][k]]
          IN  /\ entries' = [entries EXCEPT ![c] = kept]
              /\ indices' = [indices EXCEPT ![c] = IndicesFrom(others, place, kept)]
    \/ key \notin DOMAIN indices[c] /\ UNCHANGED <<entries, indices>>

-----------------------------------------------------------------------------
(* Creating *)

Init ==
    /\ entries = [c \in {} |-> <<>>]
    /\ indices = [c \in {} |-> <<>>]
    /\ visiting = <<>>
    /\ filling = NotFilling
    /\ out = <<>>

NoIndices == [k \in {} |-> 0]

New(c, items) ==
    /\ filling = NotFilling
    /\ c \notin Existing
    /\ Cardinality(Existing) < MaxCollections
    /\ entries' = [d \in Existing \union {c} |-> IF d = c THEN <<>> ELSE entries[d]]
    /\ indices' = [d \in Existing \union {c} |-> IF d = c THEN NoIndices ELSE indices[d]]
    /\ filling' = <<c, items>>
    /\ out' = <<>>
    /\ UNCHANGED visiting

\* new Map of an array of pairs; what is no pair is skipped
MapCtor(c, pairs) ==
    New(c, [i \in DOMAIN pairs |->
               IF pairs[i] = <<>> THEN <<>> ELSE <<HashKeyFromObject(pairs[i][1]), pairs[i][2]>>])

\* new Set of an array or of the characters of a string
SetCtor(c, values) ==
    New(c, [i \in DOMAIN values |->
               LET key == HashKeyFromObject(values[i]) IN <<key, ObjectFromHashKey(key)>>])

\* new Map of a map, new Set of a set
Copy(c, source) == New(c, entries[source])

FillEntry ==
    LET c == filling[1]
        item == Head(filling[2])
    IN  \/ item = <<>> /\ UNCHANGED <<entries, indices>>
        \/ item # <<>> /\ c \in Maps /\ InsertOrReplace(c, item[1], item[2])
        \/ item # <<>> /\ c \in Sets /\ InsertUnique(c, item[1])

Fill ==
    /\ filling # NotFilling
    /\ filling[2] # <<>>
    /\ FillEntry
    /\ filling' = [filling EXCEPT ![2] = Tail(@)]
    /\ UNCHANGED <<visiting, out>>

Filled ==
    /\ filling # NotFilling
    /\ filling[2] = <<>>
    /\ out' = <<"new", filling[1]>>
    /\ filling' = NotFilling
    /\ UNCHANGED <<entries, indices, visiting>>

-----------------------------------------------------------------------------
(* Methods; those that CallMethod runs itself get their keys from          *)
(* HashKeyFromValue, the others, called in any other way, from             *)
(* HashKeyFromObject                                                       *)

Returns(result) ==
    /\ filling = NotFilling
    /\ out' = result
    /\ UNCHANGED <<visiting, filling>>

Reads(result) == Returns(result) /\ UNCHANGED <<entries, indices>>

MapSet(c, key, x) == Returns(<<"itself", c>>) /\ InsertOrReplace(c, key, x)

MapGet(c, key) ==
    Reads(<<"value", IF key \in DOMAIN indices[c] THEN entries[c][indices[c][key]][2]
                     ELSE Undefined>>)

SetAdd(c, v) == Returns(<<"itself", c>>) /\ InsertUnique(c, HashKeyFromObject(v))

\* set without a value and add without a key
AddNothing(c) == Reads(<<"itself", c>>)

Has(c, key) == Reads(<<"has", key \in DOMAIN indices[c]>>)

Delete(c, v) ==
    /\ Returns(<<"deleted", HashKeyFromObject(v) \in DOMAIN indices[c]>>)
    /\ RemoveKey(c, HashKeyFromObject(v))

Clear(c) ==
    /\ Returns(<<"value", Undefined>>)
    /\ entries' = [entries EXCEPT ![c] = <<>>]
    /\ indices' = [indices EXCEPT ![c] = NoIndices]

Size(c) == Reads(<<"size", Len(entries[c])>>)

\* keys, values, entries, spread, Array.from and the loops
List(c) ==
    Reads(<<"list", [i \in DOMAIN entries[c] |->
                        <<ObjectFromHashKey(entries[c][i][1]), entries[c][i][2]>>]>>)

-----------------------------------------------------------------------------
(* forEach *)

ForEach(c) ==
    /\ filling = NotFilling
    /\ Len(visiting) < MaxNesting
    /\ visiting' = Cons(<<c, entries[c]>>, visiting)
    /\ out' = <<>>
    /\ UNCHANGED <<entries, indices, filling>>

\* the callback gets an entry, and runs until the next Visit or EndForEach
Visit ==
    /\ filling = NotFilling
    /\ visiting # <<>>
    /\ visiting[1][2] # <<>>
    /\ LET e == Head(visiting[1][2])
       IN  out' = <<"callback", e[2], ObjectFromHashKey(e[1]), visiting[1][1]>>
    /\ visiting' = [visiting EXCEPT ![1][2] = Tail(@)]
    /\ UNCHANGED <<entries, indices, filling>>

EndForEach ==
    /\ filling = NotFilling
    /\ visiting # <<>>
    /\ visiting[1][2] = <<>>
    /\ out' = <<"value", Undefined>>
    /\ visiting' = Tail(visiting)
    /\ UNCHANGED <<entries, indices, filling>>

\* what a callback throws is not caught by the functions that called it
CallbackFails ==
    /\ filling = NotFilling
    /\ visiting # <<>>
    /\ visiting' = <<>>
    /\ out' = <<"error">>
    /\ UNCHANGED <<entries, indices, filling>>

-----------------------------------------------------------------------------
MapCall ==
    \E c \in Maps \intersect Existing, v \in KeyVals :
        \/ \E key \in {HashKeyFromValue(v), HashKeyFromObject(v)} :
              \/ \E x \in Vals : MapSet(c, key, x)
              \/ MapGet(c, key)
              \/ Has(c, key)
        \/ Delete(c, v)

SetCall ==
    \E c \in Sets \intersect Existing, v \in KeyVals :
        SetAdd(c, v) \/ Has(c, HashKeyFromObject(v)) \/ Delete(c, v)

Create ==
    \/ \E c \in Maps, pairs \in BoundedSeq((KeyVals \X Vals) \union {<<>>}, MaxItems) :
          MapCtor(c, pairs)
    \/ \E c \in Sets, values \in BoundedSeq(KeyVals, MaxItems) : SetCtor(c, values)
    \/ \E kind \in {Maps, Sets} : \E c \in kind, source \in kind \intersect Existing :
          Copy(c, source)

Next ==
    \/ Create
    \/ Fill
    \/ Filled
    \/ MapCall
    \/ SetCall
    \/ \E c \in Existing : AddNothing(c) \/ Clear(c) \/ Size(c) \/ List(c) \/ ForEach(c)
    \/ Visit
    \/ EndForEach
    \/ CallbackFails

Spec == Init /\ [][Next]_vars
=============================================================================
