-------------------------- MODULE CollectionsProofs --------------------------
(***************************************************************************)
(* The index of every map and set stays sound, and maps and sets implement *)
(* OrderedMap: an index that is sound finds what a search of the list      *)
(* finds.                                                                  *)
(***************************************************************************)
EXTENDS CollectionsProperties, SequenceTheorems, TLAPS

Pairs == HashKeys \X Vals
Members == {<<k, ObjectFromHashKey(k)>> : k \in HashKeys}

EntriesOf(c) == IF c \in Sets THEN Members ELSE Pairs
ItemsOf(c) == IF c \in Sets THEN Members ELSE Pairs \union {<<>>}

Indices == UNION {[K -> Nat] : K \in SUBSET HashKeys}

(* The entries of a set are its keys with what the script sees of them.      *)
Kept ==
    /\ entries = [c \in Existing |-> entries[c]]
    /\ Existing \subseteq Maps \union Sets
    /\ \A c \in Existing : entries[c] \in Seq(EntriesOf(c))
    /\ indices \in [Existing -> Indices]
    /\ IndexSound

(* An array of pairs may hold what is no pair.                               *)
FillingType ==
    \/ filling = NotFilling
    \/ /\ filling = <<filling[1], filling[2]>>
       /\ filling[1] \in Existing
       /\ filling[2] \in Seq(ItemsOf(filling[1]))

Inv == Kept /\ FillingType

-----------------------------------------------------------------------------
(***************************************************************************)
(* One collection: a list of entries and its index.                        *)
(***************************************************************************)

(* Each entry is a key and what belongs to it.                               *)
LEMMA EntryType ==
    ASSUME NEW c
    PROVE  /\ EntriesOf(c) \subseteq ItemsOf(c)
           /\ \A e \in EntriesOf(c) : e[1] \in HashKeys /\ e = <<e[1], e[2]>>
           /\ \A e \in ItemsOf(c) : e # <<>> => e \in EntriesOf(c)
           /\ \A k \in HashKeys : c \in Sets => <<k, ObjectFromHashKey(k)>> \in EntriesOf(c)
           /\ \A k \in HashKeys, x \in Vals : c \notin Sets => <<k, x>> \in EntriesOf(c)
BY DEF EntriesOf, ItemsOf, Members, Pairs

(* An entry whose key is new comes last.                                     *)
LEMMA AppendSound ==
    ASSUME NEW c, NEW es \in Seq(EntriesOf(c)), NEW idx \in Indices, SoundIndex(es, idx),
           NEW k \in HashKeys, k \notin DOMAIN idx, NEW x, <<k, x>> \in EntriesOf(c),
           NEW es2, es2 = Append(es, <<k, x>>),
           NEW idx2, idx2 = IndexedAt(Len(es) + 1, k, idx)
    PROVE  es2 \in Seq(EntriesOf(c)) /\ idx2 \in Indices /\ SoundIndex(es2, idx2)
<1>0. idx2 = [j \in DOMAIN idx \union {k} |-> IF j = k THEN Len(es) + 1 ELSE idx[j]]
  BY DEF IndexedAt
<1>1. es2 \in Seq(EntriesOf(c)) /\ Len(es2) = Len(es) + 1 /\ DOMAIN es2 = 1 .. Len(es) + 1
  OBVIOUS
<1>2. DOMAIN es = 1 .. Len(es) /\ Len(es) \in Nat
  OBVIOUS
<1>3. \A i \in 1 .. Len(es) : es2[i] = es[i]
  OBVIOUS
<1>4. es2[Len(es) + 1] = <<k, x>>
  OBVIOUS
<1>5. PICK K \in SUBSET HashKeys : idx \in [K -> Nat]
  BY DEF Indices
<1>6. idx2 \in [K \union {k} -> Nat] /\ K \union {k} \in SUBSET HashKeys
  BY <1>0, <1>2, <1>5
<1>7. idx2 \in Indices
  BY <1>6 DEF Indices
<1>8. \A i \in 1 .. Len(es) : es[i][1] \in K /\ es[i][1] # k
  BY <1>2, <1>5 DEF SoundIndex
<1>9. {es2[i][1] : i \in DOMAIN es2} = {es[i][1] : i \in DOMAIN es} \union {k}
  BY <1>1, <1>2, <1>3, <1>4
<1>10. DOMAIN idx2 = {es2[i][1] : i \in DOMAIN es2}
  BY <1>0, <1>9 DEF SoundIndex
<1>11. \A i \in DOMAIN es2 : idx2[es2[i][1]] = i
  <2>1. ASSUME NEW i \in 1 .. Len(es)
        PROVE  idx2[es[i][1]] = i
    BY <1>0, <1>2, <1>5, <1>8 DEF SoundIndex
  <2>2. idx2[k] = Len(es) + 1
    BY <1>0
  <2>3. ASSUME NEW i \in 1 .. Len(es) + 1
        PROVE  idx2[es2[i][1]] = i
    <3>1. CASE i = Len(es) + 1
      BY <1>4, <2>2, <3>1
    <3>2. CASE i \in 1 .. Len(es)
      BY <1>3, <2>1, <3>2
    <3> QED BY <1>2, <3>1, <3>2
  <2> QED BY <1>1, <2>3
<1> QED BY <1>1, <1>7, <1>10, <1>11 DEF SoundIndex

(* An entry whose key is there takes its place.                              *)
LEMMA ReplaceSound ==
    ASSUME NEW c, NEW es \in Seq(EntriesOf(c)), NEW idx \in Indices, SoundIndex(es, idx),
           NEW k \in HashKeys, k \in DOMAIN idx, NEW x, <<k, x>> \in EntriesOf(c)
    PROVE  LET es2 == [es EXCEPT ![idx[k]] = <<k, x>>]
           IN  es2 \in Seq(EntriesOf(c)) /\ SoundIndex(es2, idx)
<1> DEFINE es2 == [es EXCEPT ![idx[k]] = <<k, x>>]
<1>1. DOMAIN es = 1 .. Len(es) /\ Len(es) \in Nat
  OBVIOUS
<1>2. PICK p \in DOMAIN es : es[p][1] = k
  BY DEF SoundIndex
<1>3. idx[k] = p
  BY <1>2 DEF SoundIndex
<1>4. es2 \in Seq(EntriesOf(c)) /\ DOMAIN es2 = DOMAIN es
  BY <1>1, <1>3
<1>5. \A i \in DOMAIN es : es2[i][1] = es[i][1]
  BY <1>1, <1>2, <1>3
<1> HIDE DEF es2
<1> QED BY <1>4, <1>5 DEF SoundIndex, es2

(* What RemoveAt leaves.                                                     *)
LEMMA RemoveAtType ==
    ASSUME NEW S, NEW es \in Seq(S), NEW p \in 1 .. Len(es)
    PROVE  /\ RemoveAt(es, p) \in Seq(S)
           /\ Len(RemoveAt(es, p)) = Len(es) - 1
           /\ \A i \in 1 .. Len(es) - 1 :
                 RemoveAt(es, p)[i] = IF i < p THEN es[i] ELSE es[i + 1]
<1> DEFINE front == SubSeq(es, 1, p - 1)
           back == SubSeq(es, p + 1, Len(es))
<1>1. Len(es) \in Nat /\ \A i \in 1 .. Len(es) : es[i] \in S
  OBVIOUS
<1>2. /\ front \in Seq(S)
      /\ Len(front) = p - 1
      /\ \A i \in 1 .. p - 1 : front[i] = es[i]
  <2>1. \A i \in 1 .. p - 1 : es[i] \in S
    BY <1>1
  <2> QED BY <1>1, <2>1, SubSeqProperties
<1>3. /\ back \in Seq(S)
      /\ Len(back) = Len(es) - p
      /\ \A i \in 1 .. Len(es) - p : back[i] = es[p + i]
  <2>1. \A i \in p + 1 .. Len(es) : es[i] \in S
    BY <1>1
  <2>2. /\ SubSeq(es, p + 1, Len(es)) \in Seq(S)
        /\ Len(SubSeq(es, p + 1, Len(es))) = IF p + 1 <= Len(es) THEN Len(es) - (p + 1) + 1 ELSE 0
        /\ \A i \in 1 .. Len(es) - (p + 1) + 1 :
              SubSeq(es, p + 1, Len(es))[i] = es[(p + 1) + i - 1]
    BY <1>1, <2>1, SubSeqProperties
  <2> QED BY <1>1, <2>2
<1> HIDE DEF front, back
<1>4. /\ front \o back \in Seq(S)
      /\ Len(front \o back) = Len(front) + Len(back)
      /\ \A i \in 1 .. Len(front) + Len(back) :
            (front \o back)[i] = IF i <= Len(front) THEN front[i] ELSE back[i - Len(front)]
  BY <1>2, <1>3, ConcatProperties
<1>5. \A i \in 1 .. Len(es) - 1 :
         (front \o back)[i] = IF i < p THEN es[i] ELSE es[i + 1]
  <2> SUFFICES ASSUME NEW i \in 1 .. Len(es) - 1
               PROVE  (front \o back)[i] = IF i < p THEN es[i] ELSE es[i + 1]
    OBVIOUS
  <2>1. CASE i < p
    BY <1>1, <1>2, <1>3, <1>4, <2>1
  <2>2. CASE ~(i < p)
    <3>1. i - Len(front) \in 1 .. Len(es) - p /\ p + (i - Len(front)) = i + 1
      BY <1>1, <1>2, <2>2
    <3>2. (front \o back)[i] = back[i - Len(front)]
      BY <1>1, <1>2, <1>3, <1>4, <2>2
    <3> QED BY <1>3, <2>2, <3>1, <3>2
  <2> QED BY <2>1, <2>2
<1>6. RemoveAt(es, p) = front \o back
  BY DEF RemoveAt, front, back
<1>7. Len(front \o back) = Len(es) - 1
  BY <1>1, <1>2, <1>3, <1>4
<1> QED BY <1>4, <1>5, <1>6, <1>7

(* Removing an entry moves those behind it, and the index follows.           *)
LEMMA RemoveSound ==
    ASSUME NEW c, NEW es \in Seq(EntriesOf(c)), NEW idx \in Indices, SoundIndex(es, idx),
           NEW k \in HashKeys, k \in DOMAIN idx
    PROVE  LET kept == RemoveAt(es, idx[k])
               others == [j \in DOMAIN idx \ {k} |-> idx[j]]
               idx2 == IndicesFrom(others, idx[k], kept)
           IN  kept \in Seq(EntriesOf(c)) /\ idx2 \in Indices /\ SoundIndex(kept, idx2)
<1> DEFINE p == idx[k]
           n == Len(es)
           kept == RemoveAt(es, p)
           others == [j \in DOMAIN idx \ {k} |-> idx[j]]
           idx2 == IndicesFrom(others, p, kept)
<1>1. DOMAIN es = 1 .. n /\ n \in Nat
  OBVIOUS
<1>2. p \in 1 .. n /\ es[p][1] = k
  BY <1>1 DEF SoundIndex
<1>3. /\ kept \in Seq(EntriesOf(c))
      /\ Len(kept) = n - 1
      /\ \A i \in 1 .. n - 1 : kept[i] = IF i < p THEN es[i] ELSE es[i + 1]
  BY <1>2, RemoveAtType
<1>4. DOMAIN kept = 1 .. n - 1
  BY <1>3
<1>5. \A i \in 1 .. n, j \in 1 .. n : es[i][1] = es[j][1] => i = j
  BY <1>1 DEF SoundIndex
<1> HIDE DEF kept, n
<1>6. \A i \in 1 .. n - 1, j \in 1 .. n - 1 : kept[i][1] = kept[j][1] => i = j
  <2> SUFFICES ASSUME NEW i \in 1 .. n - 1, NEW j \in 1 .. n - 1, kept[i][1] = kept[j][1]
               PROVE  i = j
    OBVIOUS
  <2> DEFINE at(m) == IF m < p THEN m ELSE m + 1
  <2>1. at(i) \in 1 .. n /\ at(j) \in 1 .. n
    BY <1>1, <1>2
  <2>2. kept[i] = es[at(i)] /\ kept[j] = es[at(j)]
    BY <1>3
  <2>3. at(i) = at(j)
    <3> HIDE DEF at
    <3> QED BY <1>5, <2>1, <2>2
  <2> QED BY <1>1, <1>2, <2>3
<1>7. {kept[i][1] : i \in DOMAIN kept} = DOMAIN idx \ {k}
  <2>1. ASSUME NEW i \in 1 .. n - 1
        PROVE  kept[i][1] \in DOMAIN idx \ {k}
    <3>1. CASE i < p
      <4>1. kept[i] = es[i] /\ i \in 1 .. n /\ i # p
        BY <1>1, <1>2, <1>3, <3>1
      <4> QED BY <1>1, <1>2, <1>5, <4>1 DEF SoundIndex
    <3>2. CASE ~(i < p)
      <4>1. kept[i] = es[i + 1] /\ i + 1 \in 1 .. n /\ i + 1 # p
        BY <1>1, <1>2, <1>3, <3>2
      <4> QED BY <1>1, <1>2, <1>5, <4>1 DEF SoundIndex
    <3> QED BY <3>1, <3>2
  <2>2. ASSUME NEW j \in DOMAIN idx \ {k}
        PROVE  \E i \in 1 .. n - 1 : kept[i][1] = j
    <3>1. PICK i \in 1 .. n : es[i][1] = j
      BY <1>1 DEF SoundIndex
    <3>2. i # p
      BY <1>2, <2>2, <3>1
    <3>3. CASE i < p
      BY <1>1, <1>2, <1>3, <3>1, <3>3
    <3>4. CASE i > p
      <4>1. i - 1 \in 1 .. n - 1 /\ kept[i - 1] = es[i]
        BY <1>1, <1>2, <1>3, <3>4
      <4> QED BY <3>1, <4>1
    <3> QED BY <1>1, <1>2, <3>2, <3>3, <3>4
  <2> QED BY <1>4, <2>1, <2>2
<1>8. DOMAIN others = DOMAIN idx \ {k} /\ DOMAIN idx2 = DOMAIN idx \ {k}
  BY DEF IndicesFrom
<1>9. ASSUME NEW i \in 1 .. n - 1
      PROVE  idx2[kept[i][1]] = i
  <2>1. kept[i][1] \in DOMAIN others
    BY <1>4, <1>7, <1>8
  <2>2. CASE i < p
    <3>1. ~\E m \in p .. Len(kept) : kept[m][1] = kept[i][1]
      BY <1>1, <1>2, <1>3, <1>6, <2>2
    <3>2. idx2[kept[i][1]] = idx[kept[i][1]]
      BY <2>1, <3>1 DEF IndicesFrom
    <3>3. kept[i] = es[i] /\ i \in DOMAIN es
      BY <1>1, <1>2, <1>3, <2>2
    <3> QED BY <3>2, <3>3 DEF SoundIndex
  <2>3. CASE ~(i < p)
    <3>1. i \in p .. Len(kept)
      BY <1>1, <1>2, <1>3, <2>3
    <3>2. \A m \in p .. Len(kept) : kept[m][1] = kept[i][1] <=> m = i
      BY <1>1, <1>2, <1>3, <1>6, <3>1
    <3>3. idx2[kept[i][1]] = CHOOSE m \in p .. Len(kept) : kept[m][1] = kept[i][1]
      BY <2>1, <3>1 DEF IndicesFrom
    <3> QED BY <3>1, <3>2, <3>3
  <2> QED BY <2>2, <2>3
<1>10. SoundIndex(kept, idx2)
  BY <1>4, <1>7, <1>8, <1>9 DEF SoundIndex
<1>11. idx2 \in [DOMAIN idx \ {k} -> Nat]
  <2>1. ASSUME NEW j \in DOMAIN idx \ {k}
        PROVE  idx2[j] \in Nat
    <3>1. PICK i \in 1 .. n - 1 : kept[i][1] = j
      BY <1>4, <1>7
    <3>2. i \in Nat
      BY <1>1
    <3> HIDE DEF idx2
    <3> QED BY <1>9, <3>1, <3>2
  <2>2. idx2 = [j \in DOMAIN idx2 |-> idx2[j]]
    BY DEF IndicesFrom
  <2> HIDE DEF idx2
  <2> QED BY <1>8, <2>1, <2>2
<1>12. DOMAIN idx \subseteq HashKeys
  BY DEF Indices
<1>13. idx2 \in Indices
  <2> HIDE DEF idx2
  <2> QED BY <1>11, <1>12 DEF Indices
<1> QED BY <1>3, <1>10, <1>13 DEF kept, n

-----------------------------------------------------------------------------
(***************************************************************************)
(* The operations of the code, on the collection they are called for.      *)
(***************************************************************************)

(* Changing one collection to a sound one keeps all of them sound.           *)
LEMMA KeptByUpdate ==
    ASSUME Kept, NEW c \in Existing,
           NEW es \in Seq(EntriesOf(c)), NEW idx \in Indices, SoundIndex(es, idx),
           entries' = [entries EXCEPT ![c] = es], indices' = [indices EXCEPT ![c] = idx]
    PROVE  Kept' /\ Existing' = Existing
<1>1. Existing' = Existing
  BY DEF Existing
<1>2. \A d \in Existing : entries'[d] = IF d = c THEN es ELSE entries[d]
  BY DEF Existing
<1>3. \A d \in Existing : indices'[d] = IF d = c THEN idx ELSE indices[d]
  BY DEF Kept
<1>4. entries' = [d \in Existing |-> entries'[d]]
  BY DEF Existing
<1>5. indices' \in [Existing -> Indices]
  BY DEF Kept
<1>6. \A d \in Existing : entries'[d] \in Seq(EntriesOf(d))
  BY <1>2 DEF Kept
<1>7. IndexSound'
  BY <1>1, <1>2, <1>3 DEF IndexSound, Kept
<1> QED BY <1>1, <1>4, <1>5, <1>6, <1>7 DEF Kept

LEMMA NewEntryKeeps ==
    ASSUME Kept, NEW c \in Existing, NEW k \in HashKeys, NEW x, <<k, x>> \in EntriesOf(c),
           k \notin DOMAIN indices[c], NewEntry(c, k, x)
    PROVE  Kept' /\ Existing' = Existing
<1> DEFINE es == Append(entries[c], <<k, x>>)
           idx == IndexedAt(Len(entries[c]) + 1, k, indices[c])
<1>1. entries[c] \in Seq(EntriesOf(c)) /\ indices[c] \in Indices
      /\ SoundIndex(entries[c], indices[c])
  BY DEF Kept, IndexSound
<1>2. es \in Seq(EntriesOf(c)) /\ idx \in Indices /\ SoundIndex(es, idx)
  BY <1>1, AppendSound
<1>3. entries' = [entries EXCEPT ![c] = es] /\ indices' = [indices EXCEPT ![c] = idx]
  BY DEF NewEntry
<1> HIDE DEF es, idx
<1> QED BY <1>2, <1>3, KeptByUpdate

LEMMA InsertKeeps ==
    ASSUME Kept, NEW c \in Existing, NEW k \in HashKeys, NEW x, <<k, x>> \in EntriesOf(c),
           InsertOrReplace(c, k, x)
    PROVE  Kept' /\ Existing' = Existing
<1>1. CASE k \notin DOMAIN indices[c] /\ NewEntry(c, k, x)
  BY <1>1, NewEntryKeeps
<1>2. CASE /\ k \in DOMAIN indices[c]
           /\ entries' = [entries EXCEPT ![c][indices[c][k]] = <<k, x>>]
           /\ UNCHANGED indices
  <2> DEFINE es == [entries[c] EXCEPT ![indices[c][k]] = <<k, x>>]
             idx == indices[c]
  <2>1. entries[c] \in Seq(EntriesOf(c)) /\ idx \in Indices /\ SoundIndex(entries[c], idx)
    BY DEF Kept, IndexSound
  <2>2. es \in Seq(EntriesOf(c)) /\ SoundIndex(es, idx)
    BY <1>2, <2>1, ReplaceSound
  <2>3. entries' = [entries EXCEPT ![c] = es] /\ indices' = [indices EXCEPT ![c] = idx]
    BY <1>2 DEF Kept
  <2> HIDE DEF es, idx
  <2> QED BY <2>1, <2>2, <2>3, KeptByUpdate
<1> QED BY <1>1, <1>2 DEF InsertOrReplace

LEMMA UniqueKeeps ==
    ASSUME Kept, NEW c \in Existing, c \in Sets, NEW k \in HashKeys, InsertUnique(c, k)
    PROVE  Kept' /\ Existing' = Existing
<1>1. CASE UNCHANGED <<entries, indices>>
  BY <1>1 DEF Kept, Existing, IndexSound
<1>2. CASE k \notin DOMAIN indices[c] /\ NewEntry(c, k, ObjectFromHashKey(k))
  BY <1>2, NewEntryKeeps, EntryType
<1> QED BY <1>1, <1>2 DEF InsertUnique

LEMMA RemoveKeeps ==
    ASSUME Kept, NEW c \in Existing, NEW k \in HashKeys, RemoveKey(c, k)
    PROVE  Kept' /\ Existing' = Existing
<1>1. CASE UNCHANGED <<entries, indices>>
  BY <1>1 DEF Kept, Existing, IndexSound
<1>2. CASE k \in DOMAIN indices[c] /\ ~UNCHANGED <<entries, indices>>
  <2> DEFINE kept == RemoveAt(entries[c], indices[c][k])
             others == [j \in DOMAIN indices[c] \ {k} |-> indices[c][j]]
             idx == IndicesFrom(others, indices[c][k], kept)
  <2>1. entries[c] \in Seq(EntriesOf(c)) /\ indices[c] \in Indices
        /\ SoundIndex(entries[c], indices[c])
    BY DEF Kept, IndexSound
  <2>2. kept \in Seq(EntriesOf(c)) /\ idx \in Indices /\ SoundIndex(kept, idx)
    BY <1>2, <2>1, RemoveSound
  <2>3. entries' = [entries EXCEPT ![c] = kept] /\ indices' = [indices EXCEPT ![c] = idx]
    BY <1>2 DEF RemoveKey
  <2> HIDE DEF kept, idx
  <2> QED BY <2>2, <2>3, KeptByUpdate
<1> QED BY <1>1, <1>2 DEF RemoveKey

-----------------------------------------------------------------------------
(***************************************************************************)
(* IndexSound is an invariant.                                             *)
(***************************************************************************)

(* What a script passes as a key becomes one of HashKeys.                    *)
LEMMA KeysOfValues ==
    ASSUME NEW v \in KeyVals
    PROVE  HashKeyFromObject(v) \in HashKeys /\ HashKeyFromValue(v) \in HashKeys
BY DEF HashKeys

(* The constructors' items are what the collection can hold.                 *)
LEMMA NewKeeps ==
    ASSUME Inv, NEW c \in Maps \union Sets, NEW items \in Seq(ItemsOf(c)), New(c, items)
    PROVE  Inv'
<1>1. /\ c \notin Existing
      /\ entries' = [d \in Existing \union {c} |-> IF d = c THEN <<>> ELSE entries[d]]
      /\ indices' = [d \in Existing \union {c} |-> IF d = c THEN NoIndices ELSE indices[d]]
      /\ filling' = <<c, items>>
  BY DEF New
<1>2. Existing' = Existing \union {c}
  BY <1>1 DEF Existing
<1>3. <<>> \in Seq(EntriesOf(c)) /\ SoundIndex(<<>>, NoIndices) /\ NoIndices \in Indices
  <2>1. NoIndices \in [{} -> Nat] /\ DOMAIN NoIndices = {}
    BY DEF NoIndices
  <2>2. DOMAIN <<>> = {} /\ <<>> \in Seq(EntriesOf(c))
    OBVIOUS
  <2>3. SoundIndex(<<>>, NoIndices)
    BY <2>1, <2>2 DEF SoundIndex
  <2> QED BY <2>1, <2>2, <2>3 DEF Indices
<1>4. \A d \in Existing' : entries'[d] \in Seq(EntriesOf(d))
  BY <1>1, <1>2, <1>3 DEF Inv, Kept
<1>5. indices' \in [Existing' -> Indices]
  BY <1>1, <1>2, <1>3 DEF Inv, Kept
<1>6. IndexSound'
  BY <1>1, <1>2, <1>3 DEF Inv, Kept, IndexSound
<1>7. entries' = [d \in Existing' |-> entries'[d]] /\ Existing' \subseteq Maps \union Sets
  BY <1>1, <1>2 DEF Inv, Kept
<1>8. FillingType'
  BY <1>1, <1>2 DEF FillingType
<1> QED BY <1>4, <1>5, <1>6, <1>7, <1>8 DEF Inv, Kept

LEMMA CreateKeeps ==
    ASSUME Inv, Create
    PROVE  \E c \in Maps \union Sets : \E items \in Seq(ItemsOf(c)) : New(c, items)
<1>1. \A S : BoundedSeq(S, MaxItems) \subseteq Seq(S)
  BY BoundsAssumption, SeqDef DEF BoundedSeq, SeqOf
<1>2. ASSUME NEW c \in Maps, NEW pairs \in BoundedSeq((KeyVals \X Vals) \union {<<>>}, MaxItems),
             MapCtor(c, pairs)
      PROVE  \E items \in Seq(ItemsOf(c)) : New(c, items)
  <2> DEFINE items == [i \in DOMAIN pairs |->
                          IF pairs[i] = <<>> THEN <<>>
                          ELSE <<HashKeyFromObject(pairs[i][1]), pairs[i][2]>>]
  <2>1. pairs \in Seq((KeyVals \X Vals) \union {<<>>})
    BY <1>1
  <2>2. ItemsOf(c) = Pairs \union {<<>>}
    BY KindsAssumption DEF ItemsOf
  <2>3. \A i \in DOMAIN pairs : items[i] \in ItemsOf(c)
    <3> SUFFICES ASSUME NEW i \in DOMAIN pairs
                 PROVE  items[i] \in ItemsOf(c)
      OBVIOUS
    <3>1. pairs[i] \in (KeyVals \X Vals) \union {<<>>}
      BY <2>1
    <3>2. CASE pairs[i] = <<>>
      BY <2>2, <3>2
    <3>3. CASE pairs[i] # <<>>
      <4>1. pairs[i][1] \in KeyVals /\ pairs[i][2] \in Vals
        BY <3>1, <3>3
      <4> QED BY <2>2, <3>3, <4>1, KeysOfValues DEF Pairs
    <3> QED BY <3>2, <3>3
  <2>4. DOMAIN pairs = 1 .. Len(pairs) /\ Len(pairs) \in Nat
    BY <2>1
  <2>5. New(c, items)
    BY <1>2 DEF MapCtor
  <2>6. items \in Seq(ItemsOf(c))
    <3>1. items = [i \in 1 .. Len(pairs) |-> items[i]]
      BY <2>4
    <3> HIDE DEF items
    <3>2. items \in [1 .. Len(pairs) -> ItemsOf(c)]
      BY <2>3, <2>4, <3>1
    <3> QED BY <2>4, <3>2, SeqDef
  <2> HIDE DEF items
  <2> QED BY <2>5, <2>6
<1>3. ASSUME NEW c \in Sets, NEW values \in BoundedSeq(KeyVals, MaxItems), SetCtor(c, values)
      PROVE  \E items \in Seq(ItemsOf(c)) : New(c, items)
  <2> DEFINE items == [i \in DOMAIN values |->
                          LET key == HashKeyFromObject(values[i])
                          IN  <<key, ObjectFromHashKey(key)>>]
  <2>1. values \in Seq(KeyVals)
    BY <1>1
  <2>2. DOMAIN values = 1 .. Len(values) /\ Len(values) \in Nat
    BY <2>1
  <2>3. \A i \in DOMAIN values : items[i] \in ItemsOf(c)
    BY <2>1, KeysOfValues DEF ItemsOf, Members
  <2>4. New(c, items)
    BY <1>3 DEF SetCtor
  <2>5. items \in Seq(ItemsOf(c))
    <3>1. items = [i \in 1 .. Len(values) |-> items[i]]
      BY <2>2
    <3> HIDE DEF items
    <3>2. items \in [1 .. Len(values) -> ItemsOf(c)]
      BY <2>2, <2>3, <3>1
    <3> QED BY <2>2, <3>2, SeqDef
  <2> HIDE DEF items
  <2> QED BY <2>4, <2>5
<1>4. ASSUME NEW kind \in {Maps, Sets}, NEW c \in kind, NEW source \in kind \intersect Existing,
             Copy(c, source)
      PROVE  \E items \in Seq(ItemsOf(c)) : New(c, items)
  <2>1. EntriesOf(source) \subseteq ItemsOf(c)
    BY KindsAssumption DEF EntriesOf, ItemsOf
  <2>2. entries[source] \in Seq(ItemsOf(c))
    BY <2>1, SeqMonotonic DEF Inv, Kept
  <2> QED BY <1>4, <2>2 DEF Copy
<1> QED BY <1>2, <1>3, <1>4 DEF Create

(* A step of a constructor that is filling its collection.                   *)
LEMMA FillKeeps ==
    ASSUME Inv, Fill
    PROVE  Inv'
<1> DEFINE c == filling[1]
           items == filling[2]
           item == Head(items)
<1>1. /\ filling = <<c, items>> /\ c \in Existing /\ items \in Seq(ItemsOf(c)) /\ items # <<>>
      /\ filling' = <<c, Tail(items)>>
  BY DEF Inv, FillingType, Fill
<1>2. item \in ItemsOf(c) /\ Tail(items) \in Seq(ItemsOf(c))
  BY <1>1, HeadTailProperties
<1>3. Kept' /\ Existing' = Existing
  <2>1. CASE item = <<>> /\ UNCHANGED <<entries, indices>>
    BY <2>1 DEF Inv, Kept, Existing, IndexSound
  <2>2. CASE item # <<>> /\ c \in Maps /\ InsertOrReplace(c, item[1], item[2])
    <3>1. item[1] \in HashKeys /\ <<item[1], item[2]>> \in EntriesOf(c)
      <4> HIDE DEF c, item
      <4> QED BY <1>2, <2>2, EntryType
    <3> HIDE DEF item, c
    <3> QED BY <1>1, <2>2, <3>1, InsertKeeps DEF Inv
  <2>3. CASE item # <<>> /\ c \in Sets /\ InsertUnique(c, item[1])
    <3>1. item[1] \in HashKeys
      <4> HIDE DEF c, item
      <4> QED BY <1>2, <2>3, EntryType
    <3> HIDE DEF item, c
    <3> QED BY <1>1, <2>3, <3>1, UniqueKeeps DEF Inv
  <2> QED BY <2>1, <2>2, <2>3 DEF Fill, FillEntry
<1>4. FillingType'
  <2> HIDE DEF c, items
  <2>1. filling'[1] = c /\ filling'[2] = Tail(items)
    BY <1>1
  <2> QED BY <1>1, <1>2, <1>3, <2>1 DEF FillingType
<1> QED BY <1>3, <1>4 DEF Inv

(* A method of an existing map.                                              *)
LEMMA MapCallKeeps ==
    ASSUME Inv, MapCall
    PROVE  Inv'
<1>1. ASSUME NEW c \in Maps \intersect Existing, NEW k \in HashKeys, NEW x \in Vals, MapSet(c, k, x)
      PROVE  Inv'
  <2>1. <<k, x>> \in EntriesOf(c)
    BY KindsAssumption, EntryType
  <2>2. Kept' /\ Existing' = Existing
    BY <1>1, <2>1, InsertKeeps DEF Inv, MapSet
  <2> QED BY <1>1, <2>2 DEF Inv, FillingType, MapSet, Returns
<1>2. ASSUME NEW v \in KeyVals, NEW c \in Existing, Delete(c, v)
      PROVE  Inv'
  <2>1. Kept' /\ Existing' = Existing
    BY <1>2, KeysOfValues, RemoveKeeps DEF Inv, Delete
  <2> QED BY <1>2, <2>1 DEF Inv, FillingType, Delete, Returns
<1>3. ASSUME UNCHANGED <<entries, indices, visiting, filling>>
      PROVE  Inv'
  BY <1>3 DEF Inv, Kept, FillingType, Existing, IndexSound
<1> QED BY <1>1, <1>2, <1>3, KeysOfValues DEF MapCall, MapGet, Has, Reads, Returns

(* A method of an existing set.                                              *)
LEMMA SetCallKeeps ==
    ASSUME Inv, SetCall
    PROVE  Inv'
<1>1. ASSUME NEW c \in Sets \intersect Existing, NEW v \in KeyVals, SetAdd(c, v)
      PROVE  Inv'
  <2>1. Kept' /\ Existing' = Existing
    BY <1>1, KeysOfValues, UniqueKeeps DEF Inv, SetAdd
  <2> QED BY <1>1, <2>1 DEF Inv, FillingType, SetAdd, Returns
<1>2. ASSUME NEW c \in Existing, NEW v \in KeyVals, Delete(c, v)
      PROVE  Inv'
  <2>1. Kept' /\ Existing' = Existing
    BY <1>2, KeysOfValues, RemoveKeeps DEF Inv, Delete
  <2> QED BY <1>2, <2>1 DEF Inv, FillingType, Delete, Returns
<1>3. ASSUME UNCHANGED <<entries, indices, visiting, filling>>
      PROVE  Inv'
  BY <1>3 DEF Inv, Kept, FillingType, Existing, IndexSound
<1> QED BY <1>1, <1>2, <1>3 DEF SetCall, Has, Reads, Returns

(* clear empties the list and the index.                                     *)
LEMMA ClearKeeps ==
    ASSUME Inv, NEW c \in Existing, Clear(c)
    PROVE  Inv'
<1>1. <<>> \in Seq(EntriesOf(c)) /\ SoundIndex(<<>>, NoIndices) /\ NoIndices \in Indices
  <2>1. NoIndices \in [{} -> Nat] /\ DOMAIN NoIndices = {}
    BY DEF NoIndices
  <2>2. DOMAIN <<>> = {} /\ <<>> \in Seq(EntriesOf(c))
    OBVIOUS
  <2>3. SoundIndex(<<>>, NoIndices)
    BY <2>1, <2>2 DEF SoundIndex
  <2> QED BY <2>1, <2>2, <2>3 DEF Indices
<1>2. entries' = [entries EXCEPT ![c] = <<>>] /\ indices' = [indices EXCEPT ![c] = NoIndices]
  BY DEF Clear
<1>3. Kept' /\ Existing' = Existing
  BY <1>1, <1>2, KeptByUpdate DEF Inv
<1> QED BY <1>3 DEF Inv, FillingType, Clear, Returns

(* The invariant holds at the start and every step keeps it.                 *)
LEMMA InvHolds == Spec => []Inv
<1>1. Init => Inv
  BY DEF Init, Inv, Kept, FillingType, Existing, IndexSound
<1>2. Inv /\ [Next]_vars => Inv'
  <2> SUFFICES ASSUME Inv, [Next]_vars
               PROVE  Inv'
    OBVIOUS
  <2>1. CASE Create
    BY <2>1, CreateKeeps, NewKeeps
  <2>2. CASE Fill
    BY <2>2, FillKeeps
  <2>3. CASE MapCall
    BY <2>3, MapCallKeeps
  <2>4. CASE SetCall
    BY <2>4, SetCallKeeps
  <2>5. ASSUME NEW c \in Existing, Clear(c)
        PROVE  Inv'
    BY <2>5, ClearKeeps
  <2>6. CASE UNCHANGED <<entries, indices>> /\ (UNCHANGED filling \/ filling' = NotFilling)
    BY <2>6 DEF Inv, Kept, FillingType, Existing, IndexSound
  <2>7. CASE Filled \/ Visit \/ EndForEach \/ CallbackFails
    BY <2>6, <2>7 DEF Filled, Visit, EndForEach, CallbackFails
  <2>8. ASSUME NEW c \in Existing, AddNothing(c) \/ Size(c) \/ List(c) \/ ForEach(c)
        PROVE  Inv'
    BY <2>6, <2>8 DEF AddNothing, Size, List, ForEach, Reads, Returns
  <2>9. CASE UNCHANGED vars
    BY <2>6, <2>9 DEF vars
  <2> QED BY <2>1, <2>2, <2>3, <2>4, <2>5, <2>7, <2>8, <2>9 DEF Next
<1> QED BY <1>1, <1>2, PTL DEF Spec

(* The index of every map and set leads each key to its entry, in every      *)
(* reachable state (map_insert_or_replace, map_remove, set_insert_unique,    *)
(* set_remove, the constructors and clear).                                  *)
THEOREM IndexStaysSound == Spec => []IndexSound
<1>1. Inv => IndexSound
  BY DEF Inv, Kept
<1> QED BY <1>1, InvHolds, PTL

-----------------------------------------------------------------------------
(***************************************************************************)
(* Maps and sets implement OrderedMap.                                     *)
(***************************************************************************)

(* A sound index finds what a search of the list finds.                      *)
LEMMA Found ==
    ASSUME NEW c, NEW es \in Seq(EntriesOf(c)), NEW idx, SoundIndex(es, idx), NEW k
    PROVE  /\ Map!HasKey(es, k) <=> k \in DOMAIN idx
           /\ k \in DOMAIN idx => Map!IndexOf(es, k) = idx[k] /\ idx[k] \in DOMAIN es
<1>1. Map!HasKey(es, k) <=> k \in DOMAIN idx
  BY DEF Map!HasKey, SoundIndex
<1>2. ASSUME k \in DOMAIN idx
      PROVE  Map!IndexOf(es, k) = idx[k] /\ idx[k] \in DOMAIN es
  <2>1. idx[k] \in DOMAIN es /\ es[idx[k]][1] = k
    BY <1>2 DEF SoundIndex
  <2>2. \A i \in DOMAIN es : es[i][1] = k <=> i = idx[k]
    BY <2>1 DEF SoundIndex
  <2> QED BY <2>1, <2>2 DEF Map!IndexOf
<1> QED BY <1>1, <1>2

(* The same for a collection there is.                                       *)
LEMMA FoundIn ==
    ASSUME Kept, NEW c \in Existing, NEW k
    PROVE  /\ Map!HasKey(entries[c], k) <=> k \in DOMAIN indices[c]
           /\ k \in DOMAIN indices[c] => /\ Map!IndexOf(entries[c], k) = indices[c][k]
                                         /\ indices[c][k] \in DOMAIN entries[c]
BY Found DEF Kept, IndexSound

(* Both say whether the key is there.                                        *)
LEMMA HasMaps ==
    ASSUME Kept, NEW c \in Existing, NEW k
    PROVE  Map!HasKey(entries[c], k) = (k \in DOMAIN indices[c])
<1>1. Map!HasKey(entries[c], k) \in BOOLEAN
  BY DEF Map!HasKey
<1>2. Map!HasKey(entries[c], k) <=> k \in DOMAIN indices[c]
  BY FoundIn
<1> QED BY <1>1, <1>2

(* map_insert_or_replace puts the entry.                                     *)
LEMMA InsertPuts ==
    ASSUME Kept, NEW c \in Existing, NEW k, NEW x, InsertOrReplace(c, k, x)
    PROVE  entries' = [entries EXCEPT ![c] = Map!Put(@, k, x)]
<1>1. CASE /\ k \in DOMAIN indices[c]
           /\ entries' = [entries EXCEPT ![c][indices[c][k]] = <<k, x>>]
  <2>1. Map!Put(entries[c], k, x) = [entries[c] EXCEPT ![indices[c][k]] = <<k, x>>]
    BY <1>1, FoundIn DEF Map!Put
  <2> QED BY <1>1, <2>1
<1>2. CASE k \notin DOMAIN indices[c] /\ NewEntry(c, k, x)
  <2>1. Map!Put(entries[c], k, x) = Append(entries[c], <<k, x>>)
    BY <1>2, FoundIn DEF Map!Put
  <2> QED BY <1>2, <2>1 DEF NewEntry
<1> QED BY <1>1, <1>2 DEF InsertOrReplace

(* So does set_insert_unique: the entry that is there is the same.           *)
LEMMA UniquePuts ==
    ASSUME Kept, NEW c \in Existing, c \in Sets, NEW k \in HashKeys, InsertUnique(c, k)
    PROVE  entries' = [entries EXCEPT ![c] = Map!Put(@, k, ObjectFromHashKey(k))]
<1> DEFINE x == ObjectFromHashKey(k)
           p == indices[c][k]
<1>1. CASE k \in DOMAIN indices[c] /\ entries' = entries
  <2>1. Map!Put(entries[c], k, x) = [entries[c] EXCEPT ![p] = <<k, x>>]
    BY <1>1, FoundIn DEF Map!Put
  <2>2. p \in DOMAIN entries[c] /\ entries[c][p][1] = k
    BY <1>1, FoundIn DEF Kept, IndexSound, SoundIndex
  <2>3. entries[c] \in Seq(Members)
    BY DEF Kept, EntriesOf
  <2>4. entries[c][p] = <<k, x>>
    BY <2>2, <2>3 DEF Members
  <2>5. [entries[c] EXCEPT ![p] = <<k, x>>] = entries[c]
    BY <2>2, <2>3, <2>4
  <2>6. entries = [entries EXCEPT ![c] = entries[c]]
    BY DEF Kept
  <2> HIDE DEF x, p
  <2> QED BY <1>1, <2>1, <2>5, <2>6 DEF x
<1>2. CASE k \notin DOMAIN indices[c] /\ NewEntry(c, k, x)
  <2>1. Map!Put(entries[c], k, x) = Append(entries[c], <<k, x>>)
    BY <1>2, FoundIn DEF Map!Put
  <2> QED BY <1>2, <2>1 DEF NewEntry
<1> QED BY <1>1, <1>2 DEF InsertUnique

(* map_remove and set_remove take the entry out of the list.                 *)
LEMMA RemoveRemoves ==
    ASSUME Kept, NEW c \in Existing, NEW k, RemoveKey(c, k)
    PROVE  entries' = IF Map!HasKey(entries[c], k)
                      THEN [entries EXCEPT ![c] = RemoveAt(@, Map!IndexOf(@, k))] ELSE entries
<1>1. CASE k \in DOMAIN indices[c]
  BY <1>1, FoundIn DEF RemoveKey
<1>2. CASE k \notin DOMAIN indices[c]
  BY <1>2, FoundIn DEF RemoveKey
<1> QED BY <1>1, <1>2

(* A new collection.                                                         *)
LEMMA NewMaps ==
    ASSUME NEW c \in Maps \union Sets, NEW items \in Seq(ItemsOf(c)), New(c, items)
    PROVE  Map!Next
<1>1. items \in Map!Items
  <2>1. CASE c \in Sets
    <3>1. ItemsOf(c) \subseteq HashKeys \X {ObjectFromHashKey(k) : k \in HashKeys}
      BY <2>1 DEF ItemsOf, Members
    <3> QED BY <3>1, SeqMonotonic DEF Map!Items
  <2>2. CASE c \notin Sets
    BY <2>2 DEF ItemsOf, Pairs, Map!Items
  <2> QED BY <2>1, <2>2
<1>2. Map!New(c)
  BY <1>1 DEF New, Map!New, Map!NotFilling, NotFilling, Map!Existing, Existing
<1> QED BY <1>2 DEF Map!Next

(* A step of a constructor.                                                  *)
LEMMA FillMaps ==
    ASSUME Inv, Fill
    PROVE  Map!Fill
<1> DEFINE c == filling[1]
           items == filling[2]
           item == Head(items)
<1>1. /\ c \in Existing /\ items \in Seq(ItemsOf(c)) /\ items # <<>>
      /\ item \in ItemsOf(c)
  BY HeadTailProperties DEF Inv, FillingType, Fill
<1>2. entries' = [entries EXCEPT ![c] = IF item = <<>> THEN @
                                         ELSE Map!Put(@, item[1], item[2])]
  <2>1. CASE item = <<>> /\ UNCHANGED entries
    <3>1. entries = [entries EXCEPT ![c] = entries[c]]
      BY DEF Inv, Kept
    <3> QED BY <2>1, <3>1
  <2>2. CASE item # <<>> /\ c \in Maps /\ InsertOrReplace(c, item[1], item[2])
    <3> HIDE DEF item, c
    <3> QED BY <1>1, <2>2, InsertPuts DEF Inv
  <2>3. CASE item # <<>> /\ c \in Sets /\ InsertUnique(c, item[1])
    <3>1. item[1] \in HashKeys /\ item[2] = ObjectFromHashKey(item[1])
      BY <1>1, <2>3 DEF ItemsOf, Members
    <3> HIDE DEF item, c
    <3> QED BY <1>1, <2>3, <3>1, UniquePuts DEF Inv
  <2> QED BY <2>1, <2>2, <2>3 DEF Fill, FillEntry
<1> QED BY <1>2 DEF Fill, Map!Fill, Map!NotFilling, NotFilling

(* Each step of the code is a step of the list, or changes nothing.          *)
LEMMA StepMaps ==
    ASSUME Inv, [Next]_vars
    PROVE  [Map!Next]_Map!vars
<1> USE DEF NotFilling, Map!NotFilling, Existing, Map!Existing, Returns, Map!Returns,
        Reads, Map!Reads
<1>1. CASE Create
  BY <1>1, CreateKeeps, NewMaps
<1>2. CASE Fill
  BY <1>2, FillMaps DEF Map!Next
<1>3. CASE Filled
  BY <1>3 DEF Filled, Map!Filled, Map!Next
<1>4. CASE MapCall
  <2>1. ASSUME NEW c \in Maps \intersect Existing, NEW k \in HashKeys, NEW x \in Vals, MapSet(c, k, x)
        PROVE  Map!Set(c, k, x)
    BY <2>1, InsertPuts DEF Inv, MapSet, Map!Set
  <2>2. ASSUME NEW c \in Maps \intersect Existing, NEW k \in HashKeys, MapGet(c, k)
        PROVE  Map!Get(c, k)
    BY <2>2, FoundIn DEF Inv, MapGet, Map!Get
  <2>3. ASSUME NEW c \in Maps \intersect Existing, NEW k \in HashKeys, Has(c, k)
        PROVE  Map!Has(c, k)
    BY <2>3, HasMaps DEF Inv, Has, Map!Has
  <2>4. ASSUME NEW c \in Maps \intersect Existing, NEW v \in KeyVals, Delete(c, v)
        PROVE  Map!Delete(c, HashKeyFromObject(v))
    BY <2>4, HasMaps, RemoveRemoves DEF Inv, Delete, Map!Delete, RemoveAt, Map!RemoveAt
  <2> QED BY <1>4, <2>1, <2>2, <2>3, <2>4, KeysOfValues DEF MapCall, Map!Next
<1>5. CASE SetCall
  <2>1. ASSUME NEW c \in Sets \intersect Existing, NEW v \in KeyVals, SetAdd(c, v)
        PROVE  Map!Set(c, HashKeyFromObject(v), ObjectFromHashKey(HashKeyFromObject(v)))
    BY <2>1, KeysOfValues, UniquePuts DEF Inv, SetAdd, Map!Set
  <2>2. ASSUME NEW c \in Existing, NEW v \in KeyVals, Has(c, HashKeyFromObject(v))
        PROVE  Map!Has(c, HashKeyFromObject(v))
    BY <2>2, HasMaps DEF Inv, Has, Map!Has
  <2>3. ASSUME NEW c \in Existing, NEW v \in KeyVals, Delete(c, v)
        PROVE  Map!Delete(c, HashKeyFromObject(v))
    BY <2>3, HasMaps, RemoveRemoves DEF Inv, Delete, Map!Delete, RemoveAt, Map!RemoveAt
  <2> QED BY <1>5, <2>1, <2>2, <2>3, KeysOfValues DEF SetCall, Map!Next
<1>6. ASSUME NEW c \in Existing, AddNothing(c) \/ Clear(c) \/ Size(c) \/ List(c) \/ ForEach(c)
      PROVE  Map!Next
  <2>1. Map!SetNothing(c) \/ Map!Clear(c) \/ Map!Size(c) \/ Map!List(c) \/ Map!ForEach(c)
    BY <1>6 DEF AddNothing, Clear, Size, List, ForEach, Map!SetNothing, Map!Clear, Map!Size,
                Map!List, Map!ForEach, Cons, Map!Cons
  <2> QED BY <2>1 DEF Map!Next
<1>7. CASE Visit \/ EndForEach \/ CallbackFails
  BY <1>7 DEF Visit, EndForEach, CallbackFails, Map!Visit, Map!EndForEach, Map!CallbackFails,
              Map!Next
<1>8. CASE UNCHANGED vars
  BY <1>8 DEF vars, Map!vars
<1> QED BY <1>1, <1>2, <1>3, <1>4, <1>5, <1>6, <1>7, <1>8 DEF Next

(* Maps and sets, with their indices, do what plain lists of entries with    *)
(* different keys do.                                                        *)
THEOREM CollectionsImplementOrderedMap == Spec => ImplementsOrderedMap
<1>1. Init => Map!Init
  BY DEF Init, Map!Init, NotFilling, Map!NotFilling
<1>2. Inv /\ [Next]_vars => [Map!Next]_Map!vars
  BY StepMaps
<1> QED BY <1>1, <1>2, InvHolds, PTL DEF Spec, ImplementsOrderedMap, Map!Spec
=============================================================================
