-------------------------- MODULE PropertyMapProofs --------------------------
(***************************************************************************)
(* Proofs about objects and inline caches: the three views of an object    *)
(* stay aligned, and a cached access lands on its property.                *)
(***************************************************************************)
EXTENDS PropertyMapProperties, TLAPS

\* What every operation of HashObject preserves.
Sound(h) ==
    /\ h \in HashObject
    /\ Aligned(h)
    /\ ~h.pairs_dirty => Contents(h) = h.pairs

\* The same properties in the same slots, under the same shape
SameLayout(h, g) ==
    /\ g.shape_version = h.shape_version
    /\ g.str_slots = h.str_slots
    /\ Len(g.pairs) = Len(h.pairs)
    /\ \A i \in 1 .. Len(h.pairs) : g.pairs[i][1] = h.pairs[i][1]

(* The elements of a concatenation.                                        *)
LEMMA ConcatElements ==
    ASSUME NEW S, NEW f \in Seq(S), NEW g \in Seq(S)
    PROVE  /\ f \o g \in Seq(S)
           /\ Len(f \o g) = Len(f) + Len(g)
           /\ \A j \in 1 .. Len(f) + Len(g) :
                 (f \o g)[j] = IF j <= Len(f) THEN f[j] ELSE g[j - Len(f)]
OBVIOUS

(* RemoveAt drops one element and moves those behind it down.              *)
LEMMA RemoveAtProperties ==
    ASSUME NEW S, NEW s \in Seq(S), NEW i \in 1 .. Len(s)
    PROVE  /\ RemoveAt(s, i) \in Seq(S)
           /\ Len(RemoveAt(s, i)) = Len(s) - 1
           /\ \A j \in 1 .. Len(s) - 1 :
                 RemoveAt(s, i)[j] = IF j < i THEN s[j] ELSE s[j + 1]
<1> DEFINE front == SubSeq(s, 1, i - 1)
           back == SubSeq(s, i + 1, Len(s))
<1>1. /\ front \in Seq(S) /\ Len(front) = i - 1
      /\ \A j \in 1 .. i - 1 : front[j] = s[j]
  OBVIOUS
<1>2. /\ back \in Seq(S) /\ Len(back) = Len(s) - i
      /\ \A j \in 1 .. Len(s) - i : back[j] = s[i + j]
  OBVIOUS
<1>3. RemoveAt(s, i) = front \o back
  BY DEF RemoveAt
<1>4. /\ front \o back \in Seq(S)
      /\ Len(front \o back) = Len(s) - 1
      /\ \A j \in 1 .. Len(s) - 1 :
            (front \o back)[j] = IF j <= i - 1 THEN front[j] ELSE back[j - (i - 1)]
  <2> HIDE DEF front, back
  <2>1. Len(front) + Len(back) = Len(s) - 1
    <3>1. Len(s) \in Nat /\ i \in Int
      OBVIOUS
    <3>2. (i - 1) + (Len(s) - i) = Len(s) - 1
      BY <3>1
    <3> QED BY <1>1, <1>2, <3>2
  <2>2. /\ front \o back \in Seq(S)
        /\ Len(front \o back) = Len(front) + Len(back)
        /\ \A j \in 1 .. Len(front) + Len(back) :
              (front \o back)[j] = IF j <= Len(front) THEN front[j]
                                   ELSE back[j - Len(front)]
    BY <1>1, <1>2, ConcatElements
  <2> QED BY <1>1, <2>1, <2>2
<1>5. \A j \in 1 .. Len(s) - 1 : j > i - 1 => back[j - (i - 1)] = s[j + 1]
  <2> HIDE DEF front, back
  <2> TAKE j \in 1 .. Len(s) - 1
  <2> HAVE j > i - 1
  <2>1. j - (i - 1) \in 1 .. Len(s) - i /\ i + (j - (i - 1)) = j + 1
    OBVIOUS
  <2> QED BY <1>2, <2>1
<1> HIDE DEF front, back
<1> QED BY <1>1, <1>3, <1>4, <1>5

(* A new object is sound.                                                  *)
LEMMA EmptySound == Sound(EmptyHash)
BY DEF Sound, EmptyHash, HashObject, Aligned, Contents

(* The properties of a sound object are well-typed.                        *)
LEMMA ContentsType ==
    ASSUME NEW h, Sound(h)
    PROVE  /\ Contents(h) \in Seq(Keys \X Vals)
           /\ Len(Contents(h)) = Len(h.pairs)
           /\ \A i \in 1 .. Len(h.pairs) : Contents(h)[i] = <<h.pairs[i][1], h.values[i]>>
BY DEF Sound, HashObject, Aligned, Contents

(* sync_pairs keeps the layout and the properties and makes pairs fresh.   *)
LEMMA SyncSound ==
    ASSUME NEW h, Sound(h)
    PROVE  /\ Sound(Sync(h))
           /\ Sync(h).pairs = Contents(h)
           /\ Sync(h).values = h.values
           /\ Sync(h).str_slots = h.str_slots
           /\ Sync(h).shape_version = h.shape_version
           /\ Sync(h).frozen = h.frozen
<1>1. CASE h.pairs_dirty
  <2> DEFINE g == Sync(h)
  <2>1. /\ g \in HashObject
        /\ g.pairs = Contents(h)
        /\ g.values = h.values
        /\ g.str_slots = h.str_slots
        /\ g.shape_version = h.shape_version
        /\ g.frozen = h.frozen
    BY <1>1, ContentsType DEF Sync, HashObject, Sound
  <2>2. \A i \in 1 .. Len(h.pairs) : g.pairs[i][1] = h.pairs[i][1]
    BY <2>1, ContentsType
  <2>3. Len(g.pairs) = Len(h.pairs)
    BY <2>1, ContentsType
  <2> HIDE DEF g
  <2>4. Aligned(g)
    BY <2>1, <2>2, <2>3 DEF Aligned, Sound
  <2>5. Contents(g) = g.pairs
    BY <2>1, <2>2, <2>3, ContentsType DEF Contents
  <2>6. Sound(g)
    BY <2>1, <2>4, <2>5 DEF Sound
  <2> QED BY <2>1, <2>6 DEF g
<1>2. CASE ~h.pairs_dirty
  BY <1>2 DEF Sync, Sound
<1> QED BY <1>1, <1>2

(* A write to a slot changes the value of the property there, and only it. *)
LEMMA WriteSlotSound ==
    ASSUME NEW h, Sound(h), NEW slot \in 1 .. Len(h.pairs), NEW v \in Vals
    PROVE  /\ Sound(WriteSlot(h, slot, v))
           /\ WriteSlot(h, slot, v).pairs = h.pairs
           /\ WriteSlot(h, slot, v).values = [h.values EXCEPT ![slot] = v]
           /\ WriteSlot(h, slot, v).str_slots = h.str_slots
           /\ WriteSlot(h, slot, v).shape_version = h.shape_version
           /\ WriteSlot(h, slot, v).frozen = h.frozen
<1> DEFINE g == WriteSlot(h, slot, v)
<1>1. /\ g \in HashObject
      /\ g.pairs = h.pairs
      /\ g.values = [h.values EXCEPT ![slot] = v]
      /\ g.str_slots = h.str_slots
      /\ g.shape_version = h.shape_version
      /\ g.frozen = h.frozen
      /\ g.pairs_dirty
  <2>1. h \in HashObject /\ slot \in 1 .. Len(h.values)
    BY DEF Sound, Aligned
  <2>2. [h.values EXCEPT ![slot] = v] \in Seq(Vals)
    BY <2>1 DEF HashObject
  <2> QED BY <2>1, <2>2 DEF WriteSlot, HashObject
<1>2. Len(g.values) = Len(h.values)
  BY <1>1 DEF Sound, HashObject
<1> HIDE DEF g
<1>3. Aligned(g)
  BY <1>1, <1>2 DEF Sound, Aligned
<1>4. Sound(g)
  BY <1>1, <1>3 DEF Sound
<1> QED BY <1>1, <1>4 DEF g

(* insert_pair of a property the object has: its value changes, in pairs   *)
(* and in values.                                                          *)
LEMMA InsertOldSound ==
    ASSUME NEW h, Sound(h), NEW k \in Keys, NEW v \in Vals, h.str_slots[k] # 0
    PROVE  /\ Sound(InsertPair(h, k, v))
           /\ SameLayout(h, InsertPair(h, k, v))
           /\ InsertPair(h, k, v).frozen = h.frozen
<1> DEFINE g == InsertPair(h, k, v)
           slot == h.str_slots[k]
<1>1. slot \in 1 .. Len(h.pairs) /\ h.pairs[slot][1] = k /\ Len(h.values) = Len(h.pairs)
  BY DEF Sound, Aligned
<1>2. /\ g.pairs = [h.pairs EXCEPT ![slot] = <<k, v>>]
      /\ g.values = [h.values EXCEPT ![slot] = v]
      /\ g.str_slots = h.str_slots
      /\ g.shape_version = h.shape_version
      /\ g.frozen = h.frozen
      /\ g.pairs_dirty = h.pairs_dirty
      /\ g \in HashObject
  <2>1. h \in HashObject
    BY DEF Sound
  <2> HIDE DEF slot
  <2>2. [h.pairs EXCEPT ![slot] = <<k, v>>] \in Seq(Keys \X Vals)
    BY <1>1, <2>1 DEF HashObject
  <2>3. [h.values EXCEPT ![slot] = v] \in Seq(Vals)
    BY <1>1, <2>1 DEF HashObject
  <2>4. g = [h EXCEPT !.values = [h.values EXCEPT ![slot] = v],
                      !.pairs = [h.pairs EXCEPT ![slot] = <<k, v>>]]
    BY <2>1 DEF InsertPair, HashObject, slot
  <2> HIDE DEF g
  <2> QED BY <2>1, <2>2, <2>3, <2>4 DEF HashObject
<1> HIDE DEF g, slot
<1>3. h \in HashObject
  BY DEF Sound
<1>4. /\ Len(g.pairs) = Len(h.pairs)
      /\ Len(g.values) = Len(h.values)
      /\ \A i \in 1 .. Len(h.pairs) : g.pairs[i] = IF i = slot THEN <<k, v>> ELSE h.pairs[i]
      /\ \A i \in 1 .. Len(h.pairs) : g.values[i] = IF i = slot THEN v ELSE h.values[i]
  BY <1>1, <1>2, <1>3 DEF HashObject
<1>5. \A i \in 1 .. Len(h.pairs) : g.pairs[i][1] = h.pairs[i][1]
  BY <1>1, <1>4
<1>6. Aligned(g)
  BY <1>1, <1>2, <1>4, <1>5 DEF Sound, Aligned
<1>7. ~g.pairs_dirty => Contents(g) = g.pairs
  <2>1. SUFFICES ASSUME ~g.pairs_dirty PROVE Contents(g) = g.pairs
    OBVIOUS
  <2>2. \A i \in 1 .. Len(h.pairs) : h.pairs[i] = <<h.pairs[i][1], h.values[i]>>
    BY <1>2, <2>1, ContentsType DEF Sound
  <2>3. \A i \in 1 .. Len(h.pairs) : g.pairs[i] = <<g.pairs[i][1], g.values[i]>>
    BY <1>4, <1>5, <2>2
  <2>4. g.pairs \in Seq(Keys \X Vals)
    BY <1>2 DEF HashObject
  <2>5. Contents(g) = [i \in 1 .. Len(h.pairs) |-> g.pairs[i]]
    BY <1>4, <2>3 DEF Contents
  <2> QED BY <1>4, <2>4, <2>5
<1>8. Sound(g)
  BY <1>2, <1>6, <1>7 DEF Sound
<1>9. SameLayout(h, g)
  BY <1>2, <1>4, <1>5 DEF SameLayout
<1> QED BY <1>2, <1>8, <1>9 DEF g

(* insert_pair of a new property: it comes last and the shape changes.     *)
LEMMA InsertNewSound ==
    ASSUME NEW h, Sound(h), NEW k \in Keys, NEW v \in Vals, h.str_slots[k] = 0
    PROVE  /\ Sound(InsertPair(h, k, v))
           /\ InsertPair(h, k, v).pairs = Append(h.pairs, <<k, v>>)
           /\ InsertPair(h, k, v).values = Append(h.values, v)
           /\ InsertPair(h, k, v).shape_version = h.shape_version + 1
           /\ InsertPair(h, k, v).frozen = h.frozen
<1> DEFINE g == InsertPair(h, k, v)
           n == Len(h.pairs)
<1>1. h \in HashObject /\ n \in Nat /\ Len(h.values) = n
  BY DEF Sound, HashObject, Aligned
<1>2. g = [h EXCEPT !.pairs = Append(h.pairs, <<k, v>>),
                    !.values = Append(h.values, v),
                    !.str_slots = [h.str_slots EXCEPT ![k] = n + 1],
                    !.shape_version = h.shape_version + 1]
  BY <1>1 DEF InsertPair, HashObject
<1>3. /\ [h.str_slots EXCEPT ![k] = n + 1] \in [Keys -> Nat]
      /\ Append(h.pairs, <<k, v>>) \in Seq(Keys \X Vals)
      /\ Append(h.values, v) \in Seq(Vals)
      /\ h.shape_version + 1 \in Nat
  BY <1>1 DEF HashObject
<1> HIDE DEF g
<1>4. /\ g \in HashObject
      /\ g.pairs = Append(h.pairs, <<k, v>>)
      /\ g.values = Append(h.values, v)
      /\ g.str_slots = [h.str_slots EXCEPT ![k] = n + 1]
      /\ g.shape_version = h.shape_version + 1
      /\ g.frozen = h.frozen
      /\ g.pairs_dirty = h.pairs_dirty
  BY <1>1, <1>2, <1>3 DEF HashObject
<1>5. /\ Len(g.pairs) = n + 1
      /\ Len(g.values) = n + 1
      /\ \A i \in 1 .. n : g.pairs[i] = h.pairs[i] /\ g.values[i] = h.values[i]
      /\ g.pairs[n + 1] = <<k, v>>
      /\ g.values[n + 1] = v
  BY <1>1, <1>4 DEF HashObject
<1>6. \A i \in 1 .. n : h.pairs[i] \in Keys \X Vals
  BY <1>1 DEF HashObject
<1>7. \A i \in 1 .. n : h.pairs[i][1] # k
  BY <1>6 DEF Sound, Aligned
<1>8. \A i \in 1 .. n + 1 : g.str_slots[g.pairs[i][1]] = i
  <2>1. ASSUME NEW i \in 1 .. n
        PROVE  g.str_slots[g.pairs[i][1]] = i
    <3>1. h.str_slots[h.pairs[i][1]] = i /\ h.pairs[i][1] \in Keys
      BY <1>6 DEF Sound, Aligned
    <3> QED BY <1>1, <1>4, <1>5, <1>7, <3>1 DEF HashObject
  <2>2. g.str_slots[g.pairs[n + 1][1]] = n + 1
    BY <1>1, <1>4, <1>5 DEF HashObject
  <2> QED BY <1>1, <2>1, <2>2
<1>9. ASSUME NEW j \in Keys, g.str_slots[j] # 0
      PROVE  g.str_slots[j] \in 1 .. n + 1 /\ g.pairs[g.str_slots[j]][1] = j
  <2>1. CASE j = k
    BY <1>1, <1>4, <1>5, <2>1 DEF HashObject
  <2>2. CASE j # k
    <3>1. g.str_slots[j] = h.str_slots[j]
      BY <1>1, <1>4, <2>2 DEF HashObject
    <3>2. h.str_slots[j] \in 1 .. n /\ h.pairs[h.str_slots[j]][1] = j
      BY <1>9, <3>1 DEF Sound, Aligned
    <3> QED BY <1>1, <1>5, <3>1, <3>2
  <2> QED BY <2>1, <2>2
<1>10. Aligned(g)
  BY <1>5, <1>8, <1>9 DEF Aligned
<1>11. ~g.pairs_dirty => Contents(g) = g.pairs
  <2>1. SUFFICES ASSUME ~g.pairs_dirty PROVE Contents(g) = g.pairs
    OBVIOUS
  <2>2. \A i \in 1 .. n : h.pairs[i] = <<h.pairs[i][1], h.values[i]>>
    BY <1>4, <2>1, ContentsType DEF Sound
  <2>3. \A i \in 1 .. n + 1 : g.pairs[i] = <<g.pairs[i][1], g.values[i]>>
    BY <1>1, <1>5, <2>2
  <2>4. g.pairs \in Seq(Keys \X Vals)
    BY <1>4 DEF HashObject
  <2>5. Contents(g) = [i \in 1 .. n + 1 |-> g.pairs[i]]
    BY <1>5, <2>3 DEF Contents
  <2> QED BY <1>5, <2>4, <2>5
<1>12. Sound(g)
  BY <1>4, <1>10, <1>11 DEF Sound
<1> QED BY <1>4, <1>12 DEF g

(* insert_pair leaves a sound object behind.                               *)
LEMMA InsertPairSound ==
    ASSUME NEW h, Sound(h), NEW k \in Keys, NEW v \in Vals
    PROVE  Sound(InsertPair(h, k, v))
BY InsertOldSound, InsertNewSound

(* A property's position is its slot.                                      *)
LEMMA SlotOfIsSlot ==
    ASSUME NEW h, Sound(h), NEW k \in Keys
    PROVE  /\ HasKey(h, k) <=> h.str_slots[k] # 0
           /\ HasKey(h, k) => SlotOf(h, k) = h.str_slots[k]
<1>1. \A i \in 1 .. Len(h.pairs) : h.pairs[i][1] = k => i = h.str_slots[k] /\ i # 0
  BY DEF Sound, Aligned
<1>2. h.str_slots[k] # 0 =>
         h.str_slots[k] \in 1 .. Len(h.pairs) /\ h.pairs[h.str_slots[k]][1] = k
  BY DEF Sound, Aligned
<1>3. HasKey(h, k) <=> h.str_slots[k] # 0
  BY <1>1, <1>2 DEF HasKey
<1>4. HasKey(h, k) => SlotOf(h, k) = h.str_slots[k]
  BY <1>1, <1>2 DEF HasKey, SlotOf
<1> QED BY <1>3, <1>4

(* remove_pair of a property that an object with fresh pairs has: pairs,   *)
(* values and slots shift alike.                                           *)
LEMMA RemoveSlotSound ==
    ASSUME NEW h, Sound(h), Contents(h) = h.pairs, NEW k \in Keys, h.str_slots[k] # 0
    PROVE  /\ Sound(RemoveSlot(h, k, h.str_slots[k]))
           /\ RemoveSlot(h, k, h.str_slots[k]).pairs = RemoveAt(h.pairs, h.str_slots[k])
           /\ Contents(RemoveSlot(h, k, h.str_slots[k])) = RemoveAt(h.pairs, h.str_slots[k])
           /\ RemoveSlot(h, k, h.str_slots[k]).shape_version = h.shape_version + 1
           /\ RemoveSlot(h, k, h.str_slots[k]).frozen = h.frozen
<1> DEFINE slot == h.str_slots[k]
           g == RemoveSlot(h, k, slot)
           n == Len(h.pairs)
<1>1. h \in HashObject /\ n \in Nat /\ Len(h.values) = n
  BY DEF Sound, HashObject, Aligned
<1>2. slot \in 1 .. n /\ h.pairs[slot][1] = k
  BY DEF Sound, Aligned
<1>3. /\ RemoveAt(h.pairs, slot) \in Seq(Keys \X Vals)
      /\ Len(RemoveAt(h.pairs, slot)) = n - 1
      /\ \A j \in 1 .. n - 1 :
            RemoveAt(h.pairs, slot)[j] = IF j < slot THEN h.pairs[j] ELSE h.pairs[j + 1]
  <2> HIDE DEF slot
  <2> QED BY <1>1, <1>2, RemoveAtProperties DEF HashObject
<1>4. /\ RemoveAt(h.values, slot) \in Seq(Vals)
      /\ Len(RemoveAt(h.values, slot)) = n - 1
      /\ \A j \in 1 .. n - 1 :
            RemoveAt(h.values, slot)[j] = IF j < slot THEN h.values[j] ELSE h.values[j + 1]
  <2> HIDE DEF slot
  <2> QED BY <1>1, <1>2, RemoveAtProperties DEF HashObject
<1>5. /\ \A j \in Keys : h.str_slots[j] \in Nat
      /\ slot \in Nat /\ slot >= 1
  BY <1>1, <1>2 DEF HashObject
<1>6. /\ ShiftSlots(h.str_slots, k, slot) \in [Keys -> Nat]
      /\ h.shape_version + 1 \in Nat
  <2> HIDE DEF slot
  <2> QED BY <1>1, <1>5 DEF ShiftSlots, HashObject
<1>7. g = [h EXCEPT !.pairs = RemoveAt(h.pairs, slot),
                    !.values = RemoveAt(h.values, slot),
                    !.str_slots = ShiftSlots(h.str_slots, k, slot),
                    !.shape_version = h.shape_version + 1]
  BY <1>1 DEF RemoveSlot, HashObject
<1> HIDE DEF g, slot
<1>8. /\ g \in HashObject
      /\ g.pairs = RemoveAt(h.pairs, slot)
      /\ g.values = RemoveAt(h.values, slot)
      /\ g.str_slots = ShiftSlots(h.str_slots, k, slot)
      /\ g.shape_version = h.shape_version + 1
      /\ g.frozen = h.frozen
      /\ g.pairs_dirty = h.pairs_dirty
  BY <1>1, <1>3, <1>4, <1>6, <1>7 DEF HashObject
<1>9. \A i \in 1 .. n : /\ h.pairs[i] \in Keys \X Vals
                        /\ h.str_slots[h.pairs[i][1]] = i
                        /\ h.pairs[i][1] \in Keys
  BY <1>1 DEF HashObject, Sound, Aligned
<1>10. ASSUME NEW i \in 1 .. n - 1
       PROVE  g.str_slots[g.pairs[i][1]] = i
  <2>1. i \in 1 .. n /\ i + 1 \in 1 .. n /\ i \in Nat
    BY <1>1
  <2>2. CASE i < slot
    <3>1. g.pairs[i] = h.pairs[i]
      BY <1>3, <1>8, <2>2
    <3>2. h.str_slots[h.pairs[i][1]] = i /\ h.pairs[i][1] \in Keys
      BY <1>9, <2>1
    <3>3. h.pairs[i][1] # k
      BY <1>2, <1>9, <2>1, <2>2 DEF slot
    <3> QED BY <1>5, <1>8, <2>1, <2>2, <3>1, <3>2, <3>3 DEF ShiftSlots
  <2>3. CASE ~(i < slot)
    <3>1. g.pairs[i] = h.pairs[i + 1]
      BY <1>3, <1>8, <2>3
    <3>2. h.str_slots[h.pairs[i + 1][1]] = i + 1 /\ h.pairs[i + 1][1] \in Keys
      BY <1>9, <2>1
    <3>3. h.pairs[i + 1][1] # k
      BY <1>5, <2>1, <2>3, <3>2 DEF slot
    <3> QED BY <1>5, <1>8, <2>1, <2>3, <3>1, <3>2, <3>3 DEF ShiftSlots
  <2> QED BY <2>2, <2>3
<1>11. ASSUME NEW j \in Keys, g.str_slots[j] # 0
       PROVE  g.str_slots[j] \in 1 .. n - 1 /\ g.pairs[g.str_slots[j]][1] = j
  <2> DEFINE i == h.str_slots[j]
  <2>1. j # k
    BY <1>8, <1>11 DEF ShiftSlots
  <2>2. g.str_slots[j] = IF i > slot THEN i - 1 ELSE i
    BY <1>8, <2>1 DEF ShiftSlots
  <2>3. i \in Nat /\ i # 0
    BY <1>5, <1>11, <2>2
  <2>4. i \in 1 .. n /\ h.pairs[i][1] = j
    BY <2>3 DEF Sound, Aligned
  <2>5. i # slot
    BY <1>2, <2>1, <2>4
  <2> HIDE DEF i
  <2>6. CASE i > slot
    <3>1. i - 1 \in 1 .. n - 1 /\ ~(i - 1 < slot) /\ (i - 1) + 1 = i
      BY <1>1, <1>5, <2>4, <2>6
    <3> QED BY <1>3, <1>8, <2>2, <2>4, <2>6, <3>1
  <2>7. CASE ~(i > slot)
    <3>1. i \in 1 .. n - 1 /\ i < slot
      BY <1>1, <1>2, <1>5, <2>4, <2>5, <2>7
    <3> QED BY <1>3, <1>8, <2>2, <2>4, <2>7, <3>1
  <2> QED BY <2>6, <2>7
<1>12. Aligned(g)
  BY <1>3, <1>4, <1>8, <1>10, <1>11 DEF Aligned
<1>13. Contents(g) = g.pairs
  <2>1. \A i \in 1 .. n : h.pairs[i] = <<h.pairs[i][1], h.values[i]>>
    BY ContentsType
  <2>2. ASSUME NEW i \in 1 .. n - 1
        PROVE  g.pairs[i] = <<g.pairs[i][1], g.values[i]>>
    <3>1. i \in 1 .. n /\ i + 1 \in 1 .. n
      BY <1>1
    <3> QED BY <1>3, <1>4, <1>8, <2>1, <3>1
  <2>3. Contents(g) = [i \in 1 .. n - 1 |-> g.pairs[i]]
    BY <1>3, <1>8, <2>2 DEF Contents
  <2> QED BY <1>3, <1>8, <2>3
<1>14. Sound(g)
  BY <1>8, <1>12, <1>13 DEF Sound
<1> QED BY <1>8, <1>13, <1>14 DEF g, slot

(* remove_pair leaves a sound object behind; if it removes, the shape      *)
(* changes, else nothing does.                                             *)
LEMMA RemovePairSound ==
    ASSUME NEW h, Sound(h), NEW k \in Keys
    PROVE  /\ Sound(RemovePair(h, k))
           /\ RemovePair(h, k).frozen = h.frozen
           /\ HasKey(h, k) => RemovePair(h, k).shape_version = h.shape_version + 1
           /\ HasKey(h, k) =>
                 Contents(RemovePair(h, k)) = RemoveAt(Contents(h), h.str_slots[k])
           /\ ~HasKey(h, k) => RemovePair(h, k) = h
<1>1. CASE HasKey(h, k)
  <2> DEFINE f == Sync(h)
  <2>1. /\ Sound(f) /\ f.pairs = Contents(h) /\ f.str_slots = h.str_slots
        /\ f.shape_version = h.shape_version /\ f.frozen = h.frozen
        /\ f.values = h.values
    BY SyncSound
  <2>2. SlotOf(h, k) = f.str_slots[k] /\ f.str_slots[k] # 0
    BY <1>1, <2>1, SlotOfIsSlot
  <2>3. RemovePair(h, k) = RemoveSlot(f, k, f.str_slots[k])
    BY <1>1, <2>2 DEF RemovePair
  <2>4. Contents(f) = f.pairs
    BY <2>1, ContentsType DEF Contents
  <2> HIDE DEF f
  <2> QED BY <1>1, <2>1, <2>2, <2>3, <2>4, RemoveSlotSound
<1>2. CASE ~HasKey(h, k)
  BY <1>2 DEF RemovePair
<1> QED BY <1>1, <1>2

-----------------------------------------------------------------------------
(***************************************************************************)
(* What a step does to one object.                                         *)
(***************************************************************************)

\* One more property, k, and the next shape
Added(h, g, k) ==
    /\ g.shape_version = h.shape_version + 1
    /\ Len(g.pairs) = Len(h.pairs) + 1
    /\ \A i \in 1 .. Len(h.pairs) : g.pairs[i][1] = h.pairs[i][1]
    /\ g.pairs[Len(h.pairs) + 1][1] = k

\* A record only ever gets its next property.
NextOfRecord(o, k) ==
    o \in Records =>
        /\ Len(hash[o].pairs) < Len(RecordKeys)
        /\ k = RecordKeys[Len(hash[o].pairs) + 1]

EvolvesTo(o, g) ==
    /\ Sound(g)
    /\ \/ SameLayout(hash[o], g)
       \/ \E k \in Keys : Added(hash[o], g, k) /\ NextOfRecord(o, k)
       \/ o \notin Records /\ g.shape_version > hash[o].shape_version

Evolves ==
    /\ \A x \in Existing : x \in Existing' /\ EvolvesTo(x, hash'[x])
    /\ \A x \in Existing' \ Existing : x \in Objs /\ hash'[x] = EmptyHash

\* A site learns nothing, or the slot of its property in one of its objects.
Learns ==
    \/ inline_cache' = inline_cache
    \/ \E s \in Sites : \E o \in ObjsOf[s] \intersect Existing' :
          /\ hash'[o].str_slots[KeyOf[s]] # 0
          /\ inline_cache' =
                [inline_cache EXCEPT ![s] =
                    [shape |-> hash'[o].shape_version,
                     slot |-> hash'[o].str_slots[KeyOf[s]]]]

CopyingOK ==
    \/ copying = NoCopy
    \/ copying \in (Existing \ Records) \X Seq(Keys \X Vals) \X SUBSET Keys

\* The inductive invariant behind TypeOK and LayoutSound
LInv ==
    /\ Existing \subseteq Objs
    /\ \A o \in Existing : Sound(hash[o])
    /\ inline_cache \in [Sites -> [shape : Nat, slot : Nat]]
    /\ CopyingOK
    /\ out \in Seq(Entry)

Stepped == Evolves /\ Learns /\ CopyingOK' /\ out' \in Seq(Entry)

(* Nothing about the object changes.                                       *)
LEMMA StaysEvolves ==
    ASSUME LInv, NEW o \in Existing
    PROVE  EvolvesTo(o, hash[o])
BY DEF LInv, EvolvesTo, SameLayout

(* sync_pairs                                                              *)
LEMMA SyncEvolves ==
    ASSUME LInv, NEW o \in Existing
    PROVE  EvolvesTo(o, Synced(o))
<1>1. Sound(hash[o])
  BY DEF LInv
<1> DEFINE g == Sync(hash[o])
<1>2. /\ Sound(g) /\ g.pairs = Contents(hash[o]) /\ g.str_slots = hash[o].str_slots
      /\ g.shape_version = hash[o].shape_version
  BY <1>1, SyncSound
<1> HIDE DEF g
<1>3. SameLayout(hash[o], g)
  BY <1>1, <1>2, ContentsType DEF SameLayout
<1> QED BY <1>2, <1>3 DEF EvolvesTo, Synced, g

(* A cached write to a slot the object has                                 *)
LEMMA WriteEvolves ==
    ASSUME LInv, NEW o \in Existing, NEW slot \in 1 .. Len(hash[o].values), NEW v \in Vals
    PROVE  EvolvesTo(o, WriteSlot(hash[o], slot, v))
<1>1. Sound(hash[o]) /\ slot \in 1 .. Len(hash[o].pairs)
  BY DEF LInv, Sound, Aligned
<1> DEFINE g == WriteSlot(hash[o], slot, v)
<1>2. /\ Sound(g) /\ g.pairs = hash[o].pairs /\ g.str_slots = hash[o].str_slots
      /\ g.shape_version = hash[o].shape_version
  BY <1>1, WriteSlotSound
<1> HIDE DEF g
<1>3. SameLayout(hash[o], g)
  BY <1>2 DEF SameLayout
<1> QED BY <1>2, <1>3 DEF EvolvesTo, g

(* insert_pair of a property a record may get next                         *)
LEMMA InsertEvolves ==
    ASSUME LInv, NEW o \in Existing, NEW k \in Keys, NEW v \in Vals,
           hash[o].str_slots[k] = 0 => NextOfRecord(o, k)
    PROVE  EvolvesTo(o, InsertPair(hash[o], k, v))
<1>1. Sound(hash[o])
  BY DEF LInv
<1>2. CASE hash[o].str_slots[k] # 0
  BY <1>1, <1>2, InsertOldSound DEF EvolvesTo
<1>3. CASE hash[o].str_slots[k] = 0
  <2> DEFINE g == InsertPair(hash[o], k, v)
  <2>1. /\ Sound(g)
        /\ g.pairs = Append(hash[o].pairs, <<k, v>>)
        /\ g.shape_version = hash[o].shape_version + 1
    BY <1>1, <1>3, InsertNewSound
  <2> HIDE DEF g
  <2>2. hash[o].pairs \in Seq(Keys \X Vals)
    BY <1>1 DEF Sound, HashObject
  <2>3. Added(hash[o], g, k)
    BY <2>1, <2>2 DEF Added
  <2> QED BY <1>3, <2>1, <2>3 DEF EvolvesTo, g
<1> QED BY <1>2, <1>3

(* remove_pair of an object that is no record                              *)
LEMMA RemoveEvolves ==
    ASSUME LInv, NEW o \in Existing \ Records, NEW k \in Keys
    PROVE  EvolvesTo(o, RemovePair(hash[o], k))
<1>1. Sound(hash[o]) /\ hash[o].shape_version \in Nat
  BY DEF LInv, Sound, HashObject
<1>2. Sound(RemovePair(hash[o], k))
  BY <1>1, RemovePairSound
<1>3. CASE HasKey(hash[o], k)
  <2>1. RemovePair(hash[o], k).shape_version = hash[o].shape_version + 1
    BY <1>1, <1>3, RemovePairSound
  <2>2. RemovePair(hash[o], k).shape_version > hash[o].shape_version
    BY <1>1, <2>1
  <2> QED BY <1>2, <2>2 DEF EvolvesTo
<1>4. CASE ~HasKey(hash[o], k)
  BY <1>1, <1>4, RemovePairSound, StaysEvolves
<1> QED BY <1>3, <1>4

(* Object.freeze                                                           *)
LEMMA FreezeEvolves ==
    ASSUME LInv, NEW o \in Existing
    PROVE  EvolvesTo(o, [hash[o] EXCEPT !.frozen = TRUE])
<1> DEFINE h == hash[o]
           g == [h EXCEPT !.frozen = TRUE]
<1>1. Sound(h)
  BY DEF LInv
<1>2. /\ g \in HashObject
      /\ g.pairs = h.pairs /\ g.values = h.values /\ g.str_slots = h.str_slots
      /\ g.shape_version = h.shape_version /\ g.pairs_dirty = h.pairs_dirty
  BY <1>1 DEF Sound, HashObject
<1> HIDE DEF g, h
<1>3. Sound(g)
  BY <1>1, <1>2 DEF Sound, Aligned, Contents
<1> QED BY <1>2, <1>3 DEF EvolvesTo, SameLayout, g, h

(* A step that replaces one object                                         *)
LEMMA WithEvolves ==
    ASSUME LInv, NEW o \in Existing, NEW g, EvolvesTo(o, g), hash' = With(o, g)
    PROVE  Evolves /\ Existing' = Existing /\ hash'[o] = g
<1>1. Existing' = Existing /\ \A x \in Existing : hash'[x] = IF x = o THEN g ELSE hash[x]
  BY DEF With, Existing
<1>2. ASSUME NEW x \in Existing
      PROVE  EvolvesTo(x, hash'[x])
  BY <1>1, StaysEvolves
<1> QED BY <1>1, <1>2 DEF Evolves

(* A step that leaves the objects alone                                    *)
LEMMA SameEvolves ==
    ASSUME LInv, hash' = hash
    PROVE  Evolves /\ Existing' = Existing
BY StaysEvolves DEF Evolves, Existing

-----------------------------------------------------------------------------
(***************************************************************************)
(* Each action is a step of that kind.                                     *)
(***************************************************************************)

(* A lookup returns a value or Undefined.                                  *)
LEMMA LookupType ==
    ASSUME NEW h, Sound(h), NEW k \in Keys
    PROVE  << <<k, GetBySym(h, k)>> >> \in Seq(Entry)
<1>1. GetBySym(h, k) \in Vals \union {Undefined}
  BY DEF Sound, HashObject, Aligned, GetBySym
<1> QED BY <1>1 DEF Entry

(* What a site remembers is the slot of its property.                      *)
LEMMA RememberLearns ==
    ASSUME NEW s \in Sites, NEW o \in ObjsOf[s] \intersect Existing',
           NEW h, h = hash'[o], Remember(s, h)
    PROVE  Learns
BY DEF Remember, Learns

(* A copy that is not running, or goes on as it was                        *)
LEMMA CopyingStays ==
    ASSUME LInv, UNCHANGED copying, Existing \subseteq Existing'
    PROVE  CopyingOK'
BY DEF LInv, CopyingOK

(* The empty list of entries                                               *)
LEMMA NoEntries == <<>> \in Seq(Entry)
OBVIOUS

(* ROp::Hash creates an empty object.                                      *)
LEMMA NewHashSteps ==
    ASSUME LInv, NEW o \in Objs, NewHash(o)
    PROVE  Stepped
<1>1. /\ Existing' = Existing \union {o}
      /\ \A x \in Existing : hash'[x] = hash[x]
      /\ hash'[o] = EmptyHash
  BY DEF NewHash, With, Existing
<1>2. Evolves
  BY <1>1, StaysEvolves DEF Evolves
<1> QED BY <1>1, <1>2, CopyingStays, NoEntries DEF NewHash, Stepped, Learns

(* ROp::GetProp changes at most what its site remembers.                   *)
LEMMA GetPropSteps ==
    ASSUME LInv, NEW s \in Sites, NEW o \in ObjsOf[s], GetProp(s, o)
    PROVE  Stepped
<1>1. o \in Existing /\ hash' = hash /\ UNCHANGED copying /\ GetPropertyVal(s, o)
  BY DEF GetProp, Running
<1>2. Evolves /\ Existing' = Existing
  BY <1>1, SameEvolves
<1>3. Sound(hash[o]) /\ KeyOf[s] \in Keys
  BY <1>1, SiteAssumption DEF LInv
<1>4. Learns /\ out' \in Seq(Entry)
  <2>1. CASE Hit(s, hash[o])
    <3>1. hash[o].values[inline_cache[s].slot] \in Vals
      BY <1>3, <2>1 DEF Hit, Sound, HashObject
    <3> QED BY <1>1, <1>3, <2>1, <3>1 DEF GetPropertyVal, Learns, Entry
  <2>2. CASE ~Hit(s, hash[o])
    <3>1. Remember(s, hash[o]) /\ out' = << <<KeyOf[s], GetBySym(hash[o], KeyOf[s])>> >>
      BY <1>1, <2>2 DEF GetPropertyVal
    <3>2. Learns
      BY <1>1, <1>2, <3>1, RememberLearns
    <3> QED BY <1>3, <3>1, <3>2, LookupType
  <2> QED BY <2>1, <2>2
<1>5. CopyingOK'
  BY <1>1, <1>2, CopyingStays
<1> QED BY <1>2, <1>4, <1>5 DEF Stepped

(* What MayPut allows a record is its next property.                       *)
LEMMA MayPutNext ==
    ASSUME LInv, NEW o \in Existing, NEW k \in Keys, MayPut(o, k)
    PROVE  hash[o].str_slots[k] = 0 => NextOfRecord(o, k)
<1>1. Len(hash[o].values) = Len(hash[o].pairs)
  BY DEF LInv, Sound, Aligned
<1> QED BY <1>1 DEF MayPut, NextOfRecord

(* set_by_sym                                                              *)
LEMMA SetEvolves ==
    ASSUME LInv, NEW o \in Existing, NEW k \in Keys, NEW v \in Vals, MayPut(o, k)
    PROVE  EvolvesTo(o, SetBySym(hash[o], k, v))
<1>1. CASE hash[o].frozen
  BY <1>1, StaysEvolves DEF SetBySym
<1>2. CASE ~hash[o].frozen
  BY <1>2, MayPutNext, InsertEvolves DEF SetBySym
<1> QED BY <1>1, <1>2

(* fused_add_const_to_prop_slow                                            *)
LEMMA AddMissEvolves ==
    ASSUME LInv, NEW o \in Existing, NEW k \in Keys, NEW v \in Vals, MayPut(o, k)
    PROVE  EvolvesTo(o, AddMiss(hash[o], k, v))
<1>1. CASE hash[o].frozen
  BY <1>1, StaysEvolves DEF AddMiss
<1>2. CASE ~hash[o].frozen /\ hash[o].str_slots[k] # 0
  <2>1. hash[o].str_slots[k] \in 1 .. Len(hash[o].values)
    BY <1>2 DEF LInv, Sound, Aligned
  <2> QED BY <1>2, <2>1, WriteEvolves DEF AddMiss
<1>3. CASE ~hash[o].frozen /\ hash[o].str_slots[k] = 0
  BY <1>3, MayPutNext, InsertEvolves DEF AddMiss
<1> QED BY <1>1, <1>2, <1>3

(* ROp::SetProp writes the remembered slot, or inserts.                    *)
LEMMA SetPropSteps ==
    ASSUME LInv, NEW s \in Sites, NEW o \in ObjsOf[s], NEW v \in Vals, SetProp(s, o, v)
    PROVE  Stepped
<1>1. /\ o \in Existing /\ UNCHANGED copying /\ out' = <<>>
      /\ MayPut(o, KeyOf[s]) /\ SetPropertyVal(s, o, v)
  BY DEF SetProp, Running
<1>2. KeyOf[s] \in Keys
  BY SiteAssumption
<1>3. Evolves /\ Existing' = Existing /\ Learns
  <2>1. CASE hash[o].frozen
    <3>1. UNCHANGED <<hash, inline_cache>>
      BY <1>1, <2>1 DEF SetPropertyVal
    <3> QED BY <3>1, SameEvolves DEF Learns
  <2>2. CASE ~hash[o].frozen /\ Hit(s, hash[o])
    <3>1. /\ hash' = With(o, WriteSlot(hash[o], inline_cache[s].slot, v))
          /\ UNCHANGED inline_cache
      BY <1>1, <2>2 DEF SetPropertyVal
    <3>2. EvolvesTo(o, WriteSlot(hash[o], inline_cache[s].slot, v))
      BY <1>1, <2>2, WriteEvolves DEF Hit
    <3> QED BY <1>1, <3>1, <3>2, WithEvolves DEF Learns
  <2>3. CASE ~hash[o].frozen /\ ~Hit(s, hash[o])
    <3> DEFINE g == SetBySym(hash[o], KeyOf[s], v)
    <3>1. hash' = With(o, g) /\ Remember(s, g)
      BY <1>1, <2>3 DEF SetPropertyVal
    <3>2. EvolvesTo(o, g)
      BY <1>1, <1>2, SetEvolves
    <3> HIDE DEF g
    <3>3. Evolves /\ Existing' = Existing /\ hash'[o] = g
      BY <1>1, <3>1, <3>2, WithEvolves
    <3> QED BY <1>1, <3>1, <3>3, RememberLearns
  <2> QED BY <2>1, <2>2, <2>3
<1>4. CopyingOK'
  BY <1>1, <1>3, CopyingStays
<1> QED BY <1>1, <1>3, <1>4, NoEntries DEF Stepped

(* ROp::AddConstToRegProp, likewise                                        *)
LEMMA AddConstSteps ==
    ASSUME LInv, NEW s \in Sites, NEW o \in ObjsOf[s], NEW v \in Vals,
           AddConstToRegProp(s, o, v)
    PROVE  Stepped
<1>1. o \in Existing /\ UNCHANGED copying /\ out' = <<>> /\ MayPut(o, KeyOf[s])
  BY DEF AddConstToRegProp, Running
<1>2. KeyOf[s] \in Keys
  BY SiteAssumption
<1>3. Evolves /\ Existing' = Existing /\ Learns
  <2>1. CASE Hit(s, hash[o])
    <3>1. /\ hash' = With(o, WriteSlot(hash[o], inline_cache[s].slot, v))
          /\ UNCHANGED inline_cache
      BY <2>1 DEF AddConstToRegProp
    <3>2. EvolvesTo(o, WriteSlot(hash[o], inline_cache[s].slot, v))
      BY <1>1, <2>1, WriteEvolves DEF Hit
    <3> QED BY <1>1, <3>1, <3>2, WithEvolves DEF Learns
  <2>2. CASE ~Hit(s, hash[o])
    <3> DEFINE g == AddMiss(hash[o], KeyOf[s], v)
    <3>1. hash' = With(o, g) /\ Remember(s, g)
      BY <2>2 DEF AddConstToRegProp
    <3>2. EvolvesTo(o, g)
      BY <1>1, <1>2, AddMissEvolves
    <3> HIDE DEF g
    <3>3. Evolves /\ Existing' = Existing /\ hash'[o] = g
      BY <1>1, <3>1, <3>2, WithEvolves
    <3> QED BY <1>1, <3>1, <3>3, RememberLearns
  <2> QED BY <2>1, <2>2
<1>4. CopyingOK'
  BY <1>1, <1>3, CopyingStays
<1> QED BY <1>1, <1>3, <1>4, NoEntries DEF Stepped

(* Object.freeze                                                           *)
LEMMA FreezeSteps ==
    ASSUME LInv, NEW o \in Existing, ObjectFreeze(o)
    PROVE  Stepped
<1>1. /\ hash' = With(o, [hash[o] EXCEPT !.frozen = TRUE])
      /\ out' = <<>> /\ UNCHANGED <<inline_cache, copying>>
  BY DEF ObjectFreeze
<1>2. Evolves /\ Existing' = Existing
  BY <1>1, FreezeEvolves, WithEvolves
<1> QED BY <1>1, <1>2, NoEntries, CopyingStays DEF Stepped, Learns

(* Reads and writes by key, and delete                                     *)
LEMMA KeyedSteps ==
    ASSUME LInv, NEW o \in Existing, NEW k \in Keys,
           \/ GetIndex(o, k)
           \/ \E v \in Vals : SetIndex(o, k, v)
           \/ DeleteProp(o, k)
    PROVE  Stepped
<1>1. CASE GetIndex(o, k)
  <2>1. UNCHANGED <<hash, inline_cache, copying>>
    BY <1>1 DEF GetIndex
  <2>2. Sound(hash[o])
    BY DEF LInv
  <2>3. out' \in Seq(Entry)
    BY <1>1, <2>2, LookupType DEF GetIndex
  <2> QED BY <2>1, <2>3, SameEvolves, CopyingStays DEF Stepped, Learns
<1>2. ASSUME NEW v \in Vals, SetIndex(o, k, v)
      PROVE  Stepped
  <2>1. /\ hash' = With(o, SetBySym(hash[o], k, v)) /\ MayPut(o, k)
        /\ out' = <<>> /\ UNCHANGED <<inline_cache, copying>>
    BY <1>2 DEF SetIndex
  <2>2. Evolves /\ Existing' = Existing
    BY <2>1, SetEvolves, WithEvolves
  <2> QED BY <2>1, <2>2, NoEntries, CopyingStays DEF Stepped, Learns
<1>3. CASE DeleteProp(o, k)
  <2>1. /\ hash' = With(o, RemovePair(hash[o], k)) /\ o \notin Records
        /\ out' = <<>> /\ UNCHANGED <<inline_cache, copying>>
    BY <1>3 DEF DeleteProp
  <2>2. Evolves /\ Existing' = Existing
    BY <2>1, RemoveEvolves, WithEvolves
  <2> QED BY <2>1, <2>2, NoEntries, CopyingStays DEF Stepped, Learns
<1> QED BY <1>1, <1>2, <1>3

(* The entries of a listing                                                *)
LEMMA SyncedEntries ==
    ASSUME LInv, NEW o \in Existing
    PROVE  Synced(o).pairs \in Seq(Keys \X Vals) /\ Synced(o).pairs \in Seq(Entry)
<1>1. Sound(hash[o])
  BY DEF LInv
<1>2. Synced(o).pairs = Contents(hash[o])
  BY <1>1, SyncSound DEF Synced
<1>3. Contents(hash[o]) \in Seq(Keys \X Vals)
  BY <1>1, ContentsType
<1>4. Keys \X Vals \subseteq Entry
  BY DEF Entry
<1> QED BY <1>2, <1>3, <1>4

(* Object.entries                                                          *)
LEMMA EntriesSteps ==
    ASSUME LInv, NEW o \in Existing, ObjectEntries(o)
    PROVE  Stepped
<1>1. /\ hash' = With(o, Synced(o)) /\ out' = Synced(o).pairs
      /\ UNCHANGED <<inline_cache, copying>>
  BY DEF ObjectEntries
<1>2. Evolves /\ Existing' = Existing
  BY <1>1, SyncEvolves, WithEvolves
<1> QED BY <1>1, <1>2, SyncedEntries, CopyingStays DEF Stepped, Learns

(* Object rest and spread start to copy to a new object.                   *)
LEMMA RestSteps ==
    ASSUME LInv, NEW o \in Existing, NEW to \in Objs, NEW excluded \in SUBSET Keys,
           ObjectRest(o, to, excluded)
    PROVE  Stepped
<1>1. /\ to \in (Objs \ Existing) \ Records
      /\ hash' = [x \in Existing \union {to} |->
                    IF x = to THEN EmptyHash ELSE IF x = o THEN Synced(o) ELSE hash[x]]
      /\ copying' = <<to, Synced(o).pairs, excluded>>
      /\ out' = <<>> /\ UNCHANGED inline_cache
  BY DEF ObjectRest
<1>2. /\ Existing' = Existing \union {to}
      /\ hash'[to] = EmptyHash
      /\ \A x \in Existing : hash'[x] = IF x = o THEN Synced(o) ELSE hash[x]
  BY <1>1 DEF Existing
<1>3. ASSUME NEW x \in Existing
      PROVE  EvolvesTo(x, hash'[x])
  BY <1>2, StaysEvolves, SyncEvolves
<1>4. Evolves
  BY <1>1, <1>2, <1>3 DEF Evolves
<1>5. CopyingOK'
  BY <1>1, <1>2, SyncedEntries DEF CopyingOK
<1> QED BY <1>1, <1>4, <1>5, NoEntries DEF Stepped, Learns

(* Object.assign starts to copy onto an object that is no record.          *)
LEMMA AssignSteps ==
    ASSUME LInv, NEW o \in Existing, NEW to \in Objs, ObjectAssign(o, to)
    PROVE  Stepped
<1>1. /\ to \in Existing \ Records /\ hash' = With(o, Synced(o))
      /\ copying' = <<to, Synced(o).pairs, {}>>
      /\ out' = <<>> /\ UNCHANGED inline_cache
  BY DEF ObjectAssign
<1>2. Evolves /\ Existing' = Existing
  BY <1>1, SyncEvolves, WithEvolves
<1>3. CopyingOK'
  BY <1>1, <1>2, SyncedEntries DEF CopyingOK
<1> QED BY <1>1, <1>2, <1>3, NoEntries DEF Stepped, Learns

(* One turn of a copy loop                                                 *)
LEMMA CopyEntrySteps ==
    ASSUME LInv, copying # NoCopy, CopyEntry
    PROVE  Stepped
<1> DEFINE to == copying[1]
           entries == copying[2]
           excluded == copying[3]
<1>1. /\ to \in Existing \ Records
      /\ entries \in Seq(Keys \X Vals) /\ entries # <<>>
      /\ excluded \in SUBSET Keys
  BY DEF LInv, CopyingOK, CopyEntry
<1>2. /\ hash' = IF Head(entries)[1] \in excluded THEN hash
                 ELSE With(to, InsertPair(hash[to], Head(entries)[1], Head(entries)[2]))
      /\ copying' = <<to, Tail(entries), excluded>>
      /\ out' = <<>> /\ UNCHANGED inline_cache
  BY DEF CopyEntry
<1> HIDE DEF to, entries, excluded
<1>3. Head(entries) \in Keys \X Vals /\ Tail(entries) \in Seq(Keys \X Vals)
  BY <1>1
<1>4. Evolves /\ Existing' = Existing
  <2>1. CASE Head(entries)[1] \in excluded
    BY <1>2, <2>1, SameEvolves
  <2>2. CASE Head(entries)[1] \notin excluded
    <3> DEFINE g == InsertPair(hash[to], Head(entries)[1], Head(entries)[2])
    <3>1. NextOfRecord(to, Head(entries)[1])
      BY <1>1 DEF NextOfRecord
    <3>2. EvolvesTo(to, g)
      BY <1>1, <1>3, <3>1, InsertEvolves
    <3>3. hash' = With(to, g)
      BY <1>2, <2>2
    <3> HIDE DEF g
    <3> QED BY <1>1, <3>2, <3>3, WithEvolves
  <2> QED BY <2>1, <2>2
<1>5. CopyingOK'
  BY <1>1, <1>2, <1>3, <1>4 DEF CopyingOK
<1> QED BY <1>2, <1>4, <1>5, NoEntries DEF Stepped, Learns

(* The end of a copy loop                                                  *)
LEMMA EndCopySteps ==
    ASSUME LInv, EndCopy
    PROVE  Stepped
<1>1. UNCHANGED <<hash, inline_cache>> /\ out' = <<>> /\ copying' = NoCopy
  BY DEF EndCopy
<1>2. CopyingOK'
  BY <1>1 DEF CopyingOK
<1> QED BY <1>1, <1>2, SameEvolves, NoEntries DEF Stepped, Learns

(* Every step of the machine                                               *)
LEMMA NextSteps ==
    ASSUME LInv, Next
    PROVE  Stepped
<1>1. ASSUME NEW s \in Sites, NEW o \in ObjsOf[s],
             \/ GetProp(s, o)
             \/ \E v \in Vals : SetProp(s, o, v) \/ AddConstToRegProp(s, o, v)
      PROVE  Stepped
  BY <1>1, GetPropSteps, SetPropSteps, AddConstSteps
<1>2. ASSUME NEW o \in Existing,
             \/ \E k \in Keys :
                   \/ GetIndex(o, k) \/ DeleteProp(o, k)
                   \/ \E v \in Vals : SetIndex(o, k, v)
             \/ ObjectFreeze(o) \/ ObjectEntries(o)
             \/ \E to \in Objs, excluded \in SUBSET Keys : ObjectRest(o, to, excluded)
             \/ \E to \in Objs : ObjectAssign(o, to)
      PROVE  Stepped
  BY <1>2, FreezeSteps, KeyedSteps, EntriesSteps, RestSteps, AssignSteps
<1>3. ASSUME NEW o \in Objs, NewHash(o)
      PROVE  Stepped
  BY <1>3, NewHashSteps
<1>4. ASSUME copying # NoCopy, CopyEntry \/ EndCopy
      PROVE  Stepped
  BY <1>4, CopyEntrySteps, EndCopySteps
<1> QED BY <1>1, <1>2, <1>3, <1>4 DEF Next

-----------------------------------------------------------------------------
(***************************************************************************)
(* Layout                                                                  *)
(***************************************************************************)

(* A machine without objects                                               *)
LEMMA InitLInv == Init => LInv
BY DEF Init, LInv, CopyingOK, Existing, EmptyCache

(* No step disturbs the invariant.                                         *)
LEMMA NextLInv == LInv /\ [Next]_vars => LInv'
<1>1. ASSUME LInv, Stepped
      PROVE  LInv'
  <2>1. Existing' \subseteq Objs /\ \A o \in Existing' : Sound(hash'[o])
    BY <1>1, EmptySound DEF Stepped, Evolves, EvolvesTo, LInv
  <2>2. inline_cache' \in [Sites -> [shape : Nat, slot : Nat]]
    <3>1. CASE inline_cache' = inline_cache
      BY <1>1, <3>1 DEF LInv
    <3>2. CASE inline_cache' # inline_cache
      <4>1. PICK s \in Sites : \E o \in ObjsOf[s] \intersect Existing' :
              inline_cache' = [inline_cache EXCEPT ![s] =
                                [shape |-> hash'[o].shape_version,
                                 slot |-> hash'[o].str_slots[KeyOf[s]]]]
        BY <1>1, <3>2 DEF Stepped, Learns
      <4>2. PICK o \in ObjsOf[s] \intersect Existing' :
              inline_cache' = [inline_cache EXCEPT ![s] =
                                [shape |-> hash'[o].shape_version,
                                 slot |-> hash'[o].str_slots[KeyOf[s]]]]
        BY <4>1
      <4>3. hash'[o].shape_version \in Nat /\ hash'[o].str_slots[KeyOf[s]] \in Nat
        BY <2>1, SiteAssumption DEF Sound, HashObject
      <4> QED BY <1>1, <4>2, <4>3 DEF LInv
    <3> QED BY <3>1, <3>2
  <2>3. CopyingOK' /\ out' \in Seq(Entry)
    BY <1>1 DEF Stepped
  <2> QED BY <2>1, <2>2, <2>3 DEF LInv
<1>2. ASSUME LInv, UNCHANGED vars
      PROVE  LInv'
  BY <1>2 DEF LInv, vars, CopyingOK, Existing
<1> QED BY <1>1, <1>2, NextSteps

(* The invariant contains the type invariant and the layout.               *)
LEMMA LInvImplies == LInv => TypeOK /\ LayoutSound
BY DEF LInv, CopyingOK, TypeOK, LayoutSound, PairsFresh, Sound

(* Every object, cache entry, copy in progress and result has its type, for *)
(* any number of objects, keys and sites.                                  *)
THEOREM TypeCorrect == Spec => []TypeOK
BY InitLInv, NextLInv, LInvImplies, PTL DEF Spec

(* pairs, values and str_slots describe one list of properties, and a      *)
(* listing after sync_pairs shows the newest values: insert_pair,          *)
(* remove_pair, cached writes and copies never let them diverge.           *)
THEOREM LayoutIsSound == Spec => []LayoutSound
BY InitLInv, NextLInv, LInvImplies, PTL DEF Spec

-----------------------------------------------------------------------------
(***************************************************************************)
(* Caches                                                                  *)
(***************************************************************************)

\* A record is a prefix of RecordKeys, and its shape tells how long it is.
RecordSound(h) ==
    /\ Len(h.pairs) <= Len(RecordKeys)
    /\ \A i \in 1 .. Len(h.pairs) : h.pairs[i][1] = RecordKeys[i]
    /\ h.shape_version = Len(h.pairs) + 1

\* What a site with one object remembers is true of it as long as the shape is.
CacheAlone(s) ==
    \A o \in ObjsOf[s] : inline_cache[s].shape # 0 =>
        /\ o \in Existing
        /\ inline_cache[s].shape <= hash[o].shape_version
        /\ inline_cache[s].shape = hash[o].shape_version =>
              /\ inline_cache[s].slot # 0
              /\ inline_cache[s].slot = hash[o].str_slots[KeyOf[s]]

\* What a site with records remembers is true of every record of that shape.
CacheRecord(s) ==
    inline_cache[s].shape # 0 =>
        /\ inline_cache[s].slot \in 1 .. Len(RecordKeys)
        /\ inline_cache[s].slot < inline_cache[s].shape
        /\ RecordKeys[inline_cache[s].slot] = KeyOf[s]

Alone(s) == \A x, y \in ObjsOf[s] : x = y

CInv ==
    /\ LInv
    /\ \A o \in Existing : hash[o].shape_version >= 1
    /\ \A o \in Existing \intersect Records : RecordSound(hash[o])
    /\ \A s \in Sites : Alone(s) => CacheAlone(s)
    /\ \A s \in Sites : ObjsOf[s] \subseteq Records => CacheRecord(s)

(* No site remembers anything at first.                                    *)
LEMMA InitCInv == Init => CInv
BY InitLInv DEF Init, CInv, Existing, EmptyCache, CacheAlone, CacheRecord

(* A record stays one.                                                     *)
LEMMA RecordStays ==
    ASSUME NEW o \in Records, Sound(hash[o]), RecordSound(hash[o]),
           NEW g, EvolvesTo(o, g)
    PROVE  RecordSound(g)
<1> DEFINE h == hash[o]
           n == Len(h.pairs)
<1>1. n \in Nat /\ Len(RecordKeys) \in Nat
  BY SiteAssumption DEF Sound, HashObject
<1>2. CASE SameLayout(h, g)
  BY <1>2 DEF SameLayout, RecordSound
<1>3. ASSUME NEW k \in Keys, Added(h, g, k), NextOfRecord(o, k)
      PROVE  RecordSound(g)
  <2>1. /\ Len(g.pairs) = n + 1 /\ g.shape_version = h.shape_version + 1
        /\ \A i \in 1 .. n : g.pairs[i][1] = h.pairs[i][1]
        /\ g.pairs[n + 1][1] = k
    BY <1>3 DEF Added
  <2>2. n < Len(RecordKeys) /\ k = RecordKeys[n + 1]
    BY <1>3 DEF NextOfRecord
  <2>3. /\ \A i \in 1 .. n : h.pairs[i][1] = RecordKeys[i]
        /\ h.shape_version = n + 1
    BY DEF RecordSound
  <2> HIDE DEF h, n
  <2>4. \A i \in 1 .. n + 1 : g.pairs[i][1] = RecordKeys[i]
    BY <1>1, <2>1, <2>2, <2>3
  <2> QED BY <1>1, <2>1, <2>2, <2>3, <2>4 DEF RecordSound
<1> QED BY <1>2, <1>3 DEF EvolvesTo

(* The shape of an object never decreases, and while it stays the slots    *)
(* stay.                                                                   *)
LEMMA ShapeGrows ==
    ASSUME NEW o, Sound(hash[o]), NEW g, EvolvesTo(o, g)
    PROVE  /\ g.shape_version \in Nat
           /\ hash[o].shape_version <= g.shape_version
           /\ hash[o].shape_version = g.shape_version => g.str_slots = hash[o].str_slots
<1>1. hash[o].shape_version \in Nat /\ g.shape_version \in Nat
  BY DEF EvolvesTo, Sound, HashObject
<1>2. CASE SameLayout(hash[o], g)
  BY <1>1, <1>2 DEF SameLayout
<1>3. CASE g.shape_version > hash[o].shape_version
  BY <1>1, <1>3
<1> QED BY <1>1, <1>2, <1>3 DEF EvolvesTo, Added

(* A site that learns nothing still remembers the truth.                   *)
LEMMA CachesStay ==
    ASSUME CInv, Stepped, NEW s \in Sites, inline_cache'[s] = inline_cache[s]
    PROVE  /\ Alone(s) => CacheAlone(s)'
           /\ ObjsOf[s] \subseteq Records => CacheRecord(s)'
<1>1. ASSUME Alone(s), NEW o \in ObjsOf[s], inline_cache[s].shape # 0
      PROVE  /\ o \in Existing'
             /\ inline_cache[s].shape <= hash'[o].shape_version
             /\ inline_cache[s].shape = hash'[o].shape_version =>
                   /\ inline_cache[s].slot # 0
                   /\ inline_cache[s].slot = hash'[o].str_slots[KeyOf[s]]
  <2>1. /\ o \in Existing
        /\ inline_cache[s].shape <= hash[o].shape_version
        /\ inline_cache[s].shape = hash[o].shape_version =>
              /\ inline_cache[s].slot # 0
              /\ inline_cache[s].slot = hash[o].str_slots[KeyOf[s]]
    BY <1>1 DEF CInv, CacheAlone
  <2>2. Sound(hash[o]) /\ o \in Existing' /\ EvolvesTo(o, hash'[o])
    BY <2>1 DEF CInv, LInv, Stepped, Evolves
  <2>3. /\ hash'[o].shape_version \in Nat
        /\ hash[o].shape_version <= hash'[o].shape_version
        /\ hash[o].shape_version = hash'[o].shape_version =>
              hash'[o].str_slots = hash[o].str_slots
    BY <2>2, ShapeGrows
  <2>4. hash[o].shape_version \in Nat /\ inline_cache[s].shape \in Nat
    BY <2>2 DEF Sound, HashObject, CInv, LInv
  <2> QED BY <2>1, <2>2, <2>3, <2>4
<1>2. Alone(s) => CacheAlone(s)'
  BY <1>1 DEF CacheAlone
<1>3. ObjsOf[s] \subseteq Records => CacheRecord(s)'
  BY DEF CInv, CacheRecord
<1> QED BY <1>2, <1>3

(* A site that learns, learns the truth.                                   *)
LEMMA CachesLearn ==
    ASSUME LInv', NEW s \in Sites, NEW o \in ObjsOf[s] \intersect Existing',
           o \in Records => RecordSound(hash'[o]),
           hash'[o].str_slots[KeyOf[s]] # 0,
           inline_cache'[s] = [shape |-> hash'[o].shape_version,
                               slot |-> hash'[o].str_slots[KeyOf[s]]]
    PROVE  /\ Alone(s) => CacheAlone(s)'
           /\ ObjsOf[s] \subseteq Records => CacheRecord(s)'
<1> DEFINE g == hash'[o]
           slot == g.str_slots[KeyOf[s]]
<1>1. Sound(g) /\ KeyOf[s] \in Keys
  BY SiteAssumption DEF LInv
<1>2. g.shape_version \in Nat /\ slot \in 1 .. Len(g.pairs) /\ g.pairs[slot][1] = KeyOf[s]
  BY <1>1 DEF Sound, HashObject, Aligned
<1>3. Alone(s) => CacheAlone(s)'
  BY <1>2 DEF Alone, CacheAlone
<1>4. ASSUME ObjsOf[s] \subseteq Records
      PROVE  CacheRecord(s)'
  <2>1. RecordSound(g)
    BY <1>4
  <2>2. Len(g.pairs) \in Nat /\ Len(RecordKeys) \in Nat
    BY <1>1, SiteAssumption DEF Sound, HashObject
  <2>3. inline_cache'[s].shape = g.shape_version /\ inline_cache'[s].slot = slot
    OBVIOUS
  <2> HIDE DEF g, slot
  <2>4. /\ slot \in 1 .. Len(RecordKeys)
        /\ slot < g.shape_version
        /\ RecordKeys[slot] = KeyOf[s]
    BY <1>2, <2>1, <2>2 DEF RecordSound
  <2> QED BY <2>3, <2>4 DEF CacheRecord
<1> QED BY <1>3, <1>4

(* No step makes a site remember something false.                          *)
LEMMA NextCInv == CInv /\ [Next]_vars => CInv'
<1>1. ASSUME CInv, Stepped, LInv'
      PROVE  CInv'
  <2>1. \A o \in Existing' : hash'[o].shape_version >= 1
    <3>1. ASSUME NEW o \in Existing
          PROVE  hash'[o].shape_version >= 1
      <4>1. Sound(hash[o]) /\ EvolvesTo(o, hash'[o]) /\ hash[o].shape_version >= 1
        BY <1>1 DEF CInv, LInv, Stepped, Evolves
      <4>2. /\ hash[o].shape_version \in Nat /\ hash'[o].shape_version \in Nat
            /\ hash[o].shape_version <= hash'[o].shape_version
        BY <4>1, ShapeGrows DEF Sound, HashObject
      <4> QED BY <4>1, <4>2
    <3> QED BY <1>1, <3>1 DEF Stepped, Evolves, EmptyHash
  <2>2. ASSUME NEW o \in Existing' \intersect Records
        PROVE  RecordSound(hash'[o])
    <3>1. CASE o \in Existing
      BY <1>1, <3>1, RecordStays DEF CInv, LInv, Stepped, Evolves
    <3>2. CASE o \notin Existing
      <4>1. hash'[o] = EmptyHash
        BY <1>1, <3>2 DEF Stepped, Evolves
      <4> QED BY <4>1, SiteAssumption DEF RecordSound, EmptyHash
    <3> QED BY <3>1, <3>2
  <2>3. ASSUME NEW s \in Sites
        PROVE  /\ Alone(s) => CacheAlone(s)'
               /\ ObjsOf[s] \subseteq Records => CacheRecord(s)'
    <3>1. CASE inline_cache'[s] = inline_cache[s]
      BY <1>1, <3>1, CachesStay
    <3>2. CASE inline_cache'[s] # inline_cache[s]
      <4>1. PICK t \in Sites : \E o \in ObjsOf[t] \intersect Existing' :
              /\ hash'[o].str_slots[KeyOf[t]] # 0
              /\ inline_cache' =
                    [inline_cache EXCEPT ![t] =
                        [shape |-> hash'[o].shape_version,
                         slot |-> hash'[o].str_slots[KeyOf[t]]]]
        BY <1>1, <3>2 DEF Stepped, Learns
      <4>2. PICK o \in ObjsOf[t] \intersect Existing' :
              /\ hash'[o].str_slots[KeyOf[t]] # 0
              /\ inline_cache' =
                    [inline_cache EXCEPT ![t] =
                        [shape |-> hash'[o].shape_version,
                         slot |-> hash'[o].str_slots[KeyOf[t]]]]
        BY <4>1
      <4>3. inline_cache \in [Sites -> [shape : Nat, slot : Nat]]
        BY <1>1 DEF CInv, LInv
      <4>4. s = t
        BY <3>2, <4>2, <4>3
      <4>5. inline_cache'[s] = [shape |-> hash'[o].shape_version,
                                slot |-> hash'[o].str_slots[KeyOf[s]]]
        BY <4>2, <4>3, <4>4
      <4> QED BY <1>1, <2>2, <4>2, <4>4, <4>5, CachesLearn
    <3> QED BY <3>1, <3>2
  <2>4. \A s \in Sites : Alone(s)' = Alone(s)
    BY DEF Alone
  <2> QED BY <1>1, <2>1, <2>2, <2>3, <2>4 DEF CInv
<1>2. ASSUME CInv, UNCHANGED vars, LInv'
      PROVE  CInv'
  BY <1>2 DEF CInv, vars, Existing, CacheAlone, CacheRecord, Alone, RecordSound
<1>3. CInv => LInv
  BY DEF CInv
<1> QED BY <1>1, <1>2, <1>3, NextSteps, NextLInv

(* What the sites remember is true of the objects they meet.               *)
LEMMA CInvImplies == SitesAreUniform /\ CInv => CacheSound
<1> SUFFICES ASSUME SitesAreUniform, CInv,
                    NEW s \in Sites, NEW o \in ObjsOf[s] \intersect Existing,
                    inline_cache[s].shape = hash[o].shape_version
             PROVE  /\ inline_cache[s].slot \in 1 .. Len(hash[o].pairs)
                    /\ hash[o].pairs[inline_cache[s].slot][1] = KeyOf[s]
  BY DEF CacheSound
<1>1. Sound(hash[o]) /\ KeyOf[s] \in Keys
  BY SiteAssumption DEF CInv, LInv
<1>2. inline_cache[s].shape # 0
  BY DEF CInv
<1>3. CASE Alone(s)
  <2>1. inline_cache[s].slot # 0 /\ inline_cache[s].slot = hash[o].str_slots[KeyOf[s]]
    BY <1>2, <1>3 DEF CInv, CacheAlone
  <2> QED BY <1>1, <2>1 DEF Sound, Aligned
<1>4. CASE ObjsOf[s] \subseteq Records
  <2>1. /\ inline_cache[s].slot \in 1 .. Len(RecordKeys)
        /\ inline_cache[s].slot < inline_cache[s].shape
        /\ RecordKeys[inline_cache[s].slot] = KeyOf[s]
    BY <1>2, <1>4 DEF CInv, CacheRecord
  <2>2. RecordSound(hash[o])
    BY <1>4 DEF CInv
  <2>3. Len(hash[o].pairs) \in Nat
    BY <1>1 DEF Sound, HashObject
  <2>4. inline_cache[s].slot \in 1 .. Len(hash[o].pairs)
    BY <2>1, <2>2, <2>3 DEF RecordSound
  <2> QED BY <2>1, <2>2, <2>4 DEF RecordSound
<1> QED BY <1>3, <1>4 DEF SitesAreUniform, Alone

(* Where each site meets one object, or objects built alike, a cached      *)
(* access never lands on another property, for any number of objects,      *)
(* sites and keys and any sequence of writes, deletes and copies.          *)
THEOREM CacheIsSound ==
    ASSUME SitesAreUniform
    PROVE  Spec => []CacheSound
<1>1. CInv => CacheSound
  BY CInvImplies
<1> QED BY <1>1, InitCInv, NextCInv, PTL DEF Spec

-----------------------------------------------------------------------------
(***************************************************************************)
(* Objects with slots, shapes and caches implement PropertyStore: each     *)
(* operation of HashObject does to the list of properties what the         *)
(* abstract operation does, so each step maps to a step or a stutter.      *)
(***************************************************************************)

\* A copy loop writes to an object that is not frozen.
TargetThawed == copying # NoCopy => ~hash[copying[1]].frozen

\* The refinement mapping
contents == [o \in Existing |-> Contents(hash[o])]
frozen == {o \in Existing : hash[o].frozen}

-----------------------------------------------------------------------------
(***************************************************************************)
(* The operations on one object.                                           *)
(***************************************************************************)

(* A property is in the list where its slot is.                            *)
LEMMA StoreIndex ==
    ASSUME NEW h, Sound(h), NEW k \in Keys
    PROVE  /\ Store!HasKey(Contents(h), k) <=> h.str_slots[k] # 0
           /\ h.str_slots[k] # 0 => Store!IndexOf(Contents(h), k) = h.str_slots[k]
<1> DEFINE c == Contents(h)
           n == Len(h.pairs)
<1>1. DOMAIN c = 1 .. n /\ \A i \in 1 .. n : c[i] = <<h.pairs[i][1], h.values[i]>>
  BY ContentsType
<1>2. \A i \in 1 .. n : h.pairs[i][1] = k => i = h.str_slots[k] /\ i # 0
  BY DEF Sound, Aligned
<1>3. h.str_slots[k] # 0 => h.str_slots[k] \in 1 .. n /\ h.pairs[h.str_slots[k]][1] = k
  BY DEF Sound, Aligned
<1> HIDE DEF c, n
<1>4. Store!HasKey(c, k) <=> h.str_slots[k] # 0
  BY <1>1, <1>2, <1>3 DEF Store!HasKey
<1>5. ASSUME h.str_slots[k] # 0
      PROVE  Store!IndexOf(c, k) = h.str_slots[k]
  <2>1. \A i \in DOMAIN c : c[i][1] = k <=> i = h.str_slots[k]
    BY <1>1, <1>2, <1>3, <1>5
  <2>2. h.str_slots[k] \in DOMAIN c
    BY <1>1, <1>3, <1>5
  <2> QED BY <2>1, <2>2 DEF Store!IndexOf
<1> QED BY <1>4, <1>5 DEF c

(* get_by_sym is the lookup in the list.                                   *)
LEMMA StoreLookup ==
    ASSUME NEW h, Sound(h), NEW k \in Keys
    PROVE  Store!Lookup(Contents(h), k) = GetBySym(h, k)
<1>1. CASE h.str_slots[k] = 0
  BY <1>1, StoreIndex DEF Store!Lookup, GetBySym
<1>2. CASE h.str_slots[k] # 0
  <2>1. h.str_slots[k] \in 1 .. Len(h.pairs)
    BY <1>2 DEF Sound, Aligned
  <2>2. Contents(h)[h.str_slots[k]][2] = h.values[h.str_slots[k]]
    BY <2>1, ContentsType
  <2>3. Store!HasKey(Contents(h), k) /\ Store!IndexOf(Contents(h), k) = h.str_slots[k]
    BY <1>2, StoreIndex
  <2> QED BY <1>2, <2>2, <2>3 DEF Store!Lookup, GetBySym
<1> QED BY <1>1, <1>2

(* sync_pairs leaves the list as it is.                                    *)
LEMMA StoreSync ==
    ASSUME NEW h, Sound(h)
    PROVE  Contents(Sync(h)) = Contents(h)
<1> DEFINE g == Sync(h)
<1>1. g.pairs = Contents(h) /\ g.values = h.values
  BY SyncSound
<1> HIDE DEF g
<1>2. Contents(g) = [i \in 1 .. Len(h.pairs) |-> <<h.pairs[i][1], h.values[i]>>]
  BY <1>1, ContentsType DEF Contents
<1> QED BY <1>2 DEF Contents, g

(* A write to the slot of a property puts the value in its place.          *)
LEMMA StoreWrite ==
    ASSUME NEW h, Sound(h), NEW k \in Keys, NEW v \in Vals, h.str_slots[k] # 0
    PROVE  Contents(WriteSlot(h, h.str_slots[k], v)) = Store!Put(Contents(h), k, v)
<1> DEFINE slot == h.str_slots[k]
           g == WriteSlot(h, slot, v)
           n == Len(h.pairs)
<1>1. slot \in 1 .. n /\ h.pairs[slot][1] = k /\ Len(h.values) = n
  BY DEF Sound, Aligned
<1>2. g.pairs = h.pairs /\ g.values = [h.values EXCEPT ![slot] = v]
  <2> HIDE DEF slot
  <2> QED BY <1>1, WriteSlotSound
<1>3. h.values \in Seq(Vals) /\ n \in Nat
  BY DEF Sound, HashObject
<1>4. Store!Put(Contents(h), k, v) = [Contents(h) EXCEPT ![slot] = <<k, v>>]
  BY StoreIndex DEF Store!Put
<1> HIDE DEF g, slot, n
<1>5. Contents(g) = [i \in 1 .. n |-> IF i = slot THEN <<k, v>>
                                      ELSE <<h.pairs[i][1], h.values[i]>>]
  BY <1>1, <1>2, <1>3 DEF Contents, n
<1>6. [Contents(h) EXCEPT ![slot] = <<k, v>>] =
         [i \in 1 .. n |-> IF i = slot THEN <<k, v>>
                           ELSE <<h.pairs[i][1], h.values[i]>>]
  BY <1>1 DEF Contents, n
<1> QED BY <1>4, <1>5, <1>6 DEF g, slot

(* insert_pair puts the value in the property's place, or last.            *)
LEMMA StoreInsert ==
    ASSUME NEW h, Sound(h), NEW k \in Keys, NEW v \in Vals
    PROVE  Contents(InsertPair(h, k, v)) = Store!Put(Contents(h), k, v)
<1> DEFINE g == InsertPair(h, k, v)
           n == Len(h.pairs)
<1>1. n \in Nat /\ Len(h.values) = n /\ h.values \in Seq(Vals) /\ h.pairs \in Seq(Keys \X Vals)
  BY DEF Sound, HashObject, Aligned
<1>2. CASE h.str_slots[k] # 0
  <2> DEFINE slot == h.str_slots[k]
  <2>1. slot \in 1 .. n /\ h.pairs[slot][1] = k
    BY <1>2 DEF Sound, Aligned
  <2>2. g.pairs = [h.pairs EXCEPT ![slot] = <<k, v>>] /\ g.values = [h.values EXCEPT ![slot] = v]
    BY <1>2 DEF InsertPair, Sound, HashObject
  <2>3. Store!Put(Contents(h), k, v) = [Contents(h) EXCEPT ![slot] = <<k, v>>]
    BY <1>2, StoreIndex DEF Store!Put
  <2> HIDE DEF g, slot, n
  <2>4. /\ Len(g.pairs) = n
        /\ \A i \in 1 .. n : /\ g.pairs[i] = IF i = slot THEN <<k, v>> ELSE h.pairs[i]
                             /\ g.values[i] = IF i = slot THEN v ELSE h.values[i]
    BY <1>1, <2>1, <2>2 DEF n
  <2>5. Contents(g) = [i \in 1 .. n |-> IF i = slot THEN <<k, v>>
                                        ELSE <<h.pairs[i][1], h.values[i]>>]
    BY <2>1, <2>4 DEF Contents
  <2>6. [Contents(h) EXCEPT ![slot] = <<k, v>>] =
           [i \in 1 .. n |-> IF i = slot THEN <<k, v>>
                             ELSE <<h.pairs[i][1], h.values[i]>>]
    BY <2>1 DEF Contents, n
  <2> QED BY <2>3, <2>5, <2>6 DEF g
<1>3. CASE h.str_slots[k] = 0
  <2>1. g.pairs = Append(h.pairs, <<k, v>>) /\ g.values = Append(h.values, v)
    BY <1>3, InsertNewSound
  <2>2. Store!Put(Contents(h), k, v) = Append(Contents(h), <<k, v>>)
    BY <1>3, StoreIndex DEF Store!Put
  <2> HIDE DEF g
  <2>3. /\ Len(g.pairs) = n + 1
        /\ \A i \in 1 .. n : g.pairs[i] = h.pairs[i] /\ g.values[i] = h.values[i]
        /\ g.pairs[n + 1] = <<k, v>> /\ g.values[n + 1] = v
    BY <1>1, <2>1
  <2>4. Contents(g) = [i \in 1 .. n + 1 |-> IF i = n + 1 THEN <<k, v>>
                                            ELSE <<h.pairs[i][1], h.values[i]>>]
    BY <1>1, <2>3 DEF Contents
  <2>5. /\ Contents(h) \in Seq(Keys \X Vals) /\ Len(Contents(h)) = n
        /\ \A i \in 1 .. n : Contents(h)[i] = <<h.pairs[i][1], h.values[i]>>
    BY ContentsType
  <2>6. Append(Contents(h), <<k, v>>) =
           [i \in 1 .. n + 1 |-> IF i = n + 1 THEN <<k, v>>
                                 ELSE <<h.pairs[i][1], h.values[i]>>]
    <3> DEFINE c == Contents(h)
    <3> HIDE DEF c, n
    <3>1. c \in Seq(Keys \X Vals) /\ Len(c) = n /\ n \in Nat
      BY <1>1, <2>5 DEF c
    <3>2. Append(c, <<k, v>>) = [i \in 1 .. n + 1 |-> IF i = n + 1 THEN <<k, v>> ELSE c[i]]
      BY <3>1
    <3>3. \A i \in 1 .. n + 1 : i # n + 1 => c[i] = <<h.pairs[i][1], h.values[i]>>
      BY <2>5, <3>1 DEF c
    <3> QED BY <3>2, <3>3 DEF c
  <2> QED BY <2>2, <2>4, <2>6 DEF g
<1> QED BY <1>2, <1>3

(* remove_pair drops the property from the list.                           *)
LEMMA StoreRemove ==
    ASSUME NEW h, Sound(h), NEW k \in Keys
    PROVE  Contents(RemovePair(h, k)) = Store!Drop(Contents(h), k)
<1>1. CASE HasKey(h, k)
  <2>1. h.str_slots[k] # 0
    BY <1>1, SlotOfIsSlot
  <2>2. Contents(RemovePair(h, k)) = RemoveAt(Contents(h), h.str_slots[k])
    BY <1>1, RemovePairSound
  <2> QED BY <2>1, <2>2, StoreIndex DEF Store!Drop, Store!RemoveAt, RemoveAt
<1>2. CASE ~HasKey(h, k)
  <2>1. h.str_slots[k] = 0
    BY <1>2, SlotOfIsSlot
  <2>2. RemovePair(h, k) = h
    BY <1>2, RemovePairSound
  <2> QED BY <2>1, <2>2, StoreIndex DEF Store!Drop
<1> QED BY <1>1, <1>2

-----------------------------------------------------------------------------
(***************************************************************************)
(* The steps.                                                              *)
(***************************************************************************)

(* A step that replaces one object replaces one list.                      *)
LEMMA WithContents ==
    ASSUME NEW o \in Existing, NEW g, hash' = With(o, g)
    PROVE  /\ contents' = [contents EXCEPT ![o] = Contents(g)]
           /\ g.frozen => frozen' = frozen \union {o}
           /\ g.frozen = hash[o].frozen => frozen' = frozen
<1>1. Existing' = Existing /\ \A x \in Existing : hash'[x] = IF x = o THEN g ELSE hash[x]
  BY DEF With, Existing
<1>2. contents' = [x \in Existing |-> IF x = o THEN Contents(g) ELSE Contents(hash[x])]
  <2>1. contents' = [x \in Existing' |-> Contents(hash'[x])]
    BY DEF contents, Contents
  <2> QED BY <1>1, <2>1
<1>3. frozen' = {x \in Existing : IF x = o THEN g.frozen ELSE hash[x].frozen}
  BY <1>1 DEF frozen
<1> QED BY <1>2, <1>3 DEF contents, frozen

(* A step that leaves the objects alone leaves the lists alone.            *)
LEMMA SameContents ==
    ASSUME hash' = hash
    PROVE  contents' = contents /\ frozen' = frozen
BY DEF contents, frozen, Contents, Existing

(* A step that keeps the list of its object changes no list.               *)
LEMMA WithSameContents ==
    ASSUME NEW o \in Existing, NEW g, hash' = With(o, g),
           Contents(g) = Contents(hash[o]), g.frozen = hash[o].frozen
    PROVE  contents' = contents /\ frozen' = frozen
<1>1. contents' = [contents EXCEPT ![o] = Contents(hash[o])] /\ frozen' = frozen
  BY WithContents
<1>2. [contents EXCEPT ![o] = Contents(hash[o])] = contents
  BY DEF contents
<1> QED BY <1>1, <1>2

(* A hit is a hit on the slot of the site's property.                      *)
LEMMA HitIsSlot ==
    ASSUME LInv, CacheSound, NEW s \in Sites, NEW o \in ObjsOf[s] \intersect Existing,
           Hit(s, hash[o])
    PROVE  /\ KeyOf[s] \in Keys
           /\ hash[o].str_slots[KeyOf[s]] # 0
           /\ inline_cache[s].slot = hash[o].str_slots[KeyOf[s]]
<1>1. Aligned(hash[o]) /\ KeyOf[s] \in Keys
  BY SiteAssumption DEF LInv, Sound
<1>2. /\ inline_cache[s].slot \in 1 .. Len(hash[o].pairs)
      /\ hash[o].pairs[inline_cache[s].slot][1] = KeyOf[s]
  BY DEF CacheSound, Hit
<1> QED BY <1>1, <1>2 DEF Aligned

(* The mapped state of an object                                           *)
LEMMA MappedObject ==
    ASSUME NEW o \in Existing
    PROVE  /\ contents[o] = Contents(hash[o])
           /\ o \in DOMAIN contents /\ DOMAIN contents = Existing
           /\ o \in frozen <=> hash[o].frozen
BY DEF contents, frozen

(* The fields of what WriteSlot and InsertPair return                      *)
LEMMA FrozenKept ==
    ASSUME NEW h, Sound(h), NEW k \in Keys, NEW v \in Vals
    PROVE  /\ InsertPair(h, k, v).frozen = h.frozen
           /\ h.str_slots[k] # 0 => WriteSlot(h, h.str_slots[k], v).frozen = h.frozen
<1>1. h.str_slots[k] # 0 => h.str_slots[k] \in 1 .. Len(h.pairs)
  BY DEF Sound, Aligned
<1> QED BY <1>1, InsertOldSound, InsertNewSound, WriteSlotSound

(* Reads                                                                   *)
LEMMA GetImplements ==
    ASSUME LInv, CacheSound,
           \/ \E s \in Sites : \E o \in ObjsOf[s] : GetProp(s, o)
           \/ \E o \in Existing : \E k \in Keys : GetIndex(o, k)
    PROVE  \E o \in Existing : \E k \in Keys : Store!Get(o, k)
<1>1. ASSUME NEW s \in Sites, NEW o \in ObjsOf[s], GetProp(s, o)
      PROVE  o \in Existing /\ KeyOf[s] \in Keys /\ Store!Get(o, KeyOf[s])
  <2>1. o \in Existing /\ UNCHANGED <<hash, copying>> /\ GetPropertyVal(s, o)
    BY <1>1 DEF GetProp, Running
  <2>2. Sound(hash[o]) /\ KeyOf[s] \in Keys
    BY <2>1, SiteAssumption DEF LInv
  <2>3. out' = << <<KeyOf[s], GetBySym(hash[o], KeyOf[s])>> >>
    <3>1. CASE Hit(s, hash[o])
      <4>1. inline_cache[s].slot = hash[o].str_slots[KeyOf[s]] /\ hash[o].str_slots[KeyOf[s]] # 0
        BY <2>1, <3>1, HitIsSlot
      <4>2. out' = << <<KeyOf[s], hash[o].values[inline_cache[s].slot]>> >>
        BY <2>1, <3>1 DEF GetPropertyVal
      <4> QED BY <4>1, <4>2 DEF GetBySym
    <3>2. CASE ~Hit(s, hash[o])
      BY <2>1, <3>2 DEF GetPropertyVal
    <3> QED BY <3>1, <3>2
  <2>4. contents' = contents /\ frozen' = frozen
    BY <2>1, SameContents
  <2>5. out' = << <<KeyOf[s], Store!Lookup(contents[o], KeyOf[s])>> >>
    BY <2>1, <2>2, <2>3, StoreLookup, MappedObject
  <2> QED BY <2>1, <2>2, <2>4, <2>5 DEF Store!Get, Store!Reads, contents, frozen
<1>2. ASSUME NEW o \in Existing, NEW k \in Keys, GetIndex(o, k)
      PROVE  Store!Get(o, k)
  <2>1. UNCHANGED <<hash, copying>> /\ out' = << <<k, GetBySym(hash[o], k)>> >>
    BY <1>2 DEF GetIndex
  <2>2. Sound(hash[o])
    BY DEF LInv
  <2>3. contents' = contents /\ frozen' = frozen
    BY <2>1, SameContents
  <2>4. out' = << <<k, Store!Lookup(contents[o], k)>> >>
    BY <2>1, <2>2, StoreLookup, MappedObject
  <2> QED BY <2>1, <2>3, <2>4 DEF Store!Get, Store!Reads, contents, frozen
<1> QED BY <1>1, <1>2

(* A step that gives one object another list, without freezing it          *)
LEMMA ReplaceImplements ==
    ASSUME NEW o \in Existing, NEW g, NEW c, hash' = With(o, g), Contents(g) = c,
           g.frozen = hash[o].frozen
    PROVE  contents' = [contents EXCEPT ![o] = c] /\ frozen' = frozen
BY WithContents

(* Assignments                                                             *)
LEMMA SetImplements ==
    ASSUME LInv, CacheSound,
           \E v \in Vals :
              \/ \E s \in Sites : \E o \in ObjsOf[s] : SetProp(s, o, v)
              \/ \E o \in Existing : \E k \in Keys : SetIndex(o, k, v)
    PROVE  \E o \in Existing : \E k \in Keys : \E v \in Vals : Store!Set(o, k, v)
<1>1. ASSUME NEW o \in Existing, NEW k \in Keys, NEW v \in Vals, out' = <<>>, UNCHANGED copying,
             \/ hash[o].frozen /\ contents' = contents /\ frozen' = frozen
             \/ /\ ~hash[o].frozen /\ frozen' = frozen
                /\ contents' = [contents EXCEPT ![o] = Store!Put(Contents(hash[o]), k, v)]
      PROVE  Store!Set(o, k, v)
  <2>1. contents' = IF o \in frozen THEN contents
                    ELSE [contents EXCEPT ![o] = Store!Put(contents[o], k, v)]
    BY <1>1, MappedObject
  <2> QED BY <1>1, <2>1 DEF Store!Set, Store!Changes, Store!Written, contents, frozen
<1>2. ASSUME NEW o \in Existing, NEW k \in Keys, NEW v \in Vals,
             hash' = With(o, SetBySym(hash[o], k, v))
      PROVE  \/ hash[o].frozen /\ contents' = contents /\ frozen' = frozen
             \/ /\ ~hash[o].frozen /\ frozen' = frozen
                /\ contents' = [contents EXCEPT ![o] = Store!Put(Contents(hash[o]), k, v)]
  <2>1. CASE hash[o].frozen
    <3>1. hash' = With(o, hash[o])
      BY <1>2, <2>1 DEF SetBySym
    <3> QED BY <2>1, <3>1, WithSameContents
  <2>2. CASE ~hash[o].frozen
    <3>1. hash' = With(o, InsertPair(hash[o], k, v))
      BY <1>2, <2>2 DEF SetBySym
    <3>2. Sound(hash[o])
      BY DEF LInv
    <3>3. /\ Contents(InsertPair(hash[o], k, v)) = Store!Put(Contents(hash[o]), k, v)
          /\ InsertPair(hash[o], k, v).frozen = hash[o].frozen
      BY <3>2, StoreInsert, FrozenKept
    <3> QED BY <2>2, <3>1, <3>3, ReplaceImplements
  <2> QED BY <2>1, <2>2
<1>3. ASSUME NEW v \in Vals, NEW s \in Sites, NEW o \in ObjsOf[s], SetProp(s, o, v)
      PROVE  o \in Existing /\ KeyOf[s] \in Keys /\ Store!Set(o, KeyOf[s], v)
  <2>1. o \in Existing /\ UNCHANGED copying /\ out' = <<>> /\ SetPropertyVal(s, o, v)
    BY <1>3 DEF SetProp, Running
  <2>2. Sound(hash[o]) /\ KeyOf[s] \in Keys
    BY <2>1, SiteAssumption DEF LInv
  <2>3. CASE hash[o].frozen
    <3>1. hash' = hash
      BY <2>1, <2>3 DEF SetPropertyVal
    <3> QED BY <1>1, <2>1, <2>2, <2>3, <3>1, SameContents
  <2>4. CASE ~hash[o].frozen /\ Hit(s, hash[o])
    <3> DEFINE slot == hash[o].str_slots[KeyOf[s]]
    <3>1. inline_cache[s].slot = slot /\ slot # 0
      BY <2>1, <2>4, HitIsSlot
    <3>2. hash' = With(o, WriteSlot(hash[o], slot, v))
      BY <2>1, <2>4, <3>1 DEF SetPropertyVal
    <3>3. /\ Contents(WriteSlot(hash[o], slot, v)) = Store!Put(Contents(hash[o]), KeyOf[s], v)
          /\ WriteSlot(hash[o], slot, v).frozen = hash[o].frozen
      BY <2>2, <3>1, StoreWrite, FrozenKept
    <3>4. /\ contents' = [contents EXCEPT ![o] = Store!Put(Contents(hash[o]), KeyOf[s], v)]
          /\ frozen' = frozen
      BY <2>1, <3>2, <3>3, ReplaceImplements
    <3> QED BY <1>1, <2>1, <2>2, <2>4, <3>4
  <2>5. CASE ~hash[o].frozen /\ ~Hit(s, hash[o])
    <3>1. hash' = With(o, SetBySym(hash[o], KeyOf[s], v))
      BY <2>1, <2>5 DEF SetPropertyVal
    <3> QED BY <1>1, <1>2, <2>1, <2>2, <3>1
  <2> QED BY <2>3, <2>4, <2>5
<1>4. ASSUME NEW v \in Vals, NEW o \in Existing, NEW k \in Keys, SetIndex(o, k, v)
      PROVE  Store!Set(o, k, v)
  <2>1. hash' = With(o, SetBySym(hash[o], k, v)) /\ out' = <<>> /\ UNCHANGED copying
    BY <1>4 DEF SetIndex
  <2> QED BY <1>1, <1>2, <2>1
<1> QED BY <1>3, <1>4

(* Compound assignments                                                    *)
LEMMA AddImplements ==
    ASSUME ~WritesFrozen, LInv, CacheSound, NEW s \in Sites, NEW o \in ObjsOf[s], NEW v \in Vals,
           AddConstToRegProp(s, o, v)
    PROVE  o \in Existing /\ KeyOf[s] \in Keys /\ Store!Set(o, KeyOf[s], v)
<1> DEFINE k == KeyOf[s]
           h == hash[o]
<1>1. o \in Existing /\ UNCHANGED copying /\ out' = <<>>
  BY DEF AddConstToRegProp, Running
<1>2. Sound(h) /\ k \in Keys
  BY <1>1, SiteAssumption DEF LInv
<1>3. contents[o] = Contents(h) /\ (o \in frozen <=> h.frozen)
  BY <1>1, MappedObject
<1>4. ASSUME frozen' = frozen,
             \/ ~h.frozen /\ contents' = [contents EXCEPT ![o] = Store!Put(Contents(h), k, v)]
             \/ h.frozen /\ contents' = contents
      PROVE  Store!Set(o, k, v)
  <2>1. contents' = IF o \in frozen THEN contents
                    ELSE [contents EXCEPT ![o] = Store!Put(contents[o], k, v)]
    BY <1>3, <1>4
  <2> HIDE DEF k, h
  <2> QED BY <1>1, <1>4, <2>1 DEF Store!Set, Store!Changes, Store!Written, contents, frozen
<1>5. ASSUME ~h.frozen, h.str_slots[k] # 0, hash' = With(o, WriteSlot(h, h.str_slots[k], v))
      PROVE  Store!Set(o, k, v)
  <2>1. /\ Contents(WriteSlot(h, h.str_slots[k], v)) = Store!Put(Contents(h), k, v)
        /\ WriteSlot(h, h.str_slots[k], v).frozen = h.frozen
    BY <1>2, <1>5, StoreWrite, FrozenKept
  <2>2. /\ contents' = [contents EXCEPT ![o] = Store!Put(Contents(h), k, v)]
        /\ frozen' = frozen
    BY <1>1, <1>5, <2>1, ReplaceImplements
  <2> QED BY <1>4, <1>5, <2>2
<1>6. CASE Hit(s, h)
  <2>1. inline_cache[s].slot = h.str_slots[k] /\ h.str_slots[k] # 0
    BY <1>1, <1>6, HitIsSlot
  <2>2. ~h.frozen /\ hash' = With(o, WriteSlot(h, h.str_slots[k], v))
    BY <1>6, <2>1 DEF AddConstToRegProp, MayWriteUnchecked
  <2> QED BY <1>1, <1>2, <1>5, <2>1, <2>2
<1>7. CASE ~Hit(s, h)
  <2>1. hash' = With(o, AddMiss(h, k, v))
    BY <1>7 DEF AddConstToRegProp
  <2>2. CASE h.frozen
    <3>1. hash' = With(o, h)
      BY <2>1, <2>2 DEF AddMiss
    <3>2. contents' = contents /\ frozen' = frozen
      BY <1>1, <3>1, WithSameContents
    <3> QED BY <1>1, <1>2, <1>4, <2>2, <3>2
  <2>3. CASE ~h.frozen /\ h.str_slots[k] # 0
    <3>1. hash' = With(o, WriteSlot(h, h.str_slots[k], v))
      BY <2>1, <2>3 DEF AddMiss
    <3> QED BY <1>1, <1>2, <1>5, <2>3, <3>1
  <2>4. CASE ~h.frozen /\ h.str_slots[k] = 0
    <3>1. hash' = With(o, InsertPair(h, k, v))
      BY <2>1, <2>4 DEF AddMiss
    <3>2. /\ Contents(InsertPair(h, k, v)) = Store!Put(Contents(h), k, v)
          /\ InsertPair(h, k, v).frozen = h.frozen
      BY <1>2, StoreInsert, FrozenKept
    <3>3. /\ contents' = [contents EXCEPT ![o] = Store!Put(Contents(h), k, v)]
          /\ frozen' = frozen
      BY <1>1, <3>1, <3>2, ReplaceImplements
    <3> QED BY <1>1, <1>2, <1>4, <2>4, <3>3
  <2> QED BY <2>2, <2>3, <2>4
<1> QED BY <1>6, <1>7

(* A new object has no properties.                                         *)
LEMMA NewContents ==
    ASSUME NEW o, o \notin Existing, Existing' = Existing \union {o},
           hash'[o] = EmptyHash,
           \A x \in Existing : /\ Contents(hash'[x]) = Contents(hash[x])
                               /\ hash'[x].frozen = hash[x].frozen
    PROVE  contents' = Store!WithEmpty(o) /\ frozen' = frozen
<1>1. Contents(EmptyHash) = <<>>
  BY DEF Contents, EmptyHash
<1>2. contents' = [x \in Existing' |-> Contents(hash'[x])]
  BY DEF contents, Contents
<1>3. contents' = [x \in Existing \union {o} |->
                      IF x = o THEN <<>> ELSE contents[x]]
  BY <1>1, <1>2 DEF contents
<1>4. frozen' = frozen
  BY DEF frozen, EmptyHash
<1> QED BY <1>3, <1>4 DEF Store!WithEmpty, Store!Existing, contents

(* Creation                                                                *)
LEMMA CreateImplements ==
    ASSUME NEW o \in Objs, NewHash(o)
    PROVE  Store!Create(o)
<1>1. /\ o \notin Existing /\ out' = <<>> /\ UNCHANGED copying
      /\ hash' = With(o, EmptyHash)
  BY DEF NewHash
<1>2. /\ Existing' = Existing \union {o} /\ hash'[o] = EmptyHash
      /\ \A x \in Existing : hash'[x] = hash[x]
  BY <1>1 DEF With, Existing
<1>3. contents' = Store!WithEmpty(o) /\ frozen' = frozen
  BY <1>1, <1>2, NewContents DEF Contents
<1> QED BY <1>1, <1>3 DEF Store!Create, Store!Changes, Store!Existing, contents, frozen

(* Deletes                                                                 *)
LEMMA DeleteImplements ==
    ASSUME ~WritesFrozen, LInv, NEW o \in Existing, NEW k \in Keys, DeleteProp(o, k)
    PROVE  Store!Delete(o, k)
<1>1. hash' = With(o, RemovePair(hash[o], k)) /\ out' = <<>> /\ UNCHANGED copying
  BY DEF DeleteProp
<1>2. Sound(hash[o])
  BY DEF LInv
<1>3. /\ Contents(RemovePair(hash[o], k)) = Store!Drop(Contents(hash[o]), k)
      /\ RemovePair(hash[o], k).frozen = hash[o].frozen
  BY <1>2, StoreRemove, RemovePairSound
<1>4. /\ contents' = [contents EXCEPT ![o] = Store!Drop(contents[o], k)]
      /\ frozen' = frozen
  BY <1>1, <1>3, ReplaceImplements, MappedObject
<1>5. contents' = Store!Written(o, Store!Drop(contents[o], k))
  <2>1. CASE o \notin frozen
    BY <1>4, <2>1 DEF Store!Written, contents, frozen
  <2>2. CASE o \in frozen
    <3>1. ~HasKey(hash[o], k)
      BY <2>2, MappedObject DEF DeleteProp, MayWriteUnchecked
    <3>2. RemovePair(hash[o], k) = hash[o]
      BY <3>1 DEF RemovePair
    <3>3. contents' = contents
      BY <1>1, <3>2, WithSameContents
    <3> QED BY <2>2, <3>3 DEF Store!Written, contents, frozen
  <2> QED BY <2>1, <2>2
<1> QED BY <1>1, <1>4, <1>5 DEF Store!Delete, Store!Changes, contents, frozen

(* Object.freeze                                                           *)
LEMMA FreezeImplements ==
    ASSUME LInv, NEW o \in Existing, ObjectFreeze(o)
    PROVE  Store!Freeze(o)
<1> DEFINE g == [hash[o] EXCEPT !.frozen = TRUE]
<1>1. hash' = With(o, g) /\ out' = <<>> /\ UNCHANGED copying
  BY DEF ObjectFreeze
<1>2. hash[o] \in HashObject
  BY DEF LInv, Sound
<1>3. g.frozen /\ g.pairs = hash[o].pairs /\ g.values = hash[o].values
  BY <1>2 DEF HashObject
<1> HIDE DEF g
<1>4. Contents(g) = Contents(hash[o])
  BY <1>3 DEF Contents
<1>5. contents' = [contents EXCEPT ![o] = contents[o]] /\ frozen' = frozen \union {o}
  BY <1>1, <1>3, <1>4, WithContents, MappedObject
<1>6. contents' = contents
  BY <1>5 DEF contents
<1> QED BY <1>1, <1>5, <1>6 DEF Store!Freeze, Store!Changes, contents, frozen

(* A listing reads the newest values, and syncing changes no list.         *)
LEMMA SyncedContents ==
    ASSUME LInv, NEW o \in Existing
    PROVE  /\ Synced(o).pairs = Contents(hash[o])
           /\ Contents(Synced(o)) = Contents(hash[o])
           /\ Synced(o).frozen = hash[o].frozen
<1>1. Sound(hash[o])
  BY DEF LInv
<1> QED BY <1>1, SyncSound, StoreSync DEF Synced

(* Object.entries                                                          *)
LEMMA ListImplements ==
    ASSUME LInv, NEW o \in Existing, ObjectEntries(o)
    PROVE  Store!List(o)
<1>1. hash' = With(o, Synced(o)) /\ out' = Synced(o).pairs /\ UNCHANGED copying
  BY DEF ObjectEntries
<1>2. out' = contents[o]
  BY <1>1, SyncedContents, MappedObject
<1>3. contents' = contents /\ frozen' = frozen
  BY <1>1, SyncedContents, WithSameContents
<1> QED BY <1>1, <1>2, <1>3 DEF Store!List, Store!Reads, contents, frozen

(* Object rest and spread                                                  *)
LEMMA RestImplements ==
    ASSUME LInv, NEW o \in Existing, NEW to \in Objs, NEW excluded \in SUBSET Keys,
           ObjectRest(o, to, excluded)
    PROVE  Store!CopyToNew(o, to, excluded)
<1>1. /\ to \notin Existing
      /\ hash' = [x \in Existing \union {to} |->
                    IF x = to THEN EmptyHash ELSE IF x = o THEN Synced(o) ELSE hash[x]]
      /\ copying' = <<to, Synced(o).pairs, excluded>>
      /\ out' = <<>>
  BY DEF ObjectRest
<1>2. /\ Existing' = Existing \union {to}
      /\ hash'[to] = EmptyHash
      /\ \A x \in Existing : hash'[x] = IF x = o THEN Synced(o) ELSE hash[x]
  BY <1>1 DEF Existing
<1>3. \A x \in Existing : /\ Contents(hash'[x]) = Contents(hash[x])
                          /\ hash'[x].frozen = hash[x].frozen
  BY <1>2, SyncedContents
<1>4. contents' = Store!WithEmpty(to) /\ frozen' = frozen
  BY <1>1, <1>2, <1>3, NewContents
<1>5. copying' = <<to, contents[o], excluded>>
  BY <1>1, SyncedContents, MappedObject
<1> QED BY <1>1, <1>4, <1>5 DEF Store!CopyToNew, Store!StartCopy, contents, frozen

(* Object.assign                                                           *)
LEMMA AssignImplements ==
    ASSUME LInv, NEW o \in Existing, NEW to \in Objs, ObjectAssign(o, to)
    PROVE  to \in Existing /\ Store!CopyOnto(o, to)
<1>1. /\ to \in Existing /\ hash' = With(o, Synced(o)) /\ out' = <<>>
      /\ copying' = <<to, Synced(o).pairs, {}>>
  BY DEF ObjectAssign
<1>2. contents' = contents /\ frozen' = frozen
  BY <1>1, SyncedContents, WithSameContents
<1>3. copying' = <<to, contents[o], {}>>
  BY <1>1, SyncedContents, MappedObject
<1> QED BY <1>1, <1>2, <1>3 DEF Store!CopyOnto, Store!StartCopy, contents, frozen

(* One turn of a copy loop                                                 *)
LEMMA CopyEntryImplements ==
    ASSUME LInv, TargetThawed, copying # NoCopy, CopyEntry
    PROVE  Store!CopyEntry
<1> DEFINE to == copying[1]
           entries == copying[2]
           excluded == copying[3]
           k == Head(entries)[1]
           v == Head(entries)[2]
<1>1. /\ to \in Existing /\ entries \in Seq(Keys \X Vals) /\ entries # <<>>
      /\ ~hash[to].frozen
  BY DEF LInv, CopyingOK, CopyEntry, TargetThawed
<1>2. /\ hash' = IF k \in excluded THEN hash ELSE With(to, InsertPair(hash[to], k, v))
      /\ copying' = <<to, Tail(entries), excluded>>
      /\ out' = <<>>
  BY DEF CopyEntry
<1>3. k \in Keys /\ v \in Vals
  BY <1>1
<1> HIDE DEF to, entries, excluded, k, v
<1>4. /\ frozen' = frozen
      /\ contents' = IF k \in excluded THEN contents
                     ELSE [contents EXCEPT ![to] = Store!Put(contents[to], k, v)]
  <2>1. CASE k \in excluded
    BY <1>2, <2>1, SameContents
  <2>2. CASE k \notin excluded
    <3>1. Sound(hash[to])
      BY <1>1 DEF LInv
    <3>2. /\ Contents(InsertPair(hash[to], k, v)) = Store!Put(contents[to], k, v)
          /\ InsertPair(hash[to], k, v).frozen = hash[to].frozen
      BY <1>1, <1>3, <3>1, StoreInsert, FrozenKept, MappedObject
    <3> QED BY <1>1, <1>2, <2>2, <3>2, ReplaceImplements
  <2> QED BY <2>1, <2>2
<1>5. to \notin frozen
  BY <1>1, MappedObject
<1> QED BY <1>1, <1>2, <1>4, <1>5
        DEF Store!CopyEntry, Store!Written, contents, frozen, to, entries, excluded, k, v

(* The end of a copy loop                                                  *)
LEMMA EndCopyImplements ==
    ASSUME EndCopy
    PROVE  Store!EndCopy
<1>1. copying[2] = <<>> /\ copying' = NoCopy /\ out' = <<>> /\ hash' = hash
  BY DEF EndCopy
<1>2. contents' = contents /\ frozen' = frozen
  BY <1>1, SameContents
<1> QED BY <1>1, <1>2 DEF Store!EndCopy, Store!NoCopy, NoCopy, contents, frozen

-----------------------------------------------------------------------------
(***************************************************************************)
(* The refinement.                                                         *)
(***************************************************************************)

(* Where scripts keep the unchecked writes away from frozen objects, no    *)
(* copy loop begins on one, and no step between its turns freezes one.     *)
LEMMA TargetStaysThawed ==
    ASSUME ~WritesFrozen, LInv, TargetThawed, Next
    PROVE  TargetThawed'
<1>1. CASE UNCHANGED copying /\ copying = NoCopy
  BY <1>1 DEF TargetThawed, NoCopy
<1>2. ASSUME NEW o \in Existing, NEW to \in Objs, NEW excluded \in SUBSET Keys,
             ObjectRest(o, to, excluded)
      PROVE  TargetThawed'
  <2>1. copying'[1] = to /\ hash'[to] = EmptyHash
    BY <1>2 DEF ObjectRest
  <2> QED BY <2>1 DEF TargetThawed, EmptyHash
<1>3. ASSUME NEW o \in Existing, NEW to \in Objs, ObjectAssign(o, to)
      PROVE  TargetThawed'
  <2>1. /\ copying'[1] = to /\ to \in Existing /\ ~hash[to].frozen
        /\ hash' = With(o, Synced(o))
    BY <1>3 DEF ObjectAssign, MayWriteUnchecked
  <2>2. hash'[to].frozen = hash[to].frozen
    BY <2>1, SyncedContents DEF With
  <2> QED BY <2>1, <2>2 DEF TargetThawed
<1>4. ASSUME copying # NoCopy, CopyEntry
      PROVE  TargetThawed'
  <2> DEFINE to == copying[1]
             k == Head(copying[2])[1]
             v == Head(copying[2])[2]
  <2>1. /\ to \in Existing /\ copying[2] \in Seq(Keys \X Vals) /\ copying[2] # <<>>
    BY <1>4 DEF LInv, CopyingOK, CopyEntry
  <2>2. k \in Keys /\ v \in Vals /\ Sound(hash[to]) /\ ~hash[to].frozen
    BY <1>4, <2>1 DEF LInv, TargetThawed
  <2>3. copying'[1] = to /\ (hash' = hash \/ hash' = With(to, InsertPair(hash[to], k, v)))
    BY <1>4 DEF CopyEntry
  <2>4. ~InsertPair(hash[to], k, v).frozen
    BY <2>2, FrozenKept
  <2> HIDE DEF to, k, v
  <2> QED BY <2>1, <2>2, <2>3, <2>4 DEF TargetThawed, With
<1>5. CASE EndCopy
  BY <1>5 DEF EndCopy, TargetThawed
<1> QED BY <1>1, <1>2, <1>3, <1>4, <1>5
        DEF Next, NewHash, GetProp, SetProp, AddConstToRegProp, GetIndex, SetIndex,
            DeleteProp, ObjectFreeze, ObjectEntries, Running

(* A machine without objects is a store without objects.                   *)
LEMMA InitImplements == Init => Store!Init
BY DEF Init, Store!Init, Store!NoCopy, NoCopy, Existing

(* A step of the machine is a step of the store.                           *)
LEMMA StepImplements ==
    ASSUME ~WritesFrozen, LInv, TargetThawed, CacheSound, Next
    PROVE  Store!Next
<1>1. Store!Existing = Existing /\ Store!NoCopy = NoCopy
  BY DEF Store!Existing, Store!NoCopy, NoCopy
<1>2. ASSUME NEW s \in Sites, NEW o \in ObjsOf[s],
             \/ GetProp(s, o)
             \/ \E v \in Vals : SetProp(s, o, v) \/ AddConstToRegProp(s, o, v)
      PROVE  Store!Next
  <2>1. copying = NoCopy
    BY <1>2 DEF GetProp, SetProp, AddConstToRegProp, Running
  <2>2. CASE GetProp(s, o)
    <3>1. \E x \in Existing : \E k \in Keys : Store!Get(x, k)
      BY <2>2, GetImplements
    <3> QED BY <1>1, <2>1, <3>1 DEF Store!Next
  <2>3. CASE \E v \in Vals : SetProp(s, o, v)
    <3>1. \E x \in Existing : \E k \in Keys : \E v \in Vals : Store!Set(x, k, v)
      BY <2>3, SetImplements
    <3> QED BY <1>1, <2>1, <3>1 DEF Store!Next
  <2>4. CASE \E v \in Vals : AddConstToRegProp(s, o, v)
    <3>1. \E x \in Existing : \E k \in Keys : \E v \in Vals : Store!Set(x, k, v)
      BY <2>4, AddImplements
    <3> QED BY <1>1, <2>1, <3>1 DEF Store!Next
  <2> QED BY <1>2, <2>2, <2>3, <2>4
<1>3. ASSUME NEW o \in Existing, NEW k \in Keys,
             \/ GetIndex(o, k) \/ DeleteProp(o, k)
             \/ \E v \in Vals : SetIndex(o, k, v)
      PROVE  Store!Next
  <2>1. copying = NoCopy
    BY <1>3 DEF GetIndex, DeleteProp, SetIndex, Running
  <2>2. CASE GetIndex(o, k)
    <3>1. \E x \in Existing : \E j \in Keys : Store!Get(x, j)
      BY <2>2, GetImplements
    <3> QED BY <1>1, <2>1, <3>1 DEF Store!Next
  <2>3. CASE DeleteProp(o, k)
    <3>1. Store!Delete(o, k)
      BY <2>3, DeleteImplements
    <3> QED BY <1>1, <2>1, <3>1 DEF Store!Next
  <2>4. CASE \E v \in Vals : SetIndex(o, k, v)
    <3>1. \E x \in Existing : \E j \in Keys : \E v \in Vals : Store!Set(x, j, v)
      BY <2>4, SetImplements
    <3> QED BY <1>1, <2>1, <3>1 DEF Store!Next
  <2> QED BY <1>3, <2>2, <2>3, <2>4
<1>4. ASSUME NEW o \in Existing,
             \/ ObjectFreeze(o) \/ ObjectEntries(o)
             \/ \E to \in Objs, excluded \in SUBSET Keys : ObjectRest(o, to, excluded)
             \/ \E to \in Objs : ObjectAssign(o, to)
      PROVE  Store!Next
  <2>1. copying = NoCopy
    BY <1>4 DEF ObjectFreeze, ObjectEntries, ObjectRest, ObjectAssign, Running
  <2>2. CASE ObjectFreeze(o) \/ ObjectEntries(o)
    <3>1. Store!Freeze(o) \/ Store!List(o)
      BY <2>2, FreezeImplements, ListImplements
    <3> QED BY <1>1, <2>1, <3>1 DEF Store!Next
  <2>3. CASE \E to \in Objs, excluded \in SUBSET Keys : ObjectRest(o, to, excluded)
    <3>1. PICK to \in Objs, excluded \in SUBSET Keys : ObjectRest(o, to, excluded)
      BY <2>3
    <3>2. to \in Objs \ Existing /\ Store!CopyToNew(o, to, excluded)
      BY <3>1, RestImplements DEF ObjectRest
    <3> QED BY <1>1, <2>1, <3>2 DEF Store!Next
  <2>4. CASE \E to \in Objs : ObjectAssign(o, to)
    <3>1. \E to \in Existing : Store!CopyOnto(o, to)
      BY <2>4, AssignImplements
    <3> QED BY <1>1, <2>1, <3>1 DEF Store!Next
  <2> QED BY <1>4, <2>2, <2>3, <2>4
<1>5. ASSUME NEW o \in Objs, NewHash(o)
      PROVE  Store!Next
  <2>1. copying = NoCopy /\ Store!Create(o)
    BY <1>5, CreateImplements DEF NewHash
  <2> QED BY <1>1, <2>1 DEF Store!Next
<1>6. ASSUME copying # NoCopy, CopyEntry \/ EndCopy
      PROVE  Store!Next
  BY <1>1, <1>6, CopyEntryImplements, EndCopyImplements DEF Store!Next
<1> QED BY <1>2, <1>3, <1>4, <1>5, <1>6 DEF Next

(* A stutter of the machine is a stutter of the store.                     *)
LEMMA StutterImplements == UNCHANGED vars => UNCHANGED Store!vars
<1> SUFFICES ASSUME UNCHANGED vars PROVE UNCHANGED Store!vars
  OBVIOUS
<1>1. hash' = hash /\ UNCHANGED <<copying, out>>
  BY DEF vars
<1>2. contents' = contents /\ frozen' = frozen
  BY <1>1, SameContents
<1> QED BY <1>1, <1>2 DEF Store!vars, contents, frozen

\* What the refinement rests on
Thawed == LInv /\ TargetThawed

(* It holds of every run that keeps unchecked writes off frozen objects.   *)
LEMMA ThawedKept ==
    ASSUME ~WritesFrozen
    PROVE  /\ Init => Thawed
           /\ Thawed /\ [Next]_vars => Thawed'
<1>1. Init => TargetThawed
  BY DEF Init, TargetThawed
<1>2. TargetThawed /\ UNCHANGED vars => TargetThawed'
  BY DEF TargetThawed, vars
<1> QED BY <1>1, <1>2, InitLInv, NextLInv, TargetStaysThawed DEF Thawed

(* Where each site meets one object, or objects built alike, and the writes *)
(* that do not look at frozen are kept away from frozen objects, slots,     *)
(* shapes, caches and late syncing cannot be told from plain lists of       *)
(* properties: every read, listing and copy returns what was written last,  *)
(* and what is frozen stays.                                                *)
THEOREM CachesAreTransparent ==
    ASSUME SitesAreUniform, ~WritesFrozen
    PROVE  Spec => ImplementsStore
<1>1. CInv => CacheSound
  BY CInvImplies
<1>2. Thawed => LInv /\ TargetThawed
  BY DEF Thawed
<1>3. Thawed /\ CacheSound /\ [Next]_vars => [Store!Next]_(Store!vars)
  BY <1>2, StepImplements, StutterImplements
<1> QED BY <1>1, <1>3, InitImplements, InitCInv, NextCInv, ThawedKept, PTL
        DEF Spec, ImplementsStore, Store!Spec

(* A step of the store leaves the properties of its frozen objects alone.  *)
LEMMA StoreKeepsFrozen ==
    ASSUME NEW o \in frozen, Store!Next
    PROVE  o \in DOMAIN contents' /\ contents'[o] = contents[o]
<1>1. o \in Existing /\ DOMAIN contents = Existing
  BY DEF contents, frozen
<1>2. \A x, entries : /\ o \in DOMAIN Store!Written(x, entries)
                      /\ Store!Written(x, entries)[o] = contents[o]
  BY <1>1 DEF Store!Written, contents, frozen
<1>3. \A x : x \notin Existing =>
          o \in DOMAIN Store!WithEmpty(x) /\ Store!WithEmpty(x)[o] = contents[o]
  BY <1>1 DEF Store!WithEmpty, Store!Existing, contents
<1>4. \/ contents' = contents
      \/ \E x, entries : contents' = Store!Written(x, entries)
      \/ \E x : x \notin Existing /\ contents' = Store!WithEmpty(x)
  <2>1. ASSUME NEW x \in Objs, Store!Create(x)
        PROVE  x \notin Existing /\ contents' = Store!WithEmpty(x)
    BY <2>1 DEF Store!Create, Store!Existing, contents
  <2>2. ASSUME NEW x, Store!Freeze(x) \/ Store!List(x) \/ \E k \in Keys : Store!Get(x, k)
        PROVE  contents' = contents
    BY <2>2 DEF Store!Freeze, Store!List, Store!Get, Store!Reads, contents
  <2>3. ASSUME NEW x, NEW k \in Keys, Store!Delete(x, k) \/ \E v \in Vals : Store!Set(x, k, v)
        PROVE  \E entries : contents' = Store!Written(x, entries)
    BY <2>3 DEF Store!Delete, Store!Set, contents
  <2>4. ASSUME NEW x, NEW to, Store!CopyOnto(x, to)
        PROVE  contents' = contents
    BY <2>4 DEF Store!CopyOnto, contents
  <2>5. ASSUME NEW x, NEW to \in Objs \ Existing, NEW excluded, Store!CopyToNew(x, to, excluded)
        PROVE  contents' = Store!WithEmpty(to)
    BY <2>5 DEF Store!CopyToNew, contents
  <2>6. ASSUME Store!CopyEntry
        PROVE  contents' = contents \/ \E x, entries : contents' = Store!Written(x, entries)
    BY <2>6 DEF Store!CopyEntry, contents
  <2>7. ASSUME Store!EndCopy
        PROVE  contents' = contents
    BY <2>7 DEF Store!EndCopy, contents
  <2>8. Store!Existing = Existing
    BY DEF Store!Existing
  <2> HIDE DEF contents
  <2> QED BY <2>1, <2>2, <2>3, <2>4, <2>5, <2>6, <2>7, <2>8 DEF Store!Next
<1>5. ASSUME NEW x, NEW entries, contents' = Store!Written(x, entries)
      PROVE  o \in DOMAIN contents' /\ contents'[o] = contents[o]
  BY <1>2, <1>5
<1>6. ASSUME NEW x, x \notin Existing, contents' = Store!WithEmpty(x)
      PROVE  o \in DOMAIN contents' /\ contents'[o] = contents[o]
  BY <1>3, <1>6
<1>7. ASSUME contents' = contents
      PROVE  o \in DOMAIN contents' /\ contents'[o] = contents[o]
  BY <1>1, <1>7
<1> QED BY <1>4, <1>5, <1>6, <1>7

(* Object.freeze prevents mutation where only writes that look at frozen   *)
(* meet the object, however warm its sites were when it was frozen.        *)
THEOREM FrozenObjectsStay ==
    ASSUME SitesAreUniform, ~WritesFrozen
    PROVE  Spec => FrozenStays
<1> DEFINE Stays == \A o \in Existing : hash[o].frozen =>
                      Contents(hash[o]') = Contents(hash[o])
<1>1. CInv => CacheSound
  BY CInvImplies
<1>2. ASSUME Thawed, CacheSound, Next
      PROVE  Stays
  <2>1. SUFFICES ASSUME NEW o \in Existing, hash[o].frozen
                 PROVE  Contents(hash[o]') = Contents(hash[o])
    OBVIOUS
  <2>2. o \in frozen
    BY <2>1 DEF frozen
  <2>3. Store!Next
    BY <1>2, StepImplements DEF Thawed
  <2>4. o \in DOMAIN contents' /\ contents'[o] = contents[o]
    BY <2>2, <2>3, StoreKeepsFrozen
  <2> QED BY <2>4 DEF contents, Contents
<1> HIDE DEF Stays
<1>3. Thawed /\ CacheSound /\ [Next]_vars => [Stays]_vars
  BY <1>2
<1>4. Spec => [][Stays]_vars
  BY <1>1, <1>3, InitCInv, NextCInv, ThawedKept, PTL DEF Spec
<1> QED BY <1>4 DEF FrozenStays, Stays
=============================================================================
