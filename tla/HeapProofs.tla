----------------------------- MODULE HeapProofs -----------------------------
(***************************************************************************)
(* Proofs about the heap, for any number of slots, payloads, globals and   *)
(* registers and for every choice of Features.                             *)
(***************************************************************************)
EXTENDS HeapProperties, FiniteSetTheorems, SequenceTheorems, TLAPS

\* A slot that holds Null keeps no payload alive.
NullIsPlain == \A i \in Slots : objects[i].kind = "Null" => objects[i] = NullCell

\* An Array object has a payload.
ArrayHasPayload == \A i \in Slots : objects[i].kind = "Array" => objects[i].rc \in Rc

\* The part of the state that allocation and collection maintain.
HeapInv ==
    /\ objects \in Seq(Cell)
    /\ free_list \in Seq(Nat \ {0})
    /\ rc_index \in [Rc -> Nat]
    /\ FreeListSound
    /\ RcIndexSound
    /\ NullIsPlain
    /\ ArrayHasPayload

\* The constructors of cells build cells.
LEMMA CellTypes ==
    /\ NullCell \in Cell
    /\ \A kind \in Kind : Plain(kind) \in Cell
    /\ \A r \in Rc : ArrayCell(r) \in Cell /\ ArrayCell(r).kind = "Array"
    /\ \A vals \in SUBSET Value :
          /\ FunctionCell(vals) \in Cell
          /\ FunctionCell(vals).kind = "CompiledFunction"
BY DEF NullCell, Plain, ArrayCell, FunctionCell, Cell, Kind

\* The slot an allocation picks is new or holds Null.
LEMMA AllocIndexInRange ==
    ASSUME HeapInv
    PROVE  /\ AllocIndex \in 1 .. Len(objects) + 1
           /\ free_list = <<>> => AllocIndex = Len(objects) + 1
           /\ free_list # <<>> => /\ AllocIndex \in Slots
                                  /\ objects[AllocIndex].kind = "Null"
                                  /\ objects[AllocIndex].rc = NoRc
BY DEF HeapInv, AllocIndex, FreeListSound, Slots, NullIsPlain, NullCell, Plain

\* What popping the last entry of a sequence leaves.
LEMMA PopProperties ==
    ASSUME NEW S, NEW s \in Seq(S), s # <<>>
    PROVE  /\ SubSeq(s, 1, Len(s) - 1) \in Seq(S)
           /\ Len(SubSeq(s, 1, Len(s) - 1)) = Len(s) - 1
           /\ \A k \in 1 .. Len(s) - 1 : SubSeq(s, 1, Len(s) - 1)[k] = s[k]
<1> DEFINE m == Len(s) - 1
<1>1. m \in Nat /\ m <= Len(s)
  OBVIOUS
<1>2. \A i \in 1 .. m : s[i] \in S
  OBVIOUS
<1> HIDE DEF m
<1>3. SubSeq(s, 1, m) \in Seq(S)
  BY <1>1, <1>2, SubSeqProperties
<1>4. Len(SubSeq(s, 1, m)) = m
  BY <1>1, <1>2, SubSeqProperties
<1>5. \A k \in 1 .. m : SubSeq(s, 1, m)[k] = s[k]
  BY <1>1, <1>2, SubSeqProperties
<1> QED BY <1>3, <1>4, <1>5 DEF m

\* Heap::alloc keeps the free list, the index and the cells in order.
LEMMA AllocKeepsHeapInv ==
    ASSUME HeapInv, NEW cell \in Cell, cell.kind # "Null",
           cell.kind = "Array" => cell.rc \in Rc, Alloc(cell)
    PROVE  HeapInv'
<1>1. CASE free_list = <<>>
  <2>1. /\ objects' = Append(objects, cell)
        /\ free_list' = <<>>
        /\ AllocIndex = Len(objects) + 1
    BY <1>1, AllocIndexInRange DEF Alloc
  <2>2. /\ objects' \in Seq(Cell)
        /\ Len(objects') = Len(objects) + 1
        /\ \A i \in Slots : objects'[i] = objects[i]
        /\ objects'[Len(objects) + 1] = cell
    BY <2>1 DEF HeapInv, Slots
  <2>3. rc_index' \in [Rc -> Nat] /\ RcIndexSound'
    BY <2>1, <2>2, RcAssumption DEF HeapInv, Alloc, RcIndexSound, Slots, Cell
  <2>4. FreeListSound' /\ free_list' \in Seq(Nat \ {0})
    BY <2>1 DEF FreeListSound, HeapInv
  <2>5. Slots' = Slots \union {Len(objects) + 1}
    BY <2>2 DEF HeapInv, Slots
  <2>6. NullIsPlain'
    BY <2>2, <2>5 DEF HeapInv, NullIsPlain
  <2>7. ArrayHasPayload'
    BY <2>2, <2>5 DEF HeapInv, ArrayHasPayload
  <2> QED BY <2>2, <2>3, <2>4, <2>6, <2>7 DEF HeapInv
<1>2. CASE free_list # <<>>
  <2> DEFINE n == Len(free_list)
  <2>0. n \in Nat /\ n > 0
    BY <1>2 DEF HeapInv
  <2>1. /\ objects' = [objects EXCEPT ![AllocIndex] = cell]
        /\ free_list' = SubSeq(free_list, 1, n - 1)
        /\ AllocIndex = free_list[n]
        /\ AllocIndex \in Slots
        /\ objects[AllocIndex].rc = NoRc
        /\ AllocIndex \in Nat \ {0}
    BY <1>2, AllocIndexInRange DEF Alloc, AllocIndex, HeapInv, Slots
  <2>2. /\ objects' \in Seq(Cell)
        /\ Len(objects') = Len(objects)
        /\ \A i \in Slots : i # AllocIndex => objects'[i] = objects[i]
        /\ objects'[AllocIndex] = cell
    BY <2>1 DEF HeapInv, Slots
  <2>3. /\ free_list' \in Seq(Nat \ {0})
        /\ Len(free_list') = n - 1
        /\ \A k \in 1 .. n - 1 : free_list'[k] = free_list[k]
    BY <1>2, <2>1, PopProperties DEF HeapInv
  <2>4. rc_index' \in [Rc -> Nat] /\ RcIndexSound'
    BY <2>1, <2>2, RcAssumption DEF HeapInv, Alloc, RcIndexSound, Slots, Cell
  <2>5. FreeListSound'
    <3>1. \A k \in 1 .. n - 1 : k \in 1 .. n /\ k # n
      BY <2>0
    <3>2. /\ \A k \in 1 .. n : free_list[k] \in Slots /\ objects[free_list[k]].kind = "Null"
          /\ \A k, l \in 1 .. n : free_list[k] = free_list[l] => k = l
      BY DEF HeapInv, FreeListSound
    <3>3. n \in 1 .. n
      BY <2>0
    <3> HIDE DEF n
    <3>4. \A k \in 1 .. n - 1 : free_list[k] # AllocIndex
      BY <2>1, <3>1, <3>2, <3>3
    <3>5. \A k \in 1 .. n - 1 :
              free_list'[k] \in Slots /\ objects'[free_list'[k]].kind = "Null"
      BY <2>2, <2>3, <3>1, <3>2, <3>4
    <3>6. \A k, l \in 1 .. n - 1 : free_list'[k] = free_list'[l] => k = l
      BY <2>3, <3>1, <3>2
    <3>7. Slots' = Slots
      BY <2>2 DEF Slots
    <3> QED BY <2>3, <3>5, <3>6, <3>7 DEF FreeListSound
  <2>6. NullIsPlain' /\ ArrayHasPayload'
    BY <2>2 DEF HeapInv, NullIsPlain, ArrayHasPayload, Slots
  <2> QED BY <2>2, <2>3, <2>4, <2>5, <2>6 DEF HeapInv
<1> QED BY <1>1, <1>2

\* Ascending lists each element of a finite set of slots at most once.
LEMMA AscendingIsInjective ==
    ASSUME NEW n \in Nat, NEW S \in SUBSET (1 .. n), NEW s \in Ascending(S)
    PROVE  /\ s \in Seq(S)
           /\ \A k, l \in 1 .. Len(s) : s[k] = s[l] => k = l
<1>1. IsFiniteSet(S)
  <2>1. IsFiniteSet(1 .. n)
    BY FS_Interval
  <2> QED BY <2>1, FS_Subset
<1>2. Cardinality(S) \in Nat
  BY <1>1, FS_CardinalityType
<1>3. s \in [1 .. Cardinality(S) -> S]
      /\ \A i, j \in DOMAIN s : i < j => s[i] < s[j]
  BY DEF Ascending
<1>4. s \in Seq(S) /\ Len(s) = Cardinality(S)
  BY <1>2, <1>3
<1>5. ASSUME NEW k \in 1 .. Len(s), NEW l \in 1 .. Len(s), k < l
      PROVE  s[k] # s[l]
  <2>1. k \in DOMAIN s /\ l \in DOMAIN s
    BY <1>4
  <2>2. s[k] < s[l]
    BY <1>3, <1>5, <2>1
  <2>3. s[k] \in S
    BY <1>3, <2>1
  <2>4. \A x \in S : x \in Int
    OBVIOUS
  <2>5. \A x \in Int : ~(x < x)
    OBVIOUS
  <2> QED BY <2>2, <2>3, <2>4, <2>5
<1>6. Len(s) \in Nat
  BY <1>2, <1>4
<1>7. ASSUME NEW k \in 1 .. Len(s), NEW l \in 1 .. Len(s), s[k] = s[l]
      PROVE  k = l
  <2>1. k < l \/ l < k \/ k = l
    BY <1>6
  <2>2. ~(k < l) /\ ~(l < k)
    BY <1>5, <1>7
  <2> QED BY <2>1, <2>2
<1> QED BY <1>4, <1>7

\* gc_collect rebuilds the free list and keeps the index sound.
LEMMA GcCollectKeepsHeapInv ==
    ASSUME HeapInv, GcCollect
    PROVE  HeapInv'
<1> DEFINE swept == Garbage
           objs == Sweep(swept)
<1>1. PICK n \in 0 .. Len(objects) :
        /\ IsTrimmed(objs, n)
        /\ objects' = SubSeq(objs, 1, n)
        /\ free_list' \in Ascending({i \in swept : i <= n})
        /\ rc_index' = [r \in Rc |-> IF \E i \in swept : objects[i].rc = r
                                     THEN 0 ELSE rc_index[r]]
  BY DEF GcCollect, FreeSlots, RcIndexAfter
<1>2. /\ objs \in Seq(Cell)
      /\ Len(objs) = Len(objects)
      /\ \A i \in Slots : objs[i] = IF i \in swept THEN NullCell ELSE objects[i]
  BY CellTypes DEF HeapInv, Sweep, Slots
<1>3. /\ objects' \in Seq(Cell)
      /\ Len(objects') = n
      /\ \A i \in 1 .. n : objects'[i] = objs[i]
  BY <1>1, <1>2
<1>4. swept \subseteq Slots
  BY DEF Garbage
<1>5. NullIsPlain'
  <2>1. ASSUME NEW i \in 1 .. n, objects'[i].kind = "Null"
        PROVE  objects'[i] = NullCell
    <3>1. i \in Slots /\ objects'[i] = objs[i]
      BY <1>3 DEF HeapInv, Slots
    <3>2. CASE i \in swept
      BY <1>2, <3>1, <3>2
    <3>3. CASE i \notin swept
      BY <1>2, <2>1, <3>1, <3>3 DEF HeapInv, NullIsPlain
    <3> QED BY <3>2, <3>3
  <2> QED BY <1>3, <2>1 DEF NullIsPlain, Slots
<1>6. /\ free_list' \in Seq({i \in swept : i <= n})
      /\ \A k, l \in 1 .. Len(free_list') : free_list'[k] = free_list'[l] => k = l
  <2>1. {i \in swept : i <= n} \in SUBSET (1 .. Len(objects))
    BY <1>4 DEF Slots
  <2>2. Len(objects) \in Nat
    BY DEF HeapInv
  <2> QED BY <1>1, <2>1, <2>2, AscendingIsInjective
<1>7. free_list' \in Seq(Nat \ {0}) /\ FreeListSound'
  <2>1. \A k \in 1 .. Len(free_list') :
            free_list'[k] \in swept /\ free_list'[k] \in 1 .. n
    <3>1. \A k \in 1 .. Len(free_list') : free_list'[k] \in {i \in swept : i <= n}
      BY <1>6
    <3>2. \A i \in swept : i <= n => i \in 1 .. n
      BY <1>4 DEF Slots, HeapInv
    <3> QED BY <3>1, <3>2
  <2>2. free_list' \in Seq(Nat \ {0})
    BY <1>6, <2>1
  <2>3. ASSUME NEW k \in 1 .. Len(free_list')
        PROVE  objects'[free_list'[k]].kind = "Null"
    <3>1. free_list'[k] \in swept /\ free_list'[k] \in 1 .. n
      BY <2>1
    <3>2. objects'[free_list'[k]] = objs[free_list'[k]]
      BY <1>3, <3>1
    <3>3. objs[free_list'[k]] = NullCell
      BY <1>2, <1>4, <3>1
    <3> QED BY <3>2, <3>3 DEF NullCell, Plain
  <2> QED BY <1>3, <1>6, <2>1, <2>2, <2>3 DEF FreeListSound, Slots
<1>8. rc_index' \in [Rc -> Nat] /\ RcIndexSound'
  <2>1. rc_index' \in [Rc -> Nat]
    BY <1>1 DEF HeapInv
  <2>2. SUFFICES ASSUME NEW r \in Rc, rc_index'[r] # 0
                 PROVE  /\ rc_index'[r] \in 1 .. n
                        /\ objects'[rc_index'[r]].rc = r
    BY <2>1, <1>3 DEF RcIndexSound, Slots
  <2> DEFINE i == rc_index[r]
  <2>3. /\ rc_index'[r] = i
        /\ i \in Slots
        /\ objects[i].rc = r
        /\ i \notin swept
    BY <1>1, <2>2 DEF HeapInv, RcIndexSound
  <2>4. objs[i] = objects[i] /\ objs[i].kind # "Null"
    BY <1>2, <2>3, RcAssumption DEF HeapInv, NullIsPlain, NullCell, Plain
  <2>5. i \in 1 .. n
    BY <1>1, <1>2, <2>3, <2>4 DEF IsTrimmed, Slots
  <2> QED BY <1>3, <2>3, <2>4, <2>5
<1>9. ArrayHasPayload'
  <2>1. ASSUME NEW i \in 1 .. n, objects'[i].kind = "Array"
        PROVE  objects'[i].rc \in Rc
    <3>1. i \in Slots /\ objects'[i] = objs[i]
      BY <1>3 DEF HeapInv, Slots
    <3>2. i \notin swept
      BY <1>2, <2>1, <3>1 DEF NullCell, Plain
    <3> QED BY <1>2, <2>1, <3>1, <3>2 DEF HeapInv, ArrayHasPayload
  <2> QED BY <1>3, <2>1 DEF ArrayHasPayload, Slots
<1> QED BY <1>3, <1>5, <1>7, <1>8, <1>9 DEF HeapInv

\* Storing an array in a field changes only what the instance keeps alive.
LEMMA SetFieldKeepsHeapInv ==
    ASSUME HeapInv, NEW i, NEW a \in Registers, SetField(i, a)
    PROVE  HeapInv'
<1> DEFINE r == objects[regs[a]].rc
<1>1. /\ i \in Slots
      /\ objects[i].kind = "Instance"
      /\ regs[a] \in Slots
      /\ objects[regs[a]].kind = "Array"
      /\ objects' = [objects EXCEPT ![i].nested = @ \union {r}]
      /\ UNCHANGED <<free_list, rc_index>>
  BY DEF SetField, IsKind
<1>2. objects[i] \in Cell /\ r \in Rc
  BY <1>1 DEF HeapInv, Slots, ArrayHasPayload
<1> DEFINE cell == [objects[i] EXCEPT !.nested = @ \union {r}]
<1>3. /\ cell \in Cell
      /\ cell.kind = objects[i].kind
      /\ cell.rc = objects[i].rc
  BY <1>2 DEF Cell
<1>4. objects' = [objects EXCEPT ![i] = cell]
  BY <1>1
<1>5. i \in Slots /\ objects \in Seq(Cell)
  BY <1>1 DEF HeapInv
<1> HIDE DEF r, cell
<1>6. /\ objects' \in Seq(Cell)
      /\ Len(objects') = Len(objects)
      /\ \A j \in Slots : objects'[j] = IF j = i THEN cell ELSE objects[j]
  BY <1>3, <1>4, <1>5 DEF Slots
<1>7. Slots' = Slots
  BY <1>6 DEF Slots
<1>8. FreeListSound' /\ free_list' \in Seq(Nat \ {0})
  BY <1>1, <1>3, <1>6, <1>7 DEF HeapInv, FreeListSound
<1>9. RcIndexSound' /\ rc_index' \in [Rc -> Nat]
  BY <1>1, <1>3, <1>6, <1>7 DEF HeapInv, RcIndexSound
<1>10. NullIsPlain' /\ ArrayHasPayload'
  BY <1>1, <1>3, <1>6, <1>7 DEF HeapInv, NullIsPlain, ArrayHasPayload
<1> QED BY <1>6, <1>8, <1>9, <1>10 DEF HeapInv

(* A step that leaves the heap alone keeps it sound. *)
LEMMA StableHeapInv ==
    ASSUME HeapInv, UNCHANGED heapVars
    PROVE  HeapInv'
BY DEF HeapInv, heapVars, FreeListSound, RcIndexSound, NullIsPlain,
       ArrayHasPayload, Slots

\* Garbage collection, or none, at the end of a call.
LEMMA CollectKeepsHeapInv ==
    ASSUME HeapInv, CollectIfAboveThreshold, gc_threshold \in Nat
    PROVE  HeapInv' /\ gc_threshold' \in Nat
<1>1. CASE allocated_count > gc_threshold
  <2>1. GcCollect
    BY <1>1 DEF CollectIfAboveThreshold
  <2>2. HeapInv'
    BY <2>1, GcCollectKeepsHeapInv
  <2>3. allocated_count' \in Int
    BY <2>2 DEF HeapInv, allocated_count
  <2>4. gc_threshold' = IF 2 * allocated_count' > GC_INITIAL_THRESHOLD
                        THEN 2 * allocated_count' ELSE GC_INITIAL_THRESHOLD
    BY <1>1 DEF CollectIfAboveThreshold
  <2>5. GC_INITIAL_THRESHOLD \in Nat
    BY BoundAssumption
  <2>6. ASSUME NEW x \in Int
        PROVE  (IF 2 * x > GC_INITIAL_THRESHOLD THEN 2 * x
                ELSE GC_INITIAL_THRESHOLD) \in Nat
    BY <2>5
  <2> QED BY <2>2, <2>3, <2>4, <2>6
<1>2. CASE ~(allocated_count > gc_threshold)
  BY <1>2, StableHeapInv DEF CollectIfAboveThreshold
<1> QED BY <1>1, <1>2

-----------------------------------------------------------------------------
\* The state outside the heap that the actions read and write.  While
\* run_init runs, sp is still 0.
ScriptTypeOK ==
    /\ items \in [Rc -> SUBSET Value]
    /\ globals \in [Globals -> Value]
    /\ high_water_mark \in Nat
    /\ regs \in [Registers -> Value]
    /\ stack \in Seq(Value)
    /\ arg_start \in 0 .. Len(stack)
    /\ running = "init" => arg_start = 0
    /\ callbacks \in SUBSET Value
    /\ running \in {"init", "call", "idle"}
    /\ result \in Rc \union {NoRc}
    /\ DOMAIN snapshot \subseteq Globals
    /\ \A g \in DOMAIN snapshot : snapshot[g] \in Value
    /\ gc_threshold \in Nat

IInv == HeapInv /\ ScriptTypeOK

(* A new VM has an empty, sound heap. *)
LEMMA InitIInv == Init => IInv
BY BoundAssumption
   DEF Init, IInv, HeapInv, ScriptTypeOK, FreeListSound, RcIndexSound,
       NullIsPlain, ArrayHasPayload, Slots, Registers, Value, Inline

\* An allocation leaves a slot number for the destination register.
LEMMA AllocIndexType ==
    ASSUME HeapInv
    PROVE  AllocIndex \in Value
BY AllocIndexInRange DEF Value, HeapInv

\* Starting a call keeps IInv.
LEMMA PassArgumentsKeepsIInv ==
    ASSUME IInv, NEW d \in Registers, PassArguments(d), callbacks' \in SUBSET Value
    PROVE  IInv'
<1>1. HeapInv'
  <2>1. CASE UNCHANGED heapVars
    BY <2>1, StableHeapInv DEF IInv
  <2>2. CASE Alloc(ArrayCell(result)) /\ result # NoRc
    BY <2>2, AllocKeepsHeapInv, CellTypes DEF IInv, ScriptTypeOK, ArrayCell, Plain
  <2> QED BY <2>1, <2>2 DEF PassArguments
<1>2. AllocIndex \in Value
  BY AllocIndexType DEF IInv
<1>3. regs' \in [Registers -> Value]
  <2>1. NoRegisters \in [Registers -> Value]
    BY DEF NoRegisters, Inline, Value
  <2> QED BY <1>2, <2>1 DEF PassArguments
<1>4. stack' \in Seq(Value) /\ arg_start' \in 0 .. Len(stack')
  <2>1. stack \in Seq(Value) /\ arg_start' = Len(stack)
    BY DEF PassArguments, IInv, ScriptTypeOK
  <2>2. CASE UNCHANGED stack
    BY <2>1, <2>2
  <2>3. CASE stack' = Append(stack, AllocIndex)
    <3>1. stack' \in Seq(Value) /\ Len(stack') = Len(stack) + 1
      BY <1>2, <2>1, <2>3
    <3> QED BY <2>1, <3>1
  <2> QED BY <2>2, <2>3 DEF PassArguments
<1>5. items' \in [Rc -> SUBSET Value]
  BY DEF PassArguments, DropUnheld, IInv, ScriptTypeOK
<1> QED BY <1>1, <1>3, <1>4, <1>5 DEF PassArguments, IInv, ScriptTypeOK

\* IInv is inductive.
LEMMA NextIInv == IInv /\ [Next]_vars => IInv'
<1> SUFFICES ASSUME IInv, [Next]_vars PROVE IInv'
  OBVIOUS
<1>0. HeapInv /\ ScriptTypeOK /\ AllocIndex \in Value
  BY AllocIndexType DEF IInv
<1>1. ASSUME NEW d \in Registers, NewPlain(d)
      PROVE  IInv'
  <2>1. PICK kind \in {"String", "Instance"} : Alloc(Plain(kind))
    BY <1>1 DEF NewPlain
  <2>2. HeapInv'
    BY <1>0, <2>1, AllocKeepsHeapInv, CellTypes DEF Plain, Kind
  <2> QED BY <1>0, <1>1, <2>2 DEF NewPlain, IInv, ScriptTypeOK, frameVars, hostVars
<1>3. ASSUME NEW d \in Registers, HoldCallback(d)
      PROVE  IInv'
  BY <1>0, <1>3, StableHeapInv DEF HoldCallback, IInv, ScriptTypeOK, frameVars, hostVars
<1>4. ASSUME NEW d \in Registers, CallFunction(d)
      PROVE  IInv'
  BY <1>0, <1>4, PassArgumentsKeepsIInv DEF CallFunction, ScriptTypeOK
<1>5. ASSUME NEW d \in Registers, CallValue(d)
      PROVE  IInv'
  BY <1>0, <1>5, PassArgumentsKeepsIInv DEF CallValue, ScriptTypeOK
<1>6. ASSUME NEW d \in Registers, NEW a \in Registers, NEW b \in Registers,
             NEW r \in Rc, NewArray(d, a, b, r)
      PROVE  IInv'
  <2>1. HeapInv'
    BY <1>0, <1>6, AllocKeepsHeapInv, CellTypes DEF NewArray, ArrayCell, Plain
  <2> QED BY <1>0, <1>6, <2>1 DEF NewArray, IInv, ScriptTypeOK, frameVars, hostVars
<1>7. ASSUME NEW d \in Registers, NEW a \in Registers, AppendElement(d, a)
      PROVE  IInv'
  <2>1. HeapInv'
    BY <1>0, <1>7, StableHeapInv DEF AppendElement
  <2>2. items' \in [Rc -> SUBSET Value]
    BY <1>0, <1>7 DEF AppendElement, ScriptTypeOK
  <2> QED BY <1>0, <1>7, <2>1, <2>2
          DEF AppendElement, IInv, ScriptTypeOK, frameVars, hostVars
<1>8. ASSUME NEW d \in Registers, NEW a \in Registers, Index(d, a)
      PROVE  IInv'
  <2>1. HeapInv'
    BY <1>0, <1>8, StableHeapInv DEF Index
  <2>2. objects[regs[a]].rc \in Rc
    BY <1>0, <1>8 DEF Index, IsKind, HeapInv, ArrayHasPayload
  <2>3. regs' \in [Registers -> Value]
    BY <1>0, <1>8, <2>2 DEF Index, ScriptTypeOK
  <2> QED BY <1>0, <1>8, <2>1, <2>3 DEF Index, IInv, ScriptTypeOK, frameVars, hostVars
<1>9. ASSUME NEW i \in Slots, NEW a \in Registers, SetField(i, a)
      PROVE  IInv'
  <2>1. HeapInv'
    BY <1>0, <1>9, SetFieldKeepsHeapInv
  <2> QED BY <1>0, <1>9, <2>1 DEF SetField, IInv, ScriptTypeOK, frameVars, hostVars
<1>10. ASSUME NEW d \in Registers, NEW a \in Registers, GetField(d, a)
       PROVE  IInv'
  <2>1. PICK r \in objects[regs[a]].nested : Alloc(ArrayCell(r))
    BY <1>10 DEF GetField
  <2>2. r \in Rc
    <3>1. regs[a] \in Slots
      BY <1>10 DEF GetField, IsKind
    <3>2. objects[regs[a]] \in Cell
      BY <1>0, <3>1 DEF HeapInv, Slots
    <3> QED BY <3>2 DEF Cell
  <2>3. HeapInv'
    BY <1>0, <2>1, <2>2, AllocKeepsHeapInv, CellTypes DEF ArrayCell, Plain
  <2> QED BY <1>0, <1>10, <2>3 DEF GetField, IInv, ScriptTypeOK, frameVars, hostVars
<1>11. ASSUME NEW d \in Registers, NEW g \in Globals, MakeClosure(d, g)
       PROVE  IInv'
  <2>1. {globals[g]} \ {Inline} \in SUBSET Value
    BY <1>0 DEF ScriptTypeOK
  <2>2. HeapInv'
    BY <1>0, <1>11, <2>1, AllocKeepsHeapInv, CellTypes
       DEF MakeClosure, FunctionCell, Plain
  <2> QED BY <1>0, <1>11, <2>2 DEF MakeClosure, IInv, ScriptTypeOK, frameVars, hostVars
<1>12. ASSUME NEW d \in Registers, NEW g \in Globals, GetGlobal(d, g)
       PROVE  IInv'
  BY <1>0, <1>12, StableHeapInv DEF GetGlobal, IInv, ScriptTypeOK, frameVars, hostVars
<1>13. ASSUME NEW g \in Globals, SetGlobal(g)
       PROVE  IInv'
  <2>1. HeapInv'
    BY <1>0, <1>13, StableHeapInv DEF SetGlobal
  <2>2. PICK v \in RegisterValues \union {Inline} : WriteGlobal(g, v)
    BY <1>13 DEF SetGlobal
  <2>3. v \in Value
    BY <1>0, <2>2 DEF RegisterValues, ScriptTypeOK, Inline, Value
  <2>4. globals' \in [Globals -> Value] /\ high_water_mark' \in Nat
    BY <1>0, <2>2, <2>3, GlobalsAssumption DEF WriteGlobal, ScriptTypeOK
  <2> QED BY <1>0, <1>13, <2>1, <2>4 DEF SetGlobal, IInv, ScriptTypeOK, frameVars, hostVars
<1>14. ASSUME EndInit
       PROVE  IInv'
  <2>1. HeapInv'
    BY <1>0, <1>14, StableHeapInv DEF EndInit
  <2>2. stack' \in Seq(Value) /\ Len(stack') = NumRegisters
    BY <1>0, <1>14, BoundAssumption DEF EndInit, ScriptTypeOK, Registers
  <2>3. regs' \in [Registers -> Value]
    BY <1>14 DEF EndInit, NoRegisters, Inline, Value
  <2>4. arg_start' \in 0 .. Len(stack')
    BY <1>0, <1>14, <2>2, BoundAssumption DEF EndInit, ScriptTypeOK
  <2> QED BY <1>0, <1>14, <2>1, <2>2, <2>3, <2>4 DEF EndInit, IInv, ScriptTypeOK, hostVars
<1>15. ASSUME ReturnFromCall
       PROVE  IInv'
  <2>1. HeapInv' /\ gc_threshold' \in Nat
    BY <1>0, <1>15, CollectKeepsHeapInv DEF ReturnFromCall, ScriptTypeOK
  <2>2. result' \in Rc \union {NoRc}
    BY <1>0, <1>15 DEF ReturnFromCall, IsKind, HeapInv, ArrayHasPayload
  <2>3. stack' \in Seq(Value) /\ Len(stack') = arg_start
    BY <1>0, <1>15 DEF ReturnFromCall, ScriptTypeOK
  <2>4. items' \in [Rc -> SUBSET Value]
    BY <1>0, <1>15 DEF ReturnFromCall, DropUnheld, ScriptTypeOK
  <2>5. regs' \in [Registers -> Value]
    BY <1>15 DEF ReturnFromCall, NoRegisters, Inline, Value
  <2>6. arg_start' \in 0 .. Len(stack')
    BY <1>0, <1>15, <2>3 DEF ReturnFromCall, ScriptTypeOK
  <2> QED BY <1>0, <1>15, <2>1, <2>2, <2>3, <2>4, <2>5, <2>6
          DEF ReturnFromCall, IInv, ScriptTypeOK
<1>16. ASSUME CallFails
       PROVE  IInv'
  BY <1>0, <1>16, StableHeapInv
     DEF CallFails, IInv, ScriptTypeOK, frameVars, hostVars, NoRegisters, Inline, Value
<1>17. ASSUME ManualGc
       PROVE  IInv'
  <2>1. HeapInv'
    BY <1>0, <1>17, GcCollectKeepsHeapInv DEF ManualGc
  <2>2. items' \in [Rc -> SUBSET Value]
    BY <1>0, <1>17 DEF ManualGc, DropUnheld, ScriptTypeOK
  <2> QED BY <1>0, <1>17, <2>1, <2>2 DEF ManualGc, IInv, ScriptTypeOK, frameVars, hostVars
<1>18. ASSUME SnapshotGlobals
       PROVE  IInv'
  <2>1. HeapInv'
    BY <1>0, <1>18, StableHeapInv DEF SnapshotGlobals
  <2>2. /\ DOMAIN snapshot' \subseteq Globals
        /\ \A g \in DOMAIN snapshot' : snapshot'[g] \in Value
    BY <1>0, <1>18 DEF SnapshotGlobals, ScriptTypeOK
  <2> QED BY <1>0, <1>18, <2>1, <2>2 DEF SnapshotGlobals, IInv, ScriptTypeOK, frameVars
<1>19. ASSUME RestoreGlobals
       PROVE  IInv'
  <2>1. HeapInv'
    BY <1>0, <1>19, StableHeapInv DEF RestoreGlobals
  <2>2. globals' \in [Globals -> Value]
    BY <1>0, <1>19 DEF RestoreGlobals, ScriptTypeOK
  <2> QED BY <1>0, <1>19, <2>1, <2>2
          DEF RestoreGlobals, IInv, ScriptTypeOK, frameVars, hostVars
<1>20. CASE UNCHANGED vars
  BY <1>0, <1>20, StableHeapInv DEF vars, heapVars, IInv, ScriptTypeOK
<1> QED
  BY <1>1, <1>3, <1>4, <1>5, <1>6, <1>7, <1>8, <1>9, <1>10, <1>11, <1>12,
     <1>13, <1>14, <1>15, <1>16, <1>17, <1>18, <1>19, <1>20 DEF Next

(* The whole state is type-correct in every reachable state. *)
THEOREM TypeCorrect == Spec => []TypeOK
<1>1. IInv => TypeOK
  BY DEF IInv, HeapInv, ScriptTypeOK, TypeOK
<1> QED BY <1>1, InitIInv, NextIInv, PTL DEF Spec

(* Heap::alloc never overwrites an object: every free-list entry is a slot *)
(* that holds Null and is listed once.                                     *)
THEOREM FreeListIsSound == Spec => []FreeListSound
<1>1. IInv => FreeListSound
  BY DEF IInv, HeapInv
<1> QED BY <1>1, InitIInv, NextIInv, PTL DEF Spec

(* mark_nested_object always finds the payload it looked up.               *)
THEOREM RcIndexIsSound == Spec => []RcIndexSound
<1>1. IInv => RcIndexSound
  BY DEF IInv, HeapInv
<1> QED BY <1>1, InitIInv, NextIInv, PTL DEF Spec


-----------------------------------------------------------------------------
(***************************************************************************)
(* What the marker reaches is all that script code can reach, as long as   *)
(* nothing dangles.  Only a host that passes an Object back or restores a  *)
(* snapshot brings in references that the collector has not seen.          *)
(***************************************************************************)

\* Global slots at or above the high-water mark are not scanned; they have
\* never been written.
UnscannedGlobals == \A g \in Globals : g >= high_water_mark => globals[g] = Inline

\* No registers are in use between two calls.
IdleRegisters == running = "idle" => \A d \in Registers : regs[d] = Inline

\* A snapshot covers slots below the high-water mark only.
SnapshotScanned == \A g \in DOMAIN snapshot : g < high_water_mark

SInv == IInv /\ UnscannedGlobals /\ IdleRegisters /\ SnapshotScanned

DInv == SInv /\ NoDangling

\* The least closed set of slots is closed.
LEMMA ReachableIsClosed ==
    /\ reachable \subseteq Slots
    /\ Roots \intersect Slots \subseteq reachable
    /\ \A i \in reachable : MarkRefs(objects[i]) \intersect Slots \subseteq reachable
BY DEF reachable, MarkClosed

\* The items of a payload held by a marked cell are marked, although
\* mark_nested_object stops at the payload's registered slot.
LEMMA ReachableItems ==
    ASSUME IInv, NEW i \in reachable, NEW r \in Rc,
           objects[i].rc = r \/ r \in objects[i].nested
    PROVE  items[r] \intersect Slots \subseteq reachable
<1>1. ASSUME NEW j \in reachable, objects[j].rc = r
      PROVE  items[r] \intersect Slots \subseteq reachable
  <2>1. items[r] \subseteq MarkRefs(objects[j])
    BY <1>1, RcAssumption DEF MarkRefs
  <2> QED BY <2>1, ReachableIsClosed
<1>2. CASE objects[i].rc = r
  BY <1>1, <1>2
<1>3. CASE r \in objects[i].nested
  <2>1. MarkNested(r) \subseteq MarkRefs(objects[i])
    BY <1>3 DEF MarkRefs
  <2>2. CASE rc_index[r] = 0
    BY <2>1, <2>2, ReachableIsClosed DEF MarkNested
  <2>3. CASE rc_index[r] # 0
    <3>1. rc_index[r] \in Slots /\ objects[rc_index[r]].rc = r
      BY <2>3 DEF IInv, HeapInv, RcIndexSound
    <3>2. rc_index[r] \in reachable
      BY <2>1, <2>3, <3>1, ReachableIsClosed DEF MarkNested
    <3> QED BY <1>1, <3>1, <3>2
  <2> QED BY <2>2, <2>3
<1> QED BY <1>2, <1>3

\* A marked object survives in its slot, and nothing else survives.
LEMMA CollectKeepsReachable ==
    ASSUME IInv, GcCollect
    PROVE  /\ \A i \in reachable : objects[i].kind # "Null" =>
                  i \in Slots' /\ objects'[i] = objects[i]
           /\ \A i \in Slots' : objects'[i].kind # "Null" =>
                  i \in reachable /\ objects'[i] = objects[i]
<1> DEFINE swept == Garbage
           objs == Sweep(swept)
<1>1. PICK n \in 0 .. Len(objects) :
        IsTrimmed(objs, n) /\ objects' = SubSeq(objs, 1, n)
  BY DEF GcCollect
<1>2. /\ objs \in Seq(Cell)
      /\ Len(objs) = Len(objects)
      /\ \A i \in Slots : objs[i] = IF i \in swept THEN NullCell ELSE objects[i]
  BY CellTypes DEF IInv, HeapInv, Sweep, Slots
<1>3. /\ Len(objects') = n
      /\ \A i \in 1 .. n : i \in Slots /\ objects'[i] = objs[i]
  BY <1>1, <1>2 DEF Slots
<1>4. Slots' = 1 .. n
  BY <1>3 DEF Slots
<1>5. ASSUME NEW i \in reachable, objects[i].kind # "Null"
      PROVE  i \in Slots' /\ objects'[i] = objects[i]
  <2>1. i \in Slots /\ i \notin swept
    BY <1>5, ReachableIsClosed DEF Garbage
  <2>2. objs[i] = objects[i]
    BY <1>2, <2>1
  <2>3. i \in 1 .. n
    BY <1>1, <1>2, <1>5, <2>1, <2>2 DEF IsTrimmed, Slots
  <2> QED BY <1>3, <1>4, <2>2, <2>3
<1>6. ASSUME NEW i \in Slots', objects'[i].kind # "Null"
      PROVE  i \in reachable /\ objects'[i] = objects[i]
  <2>1. i \in Slots /\ objects'[i] = objs[i]
    BY <1>3, <1>4
  <2>2. i \notin swept
    BY <1>2, <1>6, <2>1 DEF NullCell, Plain
  <2>3. objs[i] = objects[i]
    BY <1>2, <2>1, <2>2
  <2> QED BY <1>6, <2>1, <2>2, <2>3 DEF Garbage
<1> QED BY <1>5, <1>6

\* A root that can be followed still can be after a collection.
LEMMA CollectKeepsRoots ==
    ASSUME IInv, GcCollect, NEW v \in Roots, Valid(v)
    PROVE  Valid(v)'
BY CollectKeepsReachable, ReachableIsClosed DEF Valid

\* So can the items of every payload that the heap still holds.
LEMMA CollectKeepsItems ==
    ASSUME DInv, GcCollect, NEW i \in Slots', NEW r \in Rc,
           objects'[i].rc = r \/ r \in objects'[i].nested,
           NEW v \in items[r]
    PROVE  Valid(v)'
<1>1. HeapInv'
  BY GcCollectKeepsHeapInv DEF DInv, SInv, IInv
<1>2. objects'[i].kind # "Null"
  BY <1>1, RcAssumption DEF HeapInv, NullIsPlain, NullCell, Plain
<1>3. i \in reachable /\ i \in Slots /\ objects'[i] = objects[i]
  BY <1>2, CollectKeepsReachable, ReachableIsClosed DEF DInv, SInv
<1>4. Valid(v)
  BY <1>3 DEF DInv, SInv, NoDangling, ScriptValues, HeapPayloads
<1>5. CASE v = Inline
  BY <1>5 DEF Valid
<1>6. CASE v # Inline
  <2>1. v \in reachable /\ objects[v].kind # "Null"
    BY <1>3, <1>4, <1>6, ReachableItems DEF DInv, SInv, Valid
  <2>2. v \in Slots' /\ objects'[v] = objects[v]
    BY <2>1, CollectKeepsReachable DEF DInv, SInv
  <2> QED BY <2>1, <2>2 DEF Valid
<1> QED BY <1>5, <1>6

\* A new object invalidates no Value, and its own slot n is valid.
LEMMA AllocKeepsValid ==
    ASSUME HeapInv, NEW cell, cell.kind # "Null", Alloc(cell), NEW n, n = AllocIndex
    PROVE  /\ \A v : Valid(v) => Valid(v)'
           /\ Valid(n)'
           /\ n \in Slots' /\ objects'[n] = cell
           /\ \A i \in Slots' : i # n => i \in Slots /\ objects'[i] = objects[i]
<1>1. /\ objects'[n] = cell
      /\ \A i \in Slots : i # n => objects'[i] = objects[i]
      /\ n \in Slots => objects[n].kind = "Null"
      /\ Slots' = Slots \union {n}
  <2>1. CASE free_list = <<>>
    <3>1. objects' = Append(objects, cell) /\ n = Len(objects) + 1
      BY <2>1, AllocIndexInRange DEF Alloc
    <3>2. /\ Len(objects') = Len(objects) + 1
          /\ \A i \in Slots : objects'[i] = objects[i]
          /\ objects'[Len(objects) + 1] = cell
          /\ Len(objects) \in Nat
      BY <3>1 DEF HeapInv, Slots
    <3> QED BY <3>1, <3>2 DEF Slots
  <2>2. CASE free_list # <<>>
    <3>1. /\ objects' = [objects EXCEPT ![n] = cell]
          /\ n \in Slots
          /\ objects[n].kind = "Null"
      BY <2>2, AllocIndexInRange DEF Alloc
    <3>2. /\ Len(objects') = Len(objects)
          /\ \A i \in Slots : i # n => objects'[i] = objects[i]
          /\ objects'[n] = cell
      BY <3>1 DEF HeapInv, Slots
    <3> QED BY <3>1, <3>2 DEF Slots
  <2> QED BY <2>1, <2>2
<1>2. ASSUME NEW v, Valid(v)
      PROVE  Valid(v)'
  BY <1>1, <1>2 DEF Valid
<1>3. Valid(n)'
  BY <1>1 DEF Valid
<1> QED BY <1>1, <1>2, <1>3


\* A step keeps NoDangling when the Values it adds are valid afterwards.
LEMMA KeepsNoDangling ==
    ASSUME NoDangling, \A v : Valid(v) => Valid(v)',
           \A v \in ScriptValues' : v \in ScriptValues \/ Valid(v)'
    PROVE  NoDangling'
BY DEF NoDangling

\* A step that leaves the cells alone keeps every Value valid.
LEMMA StableValid ==
    ASSUME UNCHANGED objects
    PROVE  \A v : Valid(v) => Valid(v)'
BY DEF Valid, Slots

\* NewPlain, MakeClosure and GetField: a new object whose
\* payload, if it has one, was held before.
LEMMA AllocKeepsNoDangling ==
    ASSUME DInv, NEW d \in Registers, NEW cell, cell.kind # "Null", Alloc(cell),
           cell.nested = {}, cell.rc \in HeapPayloads \union {NoRc},
           regs' = [regs EXCEPT ![d] = AllocIndex],
           UNCHANGED <<items, globals, stack, callbacks>>
    PROVE  NoDangling'
<1>1. PICK n : n = AllocIndex
  OBVIOUS
<1>2. /\ \A v : Valid(v) => Valid(v)'
      /\ Valid(n)'
      /\ objects'[n] = cell
      /\ \A i \in Slots' : i # n => i \in Slots /\ objects'[i] = objects[i]
  BY <1>1, AllocKeepsValid DEF DInv, SInv, IInv
<1>3. HeapPayloads' \subseteq HeapPayloads
  BY <1>2, RcAssumption DEF HeapPayloads
<1>4. \A v \in ScriptValues' : v \in ScriptValues \/ v = n
  <2>1. {regs'[e] : e \in Registers} \subseteq {regs[e] : e \in Registers} \union {n}
    BY <1>1 DEF DInv, SInv, IInv, ScriptTypeOK
  <2> QED BY <1>3, <2>1 DEF ScriptValues
<1> QED BY <1>2, <1>4, KeepsNoDangling DEF DInv, SInv

\* The instructions that only move Values around.
LEMMA StableKeepsNoDangling ==
    ASSUME DInv, UNCHANGED objects, ScriptValues' \subseteq ScriptValues
    PROVE  NoDangling'
BY StableValid, KeepsNoDangling DEF DInv, SInv

(* A new array refers to what registers held: nothing dangles. *)
LEMMA NewArrayKeepsNoDangling ==
    ASSUME DInv, NEW d \in Registers, NEW a \in Registers, NEW b \in Registers,
           NEW r \in Rc, NewArray(d, a, b, r)
    PROVE  NoDangling'
<1>1. PICK n : n = AllocIndex
  OBVIOUS
<1>2. /\ \A v : Valid(v) => Valid(v)'
      /\ Valid(n)'
      /\ objects'[n] = ArrayCell(r)
      /\ \A i \in Slots' : i # n => i \in Slots /\ objects'[i] = objects[i]
  BY <1>1, AllocKeepsValid DEF DInv, SInv, IInv, NewArray, ArrayCell, Plain
<1>3. HeapPayloads' \subseteq HeapPayloads \union {r}
  BY <1>2, RcAssumption DEF HeapPayloads, ArrayCell, Plain
<1>4. /\ items'[r] \subseteq {regs[a], regs[b]}
      /\ \A q \in Rc : q # r => items'[q] = items[q]
  BY DEF NewArray, DInv, SInv, IInv, ScriptTypeOK
<1>5. {regs'[e] : e \in Registers} \subseteq {regs[e] : e \in Registers} \union {n}
  BY <1>1 DEF NewArray, DInv, SInv, IInv, ScriptTypeOK
<1>6. UNCHANGED <<globals, stack, callbacks>>
  BY DEF NewArray, frameVars
<1>7. HeapPayloads' \subseteq Rc
  BY DEF HeapPayloads
<1>8. \A v \in ScriptValues' : v \in ScriptValues \/ v = n
  <2>1. \A q \in HeapPayloads' : items'[q] \subseteq ScriptValues
    BY <1>3, <1>4, <1>7 DEF ScriptValues
  <2> QED BY <1>5, <1>6, <2>1 DEF ScriptValues
<1> QED BY <1>2, <1>8, KeepsNoDangling DEF DInv, SInv

(* An appended element was in a register: nothing dangles. *)
LEMMA AppendElementKeepsNoDangling ==
    ASSUME DInv, NEW a \in Registers, NEW w \in Registers, AppendElement(a, w)
    PROVE  NoDangling'
<1>1. UNCHANGED <<objects, globals, regs, stack, callbacks>>
  BY DEF AppendElement, heapVars, frameVars
<1>2. \A q \in Rc : items'[q] \subseteq items[q] \union {regs[w]}
  BY DEF AppendElement, DInv, SInv, IInv, ScriptTypeOK
<1>3. HeapPayloads' = HeapPayloads /\ HeapPayloads \subseteq Rc
  BY <1>1 DEF HeapPayloads, Slots
<1>4. \A q \in HeapPayloads' : items'[q] \subseteq ScriptValues
  BY <1>2, <1>3 DEF ScriptValues
<1>5. ScriptValues' \subseteq ScriptValues
  BY <1>1, <1>4 DEF ScriptValues
<1> QED BY <1>1, <1>5, StableKeepsNoDangling

(* A field shares a payload some slot already keeps alive. *)
LEMMA SetFieldKeepsNoDangling ==
    ASSUME DInv, NEW i, NEW a \in Registers, SetField(i, a)
    PROVE  NoDangling'
<1> DEFINE r == objects[regs[a]].rc
<1>1. /\ i \in Slots /\ regs[a] \in Slots
      /\ objects[regs[a]].kind = "Array"
      /\ objects' = [objects EXCEPT ![i].nested = @ \union {r}]
      /\ UNCHANGED <<items, globals, regs, stack, callbacks>>
  BY DEF SetField, IsKind, frameVars
<1>2. r \in HeapPayloads
  BY <1>1 DEF DInv, SInv, IInv, HeapInv, ArrayHasPayload, HeapPayloads
<1>3. objects[i] \in Cell /\ objects \in Seq(Cell) /\ r \in Rc
  BY <1>1, <1>2 DEF HeapPayloads, DInv, SInv, IInv, HeapInv, Slots
<1> DEFINE cell == [objects[i] EXCEPT !.nested = @ \union {r}]
<1>4. /\ cell \in Cell
      /\ cell.kind = objects[i].kind
      /\ cell.rc = objects[i].rc
      /\ cell.nested = objects[i].nested \union {r}
  BY <1>3 DEF Cell
<1>5. objects' = [objects EXCEPT ![i] = cell]
  BY <1>1
<1> HIDE DEF r, cell
<1>6. /\ Slots' = Slots
      /\ \A j \in Slots : objects'[j] = IF j = i THEN cell ELSE objects[j]
  <2>1. i \in Slots
    BY <1>1
  <2> QED BY <1>3, <1>4, <1>5, <2>1 DEF Slots
<1>7. \A v : Valid(v) => Valid(v)'
  BY <1>4, <1>6 DEF Valid
<1>8. HeapPayloads' \subseteq HeapPayloads
  BY <1>1, <1>2, <1>4, <1>6 DEF HeapPayloads
<1>9. ScriptValues' \subseteq ScriptValues
  BY <1>1, <1>8 DEF ScriptValues
<1> QED BY <1>7, <1>9, KeepsNoDangling DEF DInv, SInv

\* Both ways to collect, with what is still held afterwards.
LEMMA GcCollectKeepsNoDangling ==
    ASSUME DInv, GcCollect, DropUnheld,
           UNCHANGED <<globals, callbacks>>,
           {regs'[d] : d \in Registers} \subseteq {Inline},
           {stack'[k] : k \in 1 .. Len(stack')} \subseteq {stack[k] : k \in 1 .. sp},
           sp \in 0 .. Len(stack)
    PROVE  NoDangling'
<1>1. \A v \in {globals[g] : g \in Globals} : v = Inline \/ v \in Roots
  BY GlobalsAssumption DEF DInv, SInv, UnscannedGlobals, Roots, IInv, ScriptTypeOK
<1>2. callbacks \subseteq Roots /\ {stack[k] : k \in 1 .. sp} \subseteq Roots
  BY DEF Roots
<1>3. \A v \in {globals[g] : g \in Globals} : Valid(v)'
  <2>1. \A v \in {globals[g] : g \in Globals} : Valid(v)
    BY DEF DInv, SInv, NoDangling, ScriptValues
  <2> QED BY <1>1, <2>1, CollectKeepsRoots DEF DInv, SInv, Valid
<1>4. \A v \in callbacks \union {stack[k] : k \in 1 .. sp} : Valid(v)'
  <2>1. \A v \in callbacks \union {stack[k] : k \in 1 .. sp} : Valid(v)
    <3>1. \A k \in 1 .. sp : k \in 1 .. Len(stack)
      OBVIOUS
    <3> QED BY <3>1 DEF DInv, SInv, NoDangling, ScriptValues
  <2> QED BY <1>2, <2>1, CollectKeepsRoots DEF DInv, SInv
<1>5. \A v \in {regs'[d] : d \in Registers} : Valid(v)'
  BY DEF Valid
<1>6. ASSUME NEW r \in HeapPayloads', NEW v \in items'[r]
      PROVE  Valid(v)'
  <2>1. r \in Rc /\ \E i \in Slots' : objects'[i].rc = r \/ r \in objects'[i].nested
    BY DEF HeapPayloads
  <2>2. v \in items[r]
    BY <1>6, <2>1 DEF DropUnheld
  <2> QED BY <2>1, <2>2, CollectKeepsItems
<1> QED BY <1>3, <1>4, <1>5, <1>6 DEF NoDangling, ScriptValues

\* DInv holds initially.
LEMMA InitDInv == Init => DInv
<1> SUFFICES ASSUME Init PROVE DInv
  OBVIOUS
<1>1. IInv
  BY InitIInv
<1>2. UnscannedGlobals
  BY DEF Init, UnscannedGlobals
<1>4. IdleRegisters /\ SnapshotScanned
  BY DEF Init, IdleRegisters, SnapshotScanned
<1>3. NoDangling
  <2>1. HeapPayloads = {}
    BY DEF Init, HeapPayloads, Slots
  <2>2. \A v \in ScriptValues : v = Inline
    BY <2>1 DEF Init, ScriptValues
  <2> QED BY <2>2 DEF NoDangling, Valid
<1> QED BY <1>1, <1>2, <1>4, <1>3 DEF DInv, SInv

\* Every step keeps NoDangling, unless the host hands something back.
LEMMA NextNoDangling ==
    ASSUME DInv, [Next]_vars, ~HandsBack
    PROVE  NoDangling'
<1>0. HeapInv /\ ScriptTypeOK
  BY DEF DInv, SInv, IInv
<1>1. ASSUME NEW d \in Registers, NewPlain(d)
      PROVE  NoDangling'
  BY <1>1, AllocKeepsNoDangling DEF NewPlain, Plain, frameVars
<1>3. ASSUME NEW d \in Registers, HoldCallback(d)
      PROVE  NoDangling'
  <2>1. UNCHANGED <<objects, items, globals, regs, stack>>
    BY <1>3 DEF HoldCallback, heapVars, frameVars
  <2>2. HeapPayloads' = HeapPayloads
    BY <2>1 DEF HeapPayloads, Slots
  <2>3. ScriptValues' \subseteq ScriptValues
    BY <1>3, <2>1, <2>2 DEF HoldCallback, ScriptValues
  <2> QED BY <2>1, <2>3, StableKeepsNoDangling
<1>4. ASSUME NEW d \in Registers, PassArguments(d), callbacks' \subseteq callbacks
      PROVE  NoDangling'
  <2>0. stack' # Append(stack, AllocIndex)
    <3>1. Len(Append(stack, AllocIndex)) > Len(stack)
      BY <1>0 DEF ScriptTypeOK
    <3> QED BY <1>4, <3>1 DEF PassArguments, HandsBack
  <2>1. UNCHANGED <<objects, stack, globals>> /\ regs' = NoRegisters
    BY <1>4, <2>0 DEF PassArguments, heapVars
  <2>2. HeapPayloads' = HeapPayloads
    BY <2>1 DEF HeapPayloads, Slots
  <2>3. \A r \in Rc : items'[r] \subseteq items[r]
    BY <1>4 DEF PassArguments, DropUnheld
  <2>4. \A v \in ScriptValues' : v \in ScriptValues \/ v = Inline
    BY <1>4, <2>1, <2>2, <2>3 DEF ScriptValues, NoRegisters, HeapPayloads
  <2> QED BY <2>1, <2>4, StableValid, KeepsNoDangling DEF DInv, SInv, Valid
<1>5. ASSUME NEW d \in Registers, CallFunction(d) \/ CallValue(d)
      PROVE  NoDangling'
  BY <1>4, <1>5 DEF CallFunction, CallValue
<1>6. ASSUME NEW d \in Registers, NEW a \in Registers, Index(d, a)
      PROVE  NoDangling'
  <2> DEFINE r == objects[regs[a]].rc
  <2>1. /\ UNCHANGED <<objects, items, globals, stack, callbacks>>
        /\ regs[a] \in Slots /\ objects[regs[a]].kind = "Array"
        /\ \E v \in items[r] : regs' = [regs EXCEPT ![d] = v]
    BY <1>6 DEF Index, heapVars, frameVars, IsKind
  <2>2. r \in HeapPayloads
    BY <1>0, <2>1 DEF HeapInv, ArrayHasPayload, HeapPayloads
  <2> HIDE DEF r
  <2>3. HeapPayloads' = HeapPayloads
    BY <2>1 DEF HeapPayloads, Slots
  <2>4. {regs'[e] : e \in Registers} \subseteq {regs[e] : e \in Registers} \union items[r]
    BY <1>0, <2>1 DEF ScriptTypeOK
  <2>5. ScriptValues' \subseteq ScriptValues
    BY <2>1, <2>2, <2>3, <2>4 DEF ScriptValues
  <2> QED BY <2>1, <2>5, StableKeepsNoDangling
<1>7. ASSUME NEW d \in Registers, NEW a \in Registers, GetField(d, a)
      PROVE  NoDangling'
  <2>1. PICK r \in objects[regs[a]].nested : Alloc(ArrayCell(r))
    BY <1>7 DEF GetField
  <2>2. regs[a] \in Slots
    BY <1>7 DEF GetField, IsKind
  <2>3. r \in HeapPayloads
    <3>1. objects[regs[a]] \in Cell
      BY <1>0, <2>2 DEF HeapInv, Slots
    <3>2. r \in Rc
      BY <3>1 DEF Cell
    <3> QED BY <2>2, <3>2 DEF HeapPayloads
  <2> QED BY <1>7, <2>1, <2>3, AllocKeepsNoDangling
          DEF GetField, ArrayCell, Plain, frameVars
<1>8. ASSUME NEW d \in Registers, NEW g \in Globals, MakeClosure(d, g)
      PROVE  NoDangling'
  BY <1>8, AllocKeepsNoDangling DEF MakeClosure, FunctionCell, Plain, frameVars
<1>9. ASSUME NEW d \in Registers, NEW g \in Globals, GetGlobal(d, g)
      PROVE  NoDangling'
  <2>1. UNCHANGED <<objects, items, globals, stack, callbacks>>
    BY <1>9 DEF GetGlobal, heapVars, frameVars
  <2>2. HeapPayloads' = HeapPayloads
    BY <2>1 DEF HeapPayloads, Slots
  <2>3. {regs'[e] : e \in Registers} \subseteq {regs[e] : e \in Registers} \union {globals[g]}
    BY <1>0, <1>9 DEF GetGlobal, ScriptTypeOK
  <2>4. ScriptValues' \subseteq ScriptValues
    BY <2>1, <2>2, <2>3 DEF ScriptValues
  <2> QED BY <2>1, <2>4, StableKeepsNoDangling
<1>10. ASSUME NEW g \in Globals, SetGlobal(g)
       PROVE  NoDangling'
  <2>1. UNCHANGED <<objects, items, regs, stack, callbacks>>
    BY <1>10 DEF SetGlobal, heapVars, frameVars
  <2>2. HeapPayloads' = HeapPayloads
    BY <2>1 DEF HeapPayloads, Slots
  <2>3. PICK v \in RegisterValues \union {Inline} : globals' = [globals EXCEPT ![g] = v]
    BY <1>10 DEF SetGlobal, WriteGlobal
  <2>4. {globals'[h] : h \in Globals} \subseteq {globals[h] : h \in Globals} \union {v}
    BY <1>0, <2>3 DEF ScriptTypeOK
  <2>5. \A w \in ScriptValues' : w \in ScriptValues \/ w = Inline
    BY <2>1, <2>2, <2>4 DEF ScriptValues, RegisterValues
  <2> QED BY <2>1, <2>5, StableValid, KeepsNoDangling DEF DInv, SInv, Valid
<1>11. ASSUME EndInit
       PROVE  NoDangling'
  <2>1. UNCHANGED <<objects, items, globals, callbacks>> /\ stack' = regs /\ regs' = NoRegisters
    BY <1>11 DEF EndInit, heapVars
  <2>2. HeapPayloads' = HeapPayloads
    BY <2>1 DEF HeapPayloads, Slots
  <2>3. 1 .. Len(stack') = Registers
    BY <1>0, <2>1, BoundAssumption DEF ScriptTypeOK, Registers
  <2>4. \A v \in ScriptValues' : v \in ScriptValues \/ v = Inline
    BY <2>1, <2>2, <2>3 DEF ScriptValues, NoRegisters
  <2> QED BY <2>1, <2>4, StableValid, KeepsNoDangling DEF DInv, SInv, Valid
<1>12. ASSUME ReturnFromCall
       PROVE  NoDangling'
  <2>1. /\ running = "call" /\ regs' = NoRegisters
        /\ stack' = SubSeq(stack, 1, arg_start)
        /\ UNCHANGED <<globals, callbacks>>
        /\ CollectIfAboveThreshold /\ DropUnheld
    BY <1>12 DEF ReturnFromCall
  <2>2. sp = arg_start /\ arg_start \in 0 .. Len(stack) /\ stack \in Seq(Value)
    BY <1>0, <2>1 DEF sp, ScriptTypeOK
  <2>3. {stack'[k] : k \in 1 .. Len(stack')} \subseteq {stack[k] : k \in 1 .. sp}
    <3>1. arg_start \in Nat /\ \A k \in 1 .. arg_start : stack[k] \in Value
      BY <2>2
    <3>2. /\ Len(stack') = arg_start
          /\ \A k \in 1 .. arg_start : stack'[k] = stack[k]
      BY <2>1, <3>1, SubSeqProperties
    <3> QED BY <2>2, <3>2
  <2>4. {regs'[d] : d \in Registers} \subseteq {Inline}
    BY <2>1 DEF NoRegisters
  <2>5. CASE GcCollect
    BY <2>1, <2>2, <2>3, <2>4, <2>5, GcCollectKeepsNoDangling
  <2>6. CASE UNCHANGED heapVars
    <3>1. UNCHANGED objects
      BY <2>6 DEF heapVars
    <3>2. HeapPayloads' = HeapPayloads
      BY <3>1 DEF HeapPayloads, Slots
    <3>3. \A r \in HeapPayloads' : items'[r] \subseteq items[r]
      BY <2>1 DEF DropUnheld, HeapPayloads
    <3>4. 1 .. sp \subseteq 1 .. Len(stack)
      BY <2>2
    <3>5. {stack'[k] : k \in 1 .. Len(stack')} \subseteq {stack[k] : k \in 1 .. Len(stack)}
      BY <2>3, <3>4
    <3>6. UNION {items'[r] : r \in HeapPayloads'} \subseteq UNION {items[r] : r \in HeapPayloads}
      BY <3>2, <3>3
    <3>7. \A v \in ScriptValues' : v \in ScriptValues \/ v = Inline
      BY <2>1, <2>4, <3>5, <3>6 DEF ScriptValues
    <3> QED BY <3>1, <3>7, StableValid, KeepsNoDangling DEF DInv, SInv, Valid
  <2> QED BY <2>1, <2>5, <2>6 DEF CollectIfAboveThreshold
<1>13. ASSUME CallFails
       PROVE  NoDangling'
  <2>1. UNCHANGED <<objects, items, globals, stack, callbacks>> /\ regs' = NoRegisters
    BY <1>13 DEF CallFails, heapVars, frameVars
  <2>2. HeapPayloads' = HeapPayloads
    BY <2>1 DEF HeapPayloads, Slots
  <2>3. \A v \in ScriptValues' : v \in ScriptValues \/ v = Inline
    BY <2>1, <2>2 DEF ScriptValues, NoRegisters
  <2> QED BY <2>1, <2>3, StableValid, KeepsNoDangling DEF DInv, SInv, Valid
<1>14. ASSUME ManualGc
       PROVE  NoDangling'
  <2>1. /\ running = "idle" /\ UNCHANGED <<globals, regs, stack, callbacks>>
        /\ GcCollect /\ DropUnheld
    BY <1>14 DEF ManualGc, frameVars
  <2>2. sp = Len(stack) /\ sp \in 0 .. Len(stack)
    BY <1>0, <2>1 DEF sp, ScriptTypeOK
  <2>3. {regs'[d] : d \in Registers} \subseteq {Inline}
    BY <2>1 DEF DInv, SInv, IdleRegisters
  <2> QED BY <2>1, <2>2, <2>3, GcCollectKeepsNoDangling
<1>15. ASSUME SnapshotGlobals \/ RestoreGlobals \/ UNCHANGED vars
       PROVE  NoDangling'
  <2>1. UNCHANGED <<objects, items, globals, regs, stack, callbacks>>
    BY <1>15 DEF SnapshotGlobals, RestoreGlobals, HandsBack, heapVars, frameVars, vars
  <2>2. HeapPayloads' = HeapPayloads
    BY <2>1 DEF HeapPayloads, Slots
  <2>3. ScriptValues' \subseteq ScriptValues
    BY <2>1, <2>2 DEF ScriptValues
  <2> QED BY <2>1, <2>3, StableKeepsNoDangling
<1> QED
  BY <1>1, <1>3, <1>5, <1>6, <1>7, <1>8, <1>9, <1>10, <1>11, <1>12, <1>13,
     <1>14, <1>15, NewArrayKeepsNoDangling, AppendElementKeepsNoDangling,
     SetFieldKeepsNoDangling DEF Next

\* Between two calls the registers are empty; a global is written, and kept
\* in a snapshot, only below the high-water mark.
LEMMA NextScriptState ==
    ASSUME SInv, [Next]_vars
    PROVE  UnscannedGlobals' /\ IdleRegisters'
<1>1. CASE \E g \in Globals : SetGlobal(g)
  <2>1. PICK g \in Globals, v \in RegisterValues \union {Inline} : WriteGlobal(g, v)
    BY <1>1 DEF SetGlobal
  <2>2. UNCHANGED running /\ running # "idle"
    BY <1>1 DEF SetGlobal, Running
  <2>3. UnscannedGlobals'
    <3>1. /\ g \in Nat /\ high_water_mark \in Nat
          /\ high_water_mark' = IF g + 1 > high_water_mark THEN g + 1 ELSE high_water_mark
          /\ \A h \in Globals : h # g => globals'[h] = globals[h]
      BY <2>1, GlobalsAssumption DEF WriteGlobal, DInv, SInv, IInv, ScriptTypeOK
    <3>2. high_water_mark' > g /\ high_water_mark' >= high_water_mark /\ high_water_mark' \in Nat
      BY <3>1
    <3>3. ASSUME NEW h \in Globals, h >= high_water_mark'
          PROVE  globals'[h] = Inline
      <4>1. h \in Nat /\ h # g /\ h >= high_water_mark
        BY <3>1, <3>2, <3>3, GlobalsAssumption
      <4> QED BY <3>1, <4>1 DEF DInv, SInv, UnscannedGlobals
    <3> QED BY <3>3 DEF UnscannedGlobals
  <2> QED BY <2>2, <2>3 DEF IdleRegisters
<1>2. ASSUME UNCHANGED <<globals, high_water_mark>>
      PROVE  UnscannedGlobals'
  BY <1>2 DEF DInv, SInv, UnscannedGlobals
<1>3. ASSUME Running, UNCHANGED running
      PROVE  IdleRegisters'
  BY <1>3 DEF Running, IdleRegisters
<1>4. ASSUME regs' = NoRegisters
      PROVE  IdleRegisters'
  BY <1>4 DEF NoRegisters, IdleRegisters
<1>5. ASSUME NEW d \in Registers,
             \/ NewPlain(d) \/ HoldCallback(d)
             \/ \E a, b \in Registers, r \in Rc : NewArray(d, a, b, r)
             \/ \E a \in Registers : AppendElement(d, a) \/ Index(d, a) \/ GetField(d, a)
             \/ \E i \in Slots : SetField(i, d)
             \/ \E g \in Globals : MakeClosure(d, g) \/ GetGlobal(d, g)
      PROVE  UnscannedGlobals' /\ IdleRegisters'
  BY <1>2, <1>3, <1>5
     DEF NewPlain, HoldCallback, NewArray, AppendElement, Index,
         SetField, GetField, MakeClosure, GetGlobal
<1>6. ASSUME NEW d \in Registers, CallFunction(d) \/ CallValue(d)
      PROVE  UnscannedGlobals' /\ IdleRegisters'
  BY <1>2, <1>6 DEF CallFunction, CallValue, PassArguments, IdleRegisters
<1>7. ASSUME EndInit \/ ReturnFromCall \/ CallFails
      PROVE  UnscannedGlobals' /\ IdleRegisters'
  BY <1>2, <1>4, <1>7 DEF EndInit, ReturnFromCall, CallFails
<1>8. ASSUME ManualGc \/ SnapshotGlobals \/ UNCHANGED vars
      PROVE  UnscannedGlobals' /\ IdleRegisters'
  BY <1>2, <1>8 DEF ManualGc, SnapshotGlobals, vars, DInv, SInv, IdleRegisters
<1>9. ASSUME RestoreGlobals
      PROVE  UnscannedGlobals' /\ IdleRegisters'
  <2>1. ASSUME NEW g \in Globals, g >= high_water_mark
        PROVE  globals'[g] = Inline
    <3>1. g \notin DOMAIN snapshot
      BY <2>1, GlobalsAssumption
         DEF SInv, SnapshotScanned, IInv, ScriptTypeOK
    <3> QED BY <1>9, <2>1, <3>1 DEF RestoreGlobals, SInv, UnscannedGlobals
  <2>2. UNCHANGED <<high_water_mark, regs, running>>
    BY <1>9 DEF RestoreGlobals
  <2> QED BY <2>1, <2>2 DEF SInv, UnscannedGlobals, IdleRegisters
<1> QED BY <1>1, <1>5, <1>6, <1>7, <1>8, <1>9 DEF Next

\* The high-water mark never falls, and a snapshot ends below it.
LEMMA NextSnapshotScanned ==
    ASSUME SInv, [Next]_vars
    PROVE  SnapshotScanned'
<1>1. CASE UNCHANGED <<snapshot, high_water_mark>>
  BY <1>1 DEF SInv, SnapshotScanned
<1>2. CASE \E g \in Globals : SetGlobal(g)
  <2>1. PICK g \in Globals : SetGlobal(g)
    BY <1>2
  <2>2. /\ g \in Nat /\ high_water_mark \in Nat
        /\ high_water_mark' = IF g + 1 > high_water_mark THEN g + 1 ELSE high_water_mark
        /\ UNCHANGED snapshot
    BY <2>1, GlobalsAssumption DEF SetGlobal, WriteGlobal, SInv, IInv, ScriptTypeOK, hostVars
  <2>3. DOMAIN snapshot \subseteq Nat
    BY GlobalsAssumption DEF SInv, IInv, ScriptTypeOK
  <2> QED BY <2>2, <2>3 DEF SInv, SnapshotScanned
<1>3. CASE SnapshotGlobals
  BY <1>3 DEF SnapshotGlobals, SnapshotScanned
<1>4. ASSUME NEW d \in Registers
      PROVE  /\ NewPlain(d) => UNCHANGED <<snapshot, high_water_mark>>
             /\ HoldCallback(d) => UNCHANGED <<snapshot, high_water_mark>>
             /\ PassArguments(d) => UNCHANGED <<snapshot, high_water_mark>>
             /\ \A a, b \in Registers, r \in Rc :
                   NewArray(d, a, b, r) => UNCHANGED <<snapshot, high_water_mark>>
             /\ \A a \in Registers :
                   AppendElement(d, a) \/ Index(d, a) \/ GetField(d, a)
                   => UNCHANGED <<snapshot, high_water_mark>>
             /\ \A i \in Slots : SetField(i, d) => UNCHANGED <<snapshot, high_water_mark>>
             /\ \A g \in Globals :
                   MakeClosure(d, g) \/ GetGlobal(d, g)
                   => UNCHANGED <<snapshot, high_water_mark>>
  BY DEF NewPlain, HoldCallback, PassArguments, NewArray, AppendElement,
         Index, SetField, GetField, MakeClosure, GetGlobal, hostVars
<1>5. EndInit \/ ReturnFromCall \/ CallFails \/ ManualGc \/ RestoreGlobals \/ UNCHANGED vars
      => UNCHANGED <<snapshot, high_water_mark>>
  BY DEF EndInit, ReturnFromCall, CallFails, ManualGc, RestoreGlobals, vars, hostVars
<1> QED BY <1>1, <1>2, <1>3, <1>4, <1>5 DEF Next, CallFunction, CallValue

(* The state of the script that the scan relies on is an invariant.        *)
LEMMA NextSInv == SInv /\ [Next]_vars => SInv'
BY NextIInv, NextScriptState, NextSnapshotScanned DEF SInv

(* No step of the script or of the collector makes a Value dangle that     *)
(* script code can get at, whatever the features used: only a host that    *)
(* passes an Object back or restores a snapshot can.                       *)
THEOREM NothingBeginsToDangle == Spec => NothingStartsToDangle
<1>1. Init => SInv
  BY InitDInv DEF DInv
<1>2. SInv /\ [Next]_vars => [NoDangling /\ ~HandsBack => NoDangling']_vars
  BY NextNoDangling DEF DInv
<1> QED BY <1>1, <1>2, NextSInv, PTL DEF Spec, NothingStartsToDangle

\* The host neither passes a returned Object back nor restores a snapshot.
NoStaleHandles == Features \intersect {"PassResult", "Snapshot"} = {}

(* No Value that script code can get at ever dangles, whatever the program *)
(* does with arrays, fields, closures, globals and callbacks and whenever  *)
(* the collector runs, on such a host.                                     *)
THEOREM NothingDangles ==
    ASSUME NoStaleHandles
    PROVE  Spec => []NoDangling
<1>1. DInv => NoDangling
  BY DEF DInv
<1>2. NoStaleHandles
  OBVIOUS
<1>3. SInv /\ [Next]_vars => ~HandsBack
  <2> SUFFICES ASSUME SInv, [Next]_vars, running = "idle",
                      Len(stack') > Len(stack) \/ globals' # globals
               PROVE  FALSE
    BY DEF HandsBack
  <2>1. \A d \in Registers : PassArguments(d) => UNCHANGED <<stack, globals>>
    BY <1>2 DEF PassArguments, NoStaleHandles
  <2>2. ~RestoreGlobals
    BY <1>2 DEF RestoreGlobals, NoStaleHandles
  <2>3. ManualGc \/ SnapshotGlobals \/ UNCHANGED vars => UNCHANGED <<stack, globals>>
    BY DEF ManualGc, SnapshotGlobals, vars, frameVars
  <2>4. \E d \in Registers : CallFunction(d) \/ CallValue(d)
    <3>1. ~EndInit /\ ~ReturnFromCall /\ ~CallFails
      BY DEF EndInit, ReturnFromCall, CallFails
    <3>2. ~Running
      BY DEF Running
    <3>3. UNCHANGED <<stack, globals>> => FALSE
      OBVIOUS
    <3> QED BY <2>2, <2>3, <3>1, <3>2, <3>3
            DEF Next, NewPlain, HoldCallback, NewArray, AppendElement,
                Index, SetField, GetField, MakeClosure, GetGlobal, SetGlobal
  <2>5. UNCHANGED <<stack, globals>>
    BY <2>1, <2>4 DEF CallFunction, CallValue
  <2> QED BY <2>5
<1>4. DInv /\ [Next]_vars => DInv'
  BY <1>3, NextSInv, NextNoDangling DEF DInv
<1> QED BY <1>1, <1>4, InitDInv, PTL DEF Spec

-----------------------------------------------------------------------------
\* Where nothing dangles, everything live is marked and holds an object.
LEMMA LiveIsReachable ==
    ASSUME DInv
    PROVE  \A i \in Live : i \in reachable /\ objects[i].kind # "Null"
<1> DEFINE S == {i \in reachable : objects[i].kind # "Null"}
<1>1. S \in SUBSET Slots
  BY ReachableIsClosed
<1>2. \A v \in ScriptValues : v \in reachable => v \in S
  BY <1>1, ReachableIsClosed DEF DInv, SInv, NoDangling, Valid, Slots, Inline
<1>3. LiveRoots \subseteq S
  <2>1. sp \in 0 .. Len(stack)
    BY DEF sp, DInv, SInv, IInv, ScriptTypeOK
  <2>2. \A v \in LiveRoots : v \in Roots /\ v \in Slots
    BY GlobalsAssumption
       DEF LiveRoots, Roots, DInv, SInv, UnscannedGlobals, IInv, ScriptTypeOK, Slots, Inline
  <2>3. LiveRoots \subseteq ScriptValues
    <3>1. \A k \in 1 .. sp : k \in 1 .. Len(stack)
      BY <2>1
    <3> QED BY <3>1 DEF LiveRoots, ScriptValues
  <2> QED BY <1>2, <2>2, <2>3, ReachableIsClosed
<1>4. ASSUME NEW j \in S
      PROVE  CellRefs(objects[j]) \intersect Slots \subseteq S
  <2>1. j \in reachable /\ j \in Slots /\ objects[j] \in Cell
    BY <1>1 DEF DInv, SInv, IInv, HeapInv, Slots
  <2>2. ASSUME NEW r \in Rc, objects[j].rc = r \/ r \in objects[j].nested
        PROVE  items[r] \intersect Slots \subseteq S
    <3>1. items[r] \intersect Slots \subseteq reachable
      BY <2>1, <2>2, ReachableItems DEF DInv, SInv
    <3>2. items[r] \subseteq ScriptValues
      BY <2>1, <2>2 DEF ScriptValues, HeapPayloads
    <3> QED BY <1>2, <3>1, <3>2
  <2>4. objects[j].rc \in Rc \union {NoRc} /\ objects[j].nested \subseteq Rc
    BY <2>1 DEF Cell
  <2> QED BY <2>2, <2>4 DEF CellRefs
<1>5. \A i \in Live : i \in S
  BY <1>1, <1>3, <1>4 DEF Live
<1> QED BY <1>5

\* A step that ends a call, or is taken between calls, keeps what is live.
LEMMA NextKeepsLive ==
    ASSUME DInv, [Next]_vars, running' = "idle", running # "init",
           NEW i \in Live
    PROVE  /\ i \in 1 .. Len(objects')
           /\ objects'[i] = objects[i]
           /\ objects[i].rc # NoRc => items'[objects[i].rc] = items[objects[i].rc]
<1>1. i \in Slots /\ objects[i].rc \in Rc \union {NoRc}
  <2>1. i \in Slots
    BY LiveIsReachable, ReachableIsClosed
  <2>2. objects[i] \in Cell
    BY <2>1 DEF DInv, SInv, IInv, HeapInv, Slots
  <2> QED BY <2>1, <2>2 DEF Cell
<1>2. ASSUME GcCollect \/ UNCHANGED objects
      PROVE  i \in Slots' /\ objects'[i] = objects[i]
  <2>1. CASE GcCollect
    BY <2>1, LiveIsReachable, CollectKeepsReachable DEF DInv, SInv
  <2>2. CASE UNCHANGED objects
    BY <1>1, <2>2 DEF Slots
  <2> QED BY <1>2, <2>1, <2>2
<1>3. ASSUME i \in Slots', objects'[i] = objects[i], DropUnheld \/ UNCHANGED items
      PROVE  objects[i].rc # NoRc => items'[objects[i].rc] = items[objects[i].rc]
  BY <1>1, <1>3 DEF DropUnheld, HeldBy, Slots
<1>4. CASE ReturnFromCall \/ ManualGc
  <2>1. DropUnheld /\ (GcCollect \/ UNCHANGED objects)
    BY <1>4 DEF ReturnFromCall, ManualGc, CollectIfAboveThreshold, heapVars
  <2> QED BY <1>2, <1>3, <2>1 DEF Slots
<1>5. CASE CallFails \/ SnapshotGlobals \/ RestoreGlobals \/ UNCHANGED vars
  <2>1. UNCHANGED <<objects, items>>
    BY <1>5 DEF CallFails, SnapshotGlobals, RestoreGlobals, vars, heapVars
  <2> QED BY <1>2, <1>3, <2>1 DEF Slots
<1>6. ASSUME NEW d \in Registers
      PROVE  /\ ~NewPlain(d) /\ ~HoldCallback(d)
             /\ ~CallFunction(d) /\ ~CallValue(d)
             /\ \A a, b \in Registers, r \in Rc : ~NewArray(d, a, b, r)
             /\ \A a \in Registers : ~AppendElement(d, a) /\ ~Index(d, a) /\ ~GetField(d, a)
             /\ \A j \in Slots : ~SetField(j, d)
             /\ \A g \in Globals : ~MakeClosure(d, g) /\ ~GetGlobal(d, g)
  BY DEF NewPlain, HoldCallback, CallFunction, CallValue, PassArguments,
         NewArray, AppendElement, Index, SetField, GetField, MakeClosure, GetGlobal, Running
<1>7. ~EndInit /\ \A g \in Globals : ~SetGlobal(g)
  BY DEF EndInit, SetGlobal, Running
<1> QED BY <1>4, <1>5, <1>6, <1>7 DEF Next

(* A collection leaves every live slot, and the contents of its payload,   *)
(* as they were, in every state in which nothing dangles.                  *)
THEOREM CollectionKeepsLive == Spec => GcKeepsLive
<1>1. Init => SInv
  BY InitDInv DEF DInv
<1>2. SInv /\ [Next]_vars =>
          [(NoDangling /\ running' = "idle" /\ running # "init") =>
              \A i \in Live :
                  /\ i \in 1 .. Len(objects')
                  /\ objects'[i] = objects[i]
                  /\ objects[i].rc # NoRc => items'[objects[i].rc] = items[objects[i].rc]]_vars
  <2>1. ASSUME SInv, NoDangling, [Next]_vars, running' = "idle", running # "init"
        PROVE  \A i \in Live :
                  /\ i \in 1 .. Len(objects')
                  /\ objects'[i] = objects[i]
                  /\ objects[i].rc # NoRc => items'[objects[i].rc] = items[objects[i].rc]
    BY <2>1, NextKeepsLive DEF DInv
  <2> QED BY <2>1
<1> QED BY <1>1, <1>2, NextSInv, PTL DEF Spec, GcKeepsLive
=============================================================================
