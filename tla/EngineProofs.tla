---------------------------- MODULE EngineProofs ----------------------------
(***************************************************************************)
(* Code finds its own constants, for any scripts, functions, places and    *)
(* size of the cache.  What is remembered at an address is right for the   *)
(* pool that is there unless the pool is aliased; what the heap and the    *)
(* activations point at is alive.                                          *)
(***************************************************************************)
EXTENDS EngineProperties, SequenceTheorems, TLAPS

Pointers == Addresses \union {Null}
Tables == UNION {[DOMAIN Constants[c] -> Pointers] : c \in Code}
PoolType == [code : Code, migrated : BOOLEAN, functions : Tables]
Objs == Code \X Nat \X Pointers \X {"constant", "member"}
Lists == Seq(Objs)
CacheType == UNION {[S -> Lists] : S \in SUBSET Addresses}
LastType == [key : Pointers, values : Lists]
VmType ==
    [constants : Pointers, constants_raw : Pointers, values : Lists,
     values_cache : CacheType, last : LastType, heap : SUBSET Objs]
FrameType ==
    [kind : {"run", "call", "context"}, constants_raw : Pointers, values : Lists,
     constants : Pointers]

-----------------------------------------------------------------------------
(* Parts of the invariant *)

\* The functions of a pool have pools, and no others.
FunctionsAlive(ps, a) ==
    /\ DOMAIN ps[a].functions = DOMAIN Constants[ps[a].code]
    /\ \A i \in DOMAIN Constants[ps[a].code] :
          IF Constants[ps[a].code][i] \in Functions
          THEN /\ ps[a].functions[i] \in DOMAIN ps
               /\ ps[ps[a].functions[i]].code \in Functions
          ELSE ps[a].functions[i] = Null
PoolsSound(ps) ==
    /\ DOMAIN ps \subseteq Addresses
    /\ ps \in [DOMAIN ps -> PoolType]
    /\ \A a \in DOMAIN ps : FunctionsAlive(ps, a)

\* The functions of the heap have pools; lists hold objects of the heap.
HeapSound(v, ps) ==
    /\ v \in VmType
    /\ \A o \in v.heap : o[3] # Null =>
          o[3] \in DOMAIN ps /\ ps[o[3]].code \in Functions
    /\ ToSet(v.values) \subseteq v.heap
    /\ \A a \in DOMAIN v.values_cache : ToSet(v.values_cache[a]) \subseteq v.heap
    /\ v.last.key # Null =>
          /\ v.last.key \in DOMAIN v.values_cache
          /\ v.last.values = v.values_cache[v.last.key]

Conversion(ps, a) == [i \in DOMAIN Constants[ps[a].code] |-> Object(ps, a, i)]
Converted(ps, a, values) == values = Conversion(ps, a) /\ ps[a].migrated
Remembers(v, ps, al) ==
    \A a \in DOMAIN v.values_cache \intersect DOMAIN ps :
        a \notin al => Converted(ps, a, v.values_cache[a])

\* Members are in the heap once their pool was migrated to it.
Moved(v, ps, w) ==
    \A a \in DOMAIN ps : ps[a].migrated /\ a \notin w => Members(ps[a].code) \subseteq v.heap

MachineSound(v, ps, w, al) ==
    PoolsSound(ps) /\ HeapSound(v, ps) /\ Remembers(v, ps, al) /\ Moved(v, ps, w)

\* An activation has its pool and what that was converted to.
Sound(v, ps, al, a, values) ==
    /\ a \in DOMAIN ps
    /\ a = v.constants \/ \E o \in v.heap : o[3] = a
    /\ ToSet(values) \subseteq v.heap
    /\ a \notin al => Converted(ps, a, values)

HasScript(v, ps) == v.constants \in DOMAIN ps /\ ps[v.constants].code \in Scripts

\* The pool of activation k, the running one being the first.
RawAt(k) == IF k = 0 THEN vm.constants_raw ELSE frames[k].constants_raw
ValuesAt(k) == IF k = 0 THEN vm.values ELSE frames[k].values

\* What the first activation gives back to a script.
EndsWell(f) ==
    /\ f.kind = "run" => HasScript(vm, pools) /\ RawAt(Len(frames) - 1) = vm.constants
    /\ f.kind = "call" => /\ HasScript(vm, pools)
                          /\ f.constants_raw \in {Null, vm.constants}
                          /\ ToSet(f.values) \subseteq vm.heap
    /\ f.kind = "context" => /\ f.constants \in DOMAIN pools
                             /\ pools[f.constants].code \in Scripts

FramesSound ==
    /\ frames \in Seq(FrameType)
    /\ Running =>
          /\ owner \in {"engine", "script"}
          /\ \A k \in 0 .. Len(frames) - 1 : Sound(vm, pools, aliased, RawAt(k), ValuesAt(k))
          /\ \A k \in 1 .. Len(frames) - 1 : frames[k].kind = "call"
          /\ owner = "engine" => frames[Len(frames)].kind = "run"
          /\ owner = "script" => EndsWell(frames[Len(frames)])

OwnerSound ==
    /\ owner \in {"none", "engine", "script"}
    /\ owner = "none" => DOMAIN pools = {}
    /\ owner # "script" => aliased = {}
    /\ owner # "engine" => bytecode_cache = <<>>
    /\ Idle => HasScript(vm, pools) /\ vm.constants_raw \in {Null, vm.constants}

CacheSound ==
    /\ bytecode_cache \in Seq([source : Sources, constants : Addresses])
    /\ \A k \in DOMAIN bytecode_cache : bytecode_cache[k].constants \in DOMAIN pools

HandlerSound ==
    /\ handler # Null => handler \in vm.heap /\ handler[3] # Null
    /\ owner = "none" => handler = Null

IInv ==
    /\ MachineSound(vm, pools, worn, aliased)
    /\ FramesSound
    /\ OwnerSound
    /\ CacheSound
    /\ HandlerSound
-----------------------------------------------------------------------------
(* Pools *)

LEMMA ConstantsOf ==
    ASSUME NEW c \in Code
    PROVE  /\ Constants[c] \in Seq({"text", "builtin"} \union Functions)
           /\ DOMAIN Constants[c] = 1 .. Len(Constants[c])
           /\ Len(Constants[c]) \in Nat
           /\ DOMAIN Constants[c] \subseteq Nat \ {0}
           /\ \A i \in DOMAIN Constants[c] : Constants[c][i] \in {"text", "builtin"} \union Functions
<1>1. Constants[c] \in Seq({"text", "builtin"} \union Functions)
  BY ConstantsAssumption
<1>2. QED
  BY <1>1, LenProperties, ElementOfSeq

LEMMA FunctionsHaveNone ==
    ASSUME NEW f \in Functions, NEW i \in DOMAIN Constants[f]
    PROVE  f \in Code /\ Constants[f][i] \notin Functions
BY ConstantsAssumption DEF Code

LEMMA PoolFacts ==
    ASSUME NEW ps, PoolsSound(ps), NEW a \in DOMAIN ps
    PROVE  /\ a \in Addresses /\ a # Null
           /\ ps[a].code \in Code /\ ps[a].migrated \in BOOLEAN
           /\ ps[a] = [code |-> ps[a].code, migrated |-> ps[a].migrated, functions |-> ps[a].functions]
           /\ DOMAIN ps[a].functions = DOMAIN Constants[ps[a].code]
           /\ \A i \in DOMAIN Constants[ps[a].code] : ps[a].functions[i] \in Pointers
<1>1. ps[a] \in PoolType /\ FunctionsAlive(ps, a) /\ a \in Addresses
  BY DEF PoolsSound
<1>2. ps[a].functions \in Tables
  BY <1>1 DEF PoolType
<1>3. \A i \in DOMAIN ps[a].functions : ps[a].functions[i] \in Pointers
  BY <1>2 DEF Tables
<1>4. QED
  BY <1>1, <1>3, ConstantsAssumption DEF PoolType, FunctionsAlive

LEMMA ConversionType ==
    ASSUME NEW ps, PoolsSound(ps), NEW a \in DOMAIN ps
    PROVE  /\ Conversion(ps, a) \in Lists
           /\ ToSet(Conversion(ps, a)) = Objects(ps, a)
           /\ Objects(ps, a) \subseteq Objs
<1>1. \A i \in DOMAIN Constants[ps[a].code] : Object(ps, a, i) \in Objs
  BY PoolFacts, ConstantsOf DEF Object, Objs
<1>2. DOMAIN Constants[ps[a].code] = 1 .. Len(Constants[ps[a].code]) /\ Len(Constants[ps[a].code]) \in Nat
  BY PoolFacts, ConstantsOf
<1>3. Conversion(ps, a) \in [1 .. Len(Constants[ps[a].code]) -> Objs]
  BY <1>1, <1>2 DEF Conversion
<1>4. Conversion(ps, a) \in Lists
  BY <1>2, <1>3, SeqDef DEF Lists
<1>5. QED
  BY <1>1, <1>4 DEF Conversion, ToSet, Objects

LEMMA MembersType ==
    ASSUME NEW c \in Code
    PROVE  Members(c) \subseteq Objs
BY ConstantsOf DEF Members, Member, Objs, Pointers

-----------------------------------------------------------------------------
(* What happens to pools *)

\* The pools at S are kept; they may be migrated.
Keeps(ps, qs, S) ==
    \A a \in S \intersect DOMAIN ps :
        /\ a \in DOMAIN qs
        /\ qs[a].code = ps[a].code
        /\ qs[a].functions = ps[a].functions
        /\ ps[a].migrated => qs[a].migrated

LEMMA KeptConversion ==
    ASSUME NEW ps, NEW qs, NEW S, Keeps(ps, qs, S), NEW a \in S \intersect DOMAIN ps
    PROVE  /\ Conversion(qs, a) = Conversion(ps, a)
           /\ Objects(qs, a) = Objects(ps, a)
           /\ \A values : Converted(ps, a, values) => Converted(qs, a, values)
<1>1. qs[a].code = ps[a].code /\ qs[a].functions = ps[a].functions
      /\ (ps[a].migrated => qs[a].migrated)
  BY DEF Keeps
<1>2. \A i : Object(qs, a, i) = Object(ps, a, i)
  BY <1>1 DEF Object
<1>3. Conversion(qs, a) = Conversion(ps, a) /\ Objects(qs, a) = Objects(ps, a)
  BY <1>1, <1>2 DEF Conversion, Objects
<1>4. QED
  BY <1>1, <1>3 DEF Converted

LEMMA MigratedPools ==
    ASSUME NEW ps, PoolsSound(ps), NEW a \in DOMAIN ps
    PROVE  /\ PoolsSound(Migrated(ps, a))
           /\ DOMAIN Migrated(ps, a) = DOMAIN ps
           /\ Keeps(ps, Migrated(ps, a), DOMAIN ps)
           /\ Migrated(ps, a)[a].migrated
           /\ \A b \in DOMAIN ps : b # a => Migrated(ps, a)[b] = ps[b]
<1> DEFINE qs == Migrated(ps, a)
<1>1. DOMAIN qs = DOMAIN ps /\ \A b \in DOMAIN ps : b # a => qs[b] = ps[b]
  BY DEF Migrated, PoolsSound
<1>2. ps[a] \in PoolType /\ ps \in [DOMAIN ps -> PoolType]
  BY DEF PoolsSound
<1>3. qs[a] \in PoolType /\ qs[a].code = ps[a].code /\ qs[a].functions = ps[a].functions /\ qs[a].migrated
  BY <1>2 DEF Migrated, PoolType
<1>4. qs \in [DOMAIN ps -> PoolType]
  BY <1>2 DEF Migrated, PoolType
<1>5. \A b \in DOMAIN ps : qs[b].code = ps[b].code /\ qs[b].functions = ps[b].functions
  BY <1>1, <1>3
<1>6. \A b \in DOMAIN ps : FunctionsAlive(qs, b)
  <2> SUFFICES ASSUME NEW b \in DOMAIN ps PROVE FunctionsAlive(qs, b)
    OBVIOUS
  <2>1. FunctionsAlive(ps, b)
    BY DEF PoolsSound
  <2>2. QED
    BY <1>1, <1>5, <2>1 DEF FunctionsAlive
<1>7. PoolsSound(qs)
  BY <1>1, <1>4, <1>6 DEF PoolsSound
<1>8. Keeps(ps, qs, DOMAIN ps)
  BY <1>1, <1>3, <1>5 DEF Keeps
<1>9. QED
  BY <1>1, <1>3, <1>7, <1>8

\* What a release keeps.
Roots(cache, v, fs) ==
    {cache[k].constants : k \in DOMAIN cache} \union {v.constants}
        \union {fs[k].constants : k \in DOMAIN fs} \union {o[3] : o \in v.heap}

LEMMA ReleasedPools ==
    ASSUME NEW ps, PoolsSound(ps), NEW cache, NEW v, NEW fs
    PROVE  LET qs == Released(ps, cache, v, fs) IN
           /\ PoolsSound(qs)
           /\ DOMAIN qs \subseteq DOMAIN ps
           /\ \A a \in DOMAIN qs : qs[a] = ps[a]
           /\ Roots(cache, v, fs) \intersect DOMAIN ps \subseteq DOMAIN qs
           /\ Keeps(ps, qs, Roots(cache, v, fs))
           /\ \A a \in DOMAIN qs : a \in Roots(cache, v, fs) \/
                  \E r \in Roots(cache, v, fs) \intersect DOMAIN ps :
                      \E i \in DOMAIN ps[r].functions : ps[r].functions[i] = a
<1> DEFINE qs == Released(ps, cache, v, fs)
           roots == Roots(cache, v, fs)
           nested == {a \in DOMAIN ps : \E r \in roots \intersect DOMAIN ps :
                         \E i \in DOMAIN ps[r].functions : ps[r].functions[i] = a}
<1>1. qs = [a \in (DOMAIN ps \intersect roots) \union nested |-> ps[a]]
  BY DEF Released, Roots
<1>2. /\ DOMAIN qs = (DOMAIN ps \intersect roots) \union nested
      /\ \A a \in DOMAIN qs : qs[a] = ps[a]
  BY <1>1
<1>3. DOMAIN qs \subseteq DOMAIN ps /\ roots \intersect DOMAIN ps \subseteq DOMAIN qs
  BY <1>2
<1>4. ASSUME NEW a \in DOMAIN qs PROVE FunctionsAlive(qs, a)
  <2>1. FunctionsAlive(ps, a) /\ qs[a] = ps[a] /\ ps[a].code \in Code
    BY <1>2, <1>3, PoolFacts DEF PoolsSound
  <2>2. ASSUME NEW i \in DOMAIN Constants[ps[a].code], Constants[ps[a].code][i] \in Functions
        PROVE  ps[a].functions[i] \in DOMAIN qs
    <3>1. CASE a \in roots
      BY <1>2, <1>3, <2>1, <2>2, <3>1 DEF FunctionsAlive
    <3>2. CASE a \in nested
      <4>1. PICK r \in roots \intersect DOMAIN ps :
                \E j \in DOMAIN ps[r].functions : ps[r].functions[j] = a
        BY <3>2
      <4>2. PICK j \in DOMAIN ps[r].functions : ps[r].functions[j] = a
        BY <4>1
      <4>3. FunctionsAlive(ps, r) /\ a # Null
        BY <1>3, PoolFacts DEF PoolsSound
      <4>4. ps[a].code \in Functions
        BY <4>2, <4>3 DEF FunctionsAlive
      <4>5. QED
        BY <2>2, <4>4, FunctionsHaveNone
    <3>3. QED
      BY <1>2, <3>1, <3>2
  <2>3. QED
    BY <1>2, <2>1, <2>2 DEF FunctionsAlive
<1>5. PoolsSound(qs)
  <2>1. qs \in [DOMAIN qs -> PoolType]
    BY <1>1, <1>2, <1>3 DEF PoolsSound
  <2>2. QED
    BY <1>3, <1>4, <2>1 DEF PoolsSound
<1>6. Keeps(ps, qs, roots)
  BY <1>2, <1>3 DEF Keeps
<1>7. QED
  BY <1>2, <1>3, <1>5, <1>6

LEMMA CompiledPools ==
    ASSUME PoolsSound(pools), NEW c \in Code, NEW at \in Places(c)
    PROVE  LET ps == Compiled(c, at) IN
           /\ PoolsSound(ps)
           /\ DOMAIN pools \subseteq DOMAIN ps
           /\ Keeps(pools, ps, DOMAIN pools)
           /\ \A a \in DOMAIN pools : ps[a] = pools[a]
           /\ \A a \in DOMAIN ps \ DOMAIN pools : ~ps[a].migrated
           /\ at[0] \in DOMAIN ps \ DOMAIN pools
           /\ ps[at[0]].code = c
<1> DEFINE ps == Compiled(c, at)
           fi == FunctionsIn(c)
           new == {at[i] : i \in DOMAIN at}
<1>1. /\ DOMAIN at = {0} \union fi
      /\ \A i \in DOMAIN at : at[i] \in Addresses /\ at[i] \notin DOMAIN pools
      /\ \A i, j \in DOMAIN at : at[i] = at[j] => i = j
  BY DEF Places
<1>2. fi \subseteq DOMAIN Constants[c] /\ 0 \notin fi
  BY ConstantsOf DEF FunctionsIn
<1>3. DOMAIN ps = DOMAIN pools \union new
  BY DEF Compiled
<1>4. \A a \in DOMAIN pools : ps[a] = pools[a]
  BY DEF Compiled
<1>5. ps[at[0]] = Pool(c, at)
  BY <1>1 DEF Compiled
<1>6. ASSUME NEW i \in fi PROVE ps[at[i]] = Pool(Constants[c][i], at) /\ Constants[c][i] \in Functions
  <2>1. at[i] # at[0] /\ at[i] \notin DOMAIN pools /\ at[i] \in DOMAIN ps
    BY <1>1, <1>2, <1>3
  <2>2. (CHOOSE j \in fi : at[j] = at[i]) = i
    BY <1>1
  <2>3. ps[at[i]] = Pool(Constants[c][CHOOSE j \in fi : at[j] = at[i]], at)
    BY <1>3, <2>1 DEF Compiled
  <2>4. QED
    BY <2>2, <2>3 DEF FunctionsIn
<1>7. ASSUME NEW d \in Code, FunctionsIn(d) \subseteq fi
      PROVE  Pool(d, at) \in PoolType
  <2>1. \A i \in FunctionsIn(d) : at[i] \in Pointers
    BY <1>1, <1>7 DEF Pointers
  <2>2. Pool(d, at).functions \in [DOMAIN Constants[d] -> Pointers]
    BY <2>1 DEF Pool, Pointers
  <2>3. Pool(d, at).functions \in Tables
    BY <2>2 DEF Tables
  <2>4. QED
    BY <2>3 DEF Pool, PoolType
<1>8. \A f \in Functions : f \in Code /\ FunctionsIn(f) = {}
  BY FunctionsHaveNone DEF FunctionsIn, Code
<1>9. ps \in [DOMAIN ps -> PoolType]
  <2>1. ASSUME NEW a \in DOMAIN ps PROVE ps[a] \in PoolType
    BY <1>1, <1>3, <1>4, <1>5, <1>6, <1>7, <1>8 DEF PoolsSound
  <2>2. QED
    BY <2>1 DEF Compiled
<1>10. ASSUME NEW a \in DOMAIN ps PROVE FunctionsAlive(ps, a)
  <2>1. CASE a \in DOMAIN pools
    <3>1. FunctionsAlive(pools, a) /\ ps[a] = pools[a]
      BY <1>4, <2>1 DEF PoolsSound
    <3>2. QED
      BY <1>3, <1>4, <3>1 DEF FunctionsAlive
  <2>2. CASE a = at[0]
    <3>1. ps[a].code = c /\ ps[a].functions =
              [i \in DOMAIN Constants[c] |-> IF i \in fi THEN at[i] ELSE Null]
      BY <1>5, <2>2 DEF Pool
    <3>2. ASSUME NEW i \in fi PROVE at[i] \in DOMAIN ps /\ ps[at[i]].code = Constants[c][i]
      <4>1. i \in DOMAIN at /\ ps[at[i]] = Pool(Constants[c][i], at)
        BY <1>1, <1>6
      <4>2. QED
        BY <1>3, <4>1 DEF Pool
    <3>3. QED
      BY <3>1, <3>2 DEF FunctionsAlive, FunctionsIn
  <2>3. ASSUME NEW i \in fi, a = at[i] PROVE FunctionsAlive(ps, a)
    <3>1. ps[a] = Pool(Constants[c][i], at) /\ FunctionsIn(Constants[c][i]) = {}
      BY <1>6, <1>8, <2>3
    <3>2. QED
      BY <3>1 DEF Pool, FunctionsAlive, FunctionsIn
  <2>4. QED
    BY <1>1, <1>3, <2>1, <2>2, <2>3
<1>11. DOMAIN ps \subseteq Addresses
  BY <1>1, <1>3 DEF PoolsSound
<1>12. \A a \in DOMAIN ps \ DOMAIN pools : ~ps[a].migrated
  <2>1. \A d : ~Pool(d, at).migrated
    BY DEF Pool
  <2>2. ASSUME NEW i \in DOMAIN at PROVE ~ps[at[i]].migrated
    BY <1>1, <1>5, <1>6, <2>1
  <2>3. QED
    BY <1>3, <2>2
<1>13. PoolsSound(ps)
  BY <1>9, <1>10, <1>11 DEF PoolsSound
<1>14. Keeps(pools, ps, DOMAIN pools)
  BY <1>3, <1>4 DEF Keeps
<1>15. at[0] \in DOMAIN ps \ DOMAIN pools /\ ps[at[0]].code = c
  BY <1>1, <1>3, <1>5 DEF Pool
<1>16. QED
  BY <1>3, <1>4, <1>12, <1>13, <1>14, <1>15
-----------------------------------------------------------------------------
(* What happens to the machine *)

LEMMA MembersHoldNothing ==
    ASSUME NEW c \in Code, NEW o \in Members(c)
    PROVE  o[3] = Null /\ o \in Objs
BY MembersType DEF Members, Member

LEMMA ObjectsAlive ==
    ASSUME NEW ps, PoolsSound(ps), NEW a \in DOMAIN ps, NEW o \in Objects(ps, a), o[3] # Null
    PROVE  o[3] \in DOMAIN ps /\ ps[o[3]].code \in Functions
<1>1. PICK i \in DOMAIN Constants[ps[a].code] : o = Object(ps, a, i)
  BY DEF Objects
<1>2. o[3] = ps[a].functions[i] /\ FunctionsAlive(ps, a)
  BY <1>1 DEF Object, PoolsSound
<1>3. QED
  BY <1>1, <1>2 DEF FunctionsAlive

LEMMA Remembering ==
    ASSUME NEW v, NEW ps, NEW w, NEW al, MachineSound(v, ps, w, al),
           NEW a \in DOMAIN ps, Remembered(v, a)
    PROVE  LET v1 == Preconvert(v, ps, a) IN
           /\ MachineSound(v1, ps, w, al)
           /\ v1.heap = v.heap /\ v1.constants = v.constants /\ v1.constants_raw = a
           /\ a \notin al => Converted(ps, a, v1.values)
<1> DEFINE v1 == Preconvert(v, ps, a)
           values == v.values_cache[a]
<1>1. v \in VmType /\ a \in Pointers /\ a # Null
  BY PoolFacts DEF MachineSound, HeapSound, Pointers
<1>2. a \in DOMAIN v.values_cache /\ (a = v.last.key => v.last.values = values)
  BY <1>1 DEF MachineSound, HeapSound, Remembered
<1>3. v1 = [v EXCEPT !.constants_raw = a, !.values = values, !.last = [key |-> a, values |-> values]]
  BY <1>2 DEF Preconvert, Remembered
<1>4. values \in Lists
  BY <1>1, <1>2 DEF VmType, CacheType
<1>5. v1 \in VmType
  <2>1. [key |-> a, values |-> values] \in LastType
    BY <1>1, <1>4 DEF LastType
  <2>2. QED
    BY <1>1, <1>3, <1>4, <2>1 DEF VmType
<1>6. /\ v1.heap = v.heap /\ v1.constants = v.constants /\ v1.constants_raw = a
      /\ v1.values = values /\ v1.values_cache = v.values_cache
      /\ v1.last.key = a /\ v1.last.values = values
  BY <1>1, <1>3 DEF VmType
<1>7. HeapSound(v1, ps)
  BY <1>2, <1>5, <1>6 DEF MachineSound, HeapSound
<1>8. Remembers(v1, ps, al) /\ Moved(v1, ps, w)
  BY <1>6 DEF MachineSound, Remembers, Moved
<1>9. a \notin al => Converted(ps, a, v1.values)
  BY <1>2, <1>6 DEF MachineSound, Remembers
<1>10. QED
  BY <1>6, <1>7, <1>8, <1>9 DEF MachineSound

LEMMA Converting ==
    ASSUME NEW v, NEW ps, NEW w, NEW al, MachineSound(v, ps, w, al),
           NEW a \in DOMAIN ps, ~Remembered(v, a)
    PROVE  LET v1 == Preconvert(v, ps, a) qs == Migrated(ps, a) IN
           /\ MachineSound(v1, qs, w, al)
           /\ v.heap \subseteq v1.heap /\ v1.constants = v.constants /\ v1.constants_raw = a
           /\ Converted(qs, a, v1.values)
<1> DEFINE v1 == Preconvert(v, ps, a)
           qs == Migrated(ps, a)
           values == Conversion(ps, a)
           heap == v.heap \union Objects(ps, a) \union MigratedNow(ps, a)
<1>0. PoolsSound(ps) /\ v \in VmType
  BY DEF MachineSound, HeapSound
<1>1. /\ a \in Pointers /\ a \in Addresses /\ a # Null /\ ps[a].code \in Code
      /\ values \in Lists /\ ToSet(values) = Objects(ps, a) /\ Objects(ps, a) \subseteq Objs
  BY <1>0, PoolFacts, ConversionType DEF Pointers
<1>2. MigratedNow(ps, a) \subseteq Members(ps[a].code)
  BY DEF MigratedNow
<1>3. /\ PoolsSound(qs) /\ DOMAIN qs = DOMAIN ps /\ Keeps(ps, qs, DOMAIN ps)
      /\ qs[a].migrated /\ \A b \in DOMAIN ps : b # a => qs[b] = ps[b]
  BY <1>0, MigratedPools
<1>4. a # v.last.key /\ a \notin DOMAIN v.values_cache
  BY DEF Remembered
<1> DEFINE cache == [k \in DOMAIN v.values_cache \union {a} |-> IF k = a THEN values ELSE v.values_cache[k]]
<1>5. v1 = [v EXCEPT !.constants_raw = a, !.values = values,
                     !.last = [key |-> a, values |-> values],
                     !.values_cache = cache, !.heap = heap]
  <2>1. values = [i \in DOMAIN Constants[ps[a].code] |-> Object(ps, a, i)]
    BY DEF Conversion
  <2>2. QED
    BY <1>0, <1>4, <2>1 DEF Preconvert, Remembered, VmType
<1>6. heap \subseteq Objs
  BY <1>0, <1>1, <1>2, MembersType DEF VmType
<1>7. cache \in CacheType
  <2>1. PICK S \in SUBSET Addresses : v.values_cache \in [S -> Lists]
    BY <1>0 DEF VmType, CacheType
  <2>2. cache \in [S \union {a} -> Lists]
    BY <1>1, <2>1
  <2>3. QED
    BY <1>1, <2>2 DEF CacheType
<1>8. v1 \in VmType
  <2>1. [key |-> a, values |-> values] \in LastType
    BY <1>1 DEF LastType
  <2>2. QED
    BY <1>0, <1>1, <1>5, <1>6, <1>7, <2>1 DEF VmType
<1>9. /\ v1.heap = heap /\ v1.constants = v.constants /\ v1.constants_raw = a
      /\ v1.values = values /\ v1.values_cache = cache
      /\ v1.last.key = a /\ v1.last.values = values
  BY <1>0, <1>5 DEF VmType
<1>10. HeapSound(v1, qs)
  <2>1. ASSUME NEW o \in heap, o[3] # Null PROVE o[3] \in DOMAIN ps /\ ps[o[3]].code \in Functions
    BY <1>0, <1>1, <1>2, <2>1, ObjectsAlive, MembersHoldNothing DEF MachineSound, HeapSound
  <2>2. ASSUME NEW o \in heap, o[3] # Null PROVE o[3] \in DOMAIN qs /\ qs[o[3]].code \in Functions
    BY <1>3, <2>1, <2>2 DEF Keeps
  <2>3. \A b \in DOMAIN cache : ToSet(cache[b]) \subseteq heap
    BY <1>1 DEF MachineSound, HeapSound
  <2>4. QED
    BY <1>1, <1>8, <1>9, <2>2, <2>3 DEF HeapSound
<1>11. Converted(qs, a, values)
  BY <1>3, KeptConversion DEF Converted
<1>12. Remembers(v1, qs, al)
  <2>1. ASSUME NEW b \in DOMAIN cache \intersect DOMAIN qs, b \notin al
        PROVE  Converted(qs, b, cache[b])
    <3>1. CASE b = a
      BY <1>11, <3>1
    <3>2. CASE b # a
      <4>1. Converted(ps, b, v.values_cache[b]) /\ cache[b] = v.values_cache[b]
        BY <1>3, <2>1, <3>2 DEF MachineSound, Remembers
      <4>2. QED
        BY <1>3, <2>1, <4>1, KeptConversion
    <3>3. QED
      BY <3>1, <3>2
  <2>2. QED
    BY <1>9, <2>1 DEF Remembers
<1>13. Moved(v1, qs, w)
  <2>1. ASSUME NEW b \in DOMAIN qs, qs[b].migrated, b \notin w
        PROVE  Members(qs[b].code) \subseteq heap
    <3>1. CASE b = a /\ ~ps[a].migrated
      BY <1>3, <3>1 DEF MigratedNow, Keeps
    <3>2. CASE ps[b].migrated
      BY <1>3, <2>1, <3>2 DEF MachineSound, Moved, Keeps
    <3>3. QED
      BY <1>3, <2>1, <3>1, <3>2
  <2>2. QED
    BY <1>9, <2>1 DEF Moved
<1>14. QED
  BY <1>3, <1>9, <1>10, <1>11, <1>12, <1>13 DEF MachineSound

LEMMA PreconvertSound ==
    ASSUME NEW v, NEW ps, NEW w, NEW al, MachineSound(v, ps, w, al), NEW a \in DOMAIN ps
    PROVE  LET v1 == Preconvert(v, ps, a) qs == Preconverted(v, ps, a) IN
           /\ MachineSound(v1, qs, w, al)
           /\ v.heap \subseteq v1.heap /\ v1.constants = v.constants
           /\ v1.constants_raw = a /\ ToSet(v1.values) \subseteq v1.heap
           /\ DOMAIN qs = DOMAIN ps /\ Keeps(ps, qs, DOMAIN ps)
           /\ a \notin al => Converted(qs, a, v1.values)
<1>0. PoolsSound(ps)
  BY DEF MachineSound
<1>1. CASE Remembered(v, a)
  <2>1. Preconverted(v, ps, a) = ps
    BY <1>1 DEF Preconverted
  <2>2. Keeps(ps, ps, DOMAIN ps)
    BY DEF Keeps
  <2> DEFINE v1 == Preconvert(v, ps, a)
  <2>3. /\ MachineSound(v1, ps, w, al)
        /\ v1.heap = v.heap /\ v1.constants = v.constants /\ v1.constants_raw = a
        /\ a \notin al => Converted(ps, a, v1.values)
    BY <1>1, Remembering
  <2>4. ToSet(v1.values) \subseteq v1.heap
    BY <2>3 DEF MachineSound, HeapSound
  <2>5. QED
    BY <2>1, <2>2, <2>3, <2>4
<1>2. CASE ~Remembered(v, a)
  <2>1. Preconverted(v, ps, a) = Migrated(ps, a)
    BY <1>2 DEF Preconverted
  <2> DEFINE v1 == Preconvert(v, ps, a)
  <2>2. /\ MachineSound(v1, Migrated(ps, a), w, al)
        /\ v.heap \subseteq v1.heap /\ v1.constants = v.constants /\ v1.constants_raw = a
        /\ Converted(Migrated(ps, a), a, v1.values)
    BY <1>2, Converting
  <2>3. ToSet(v1.values) \subseteq v1.heap
    BY <2>2 DEF MachineSound, HeapSound
  <2>4. QED
    BY <1>0, <2>1, <2>2, <2>3, MigratedPools
<1>3. QED
  BY <1>1, <1>2
LEMMA ReleasedSound ==
    ASSUME NEW v, NEW ps, NEW w, NEW al, MachineSound(v, ps, w, al), NEW cache, NEW fs
    PROVE  MachineSound(v, Released(ps, cache, v, fs), w, al)
<1> DEFINE qs == Released(ps, cache, v, fs)
<1>1. /\ PoolsSound(qs) /\ DOMAIN qs \subseteq DOMAIN ps /\ \A a \in DOMAIN qs : qs[a] = ps[a]
      /\ Roots(cache, v, fs) \intersect DOMAIN ps \subseteq DOMAIN qs
  BY ReleasedPools DEF MachineSound
<1>2. HeapSound(v, qs)
  BY <1>1 DEF MachineSound, HeapSound, Roots
<1>3. Keeps(ps, qs, DOMAIN qs)
  BY <1>1 DEF Keeps
<1>4. Remembers(v, qs, al)
  BY <1>1, <1>3, KeptConversion DEF MachineSound, Remembers
<1>5. Moved(v, qs, w)
  BY <1>1 DEF MachineSound, Moved
<1>6. QED
  BY <1>1, <1>2, <1>4, <1>5 DEF MachineSound

LEMMA BeginSound ==
    ASSUME NEW v, NEW ps, NEW w, NEW al, MachineSound(v, ps, w, al), NEW a \in DOMAIN ps,
           NEW cache, NEW fs
    PROVE  LET v1 == Preconvert(v, ps, a)
               qs == Released(Preconverted(v, ps, a), cache, v1, fs) IN
           /\ MachineSound(v1, qs, w, al)
           /\ v.heap \subseteq v1.heap /\ v1.constants = v.constants
           /\ Keeps(ps, qs, Roots(cache, v1, fs))
           /\ a = v.constants \/ (\E o \in v.heap : o[3] = a) =>
                  Sound(v1, qs, al, v1.constants_raw, v1.values)
           /\ v1.constants_raw = a
<1> DEFINE v1 == Preconvert(v, ps, a)
           p1 == Preconverted(v, ps, a)
           qs == Released(p1, cache, v1, fs)
           roots == Roots(cache, v1, fs)
<1>1. /\ MachineSound(v1, p1, w, al)
      /\ v.heap \subseteq v1.heap /\ v1.constants = v.constants
      /\ v1.constants_raw = a /\ ToSet(v1.values) \subseteq v1.heap
      /\ DOMAIN p1 = DOMAIN ps /\ Keeps(ps, p1, DOMAIN ps)
      /\ a \notin al => Converted(p1, a, v1.values)
  BY PreconvertSound
<1>2. MachineSound(v1, qs, w, al)
  BY <1>1, ReleasedSound
<1>3. Keeps(p1, qs, roots) /\ PoolsSound(p1)
  BY <1>1, ReleasedPools DEF MachineSound
<1>4. Keeps(ps, qs, roots)
  BY <1>1, <1>3 DEF Keeps
<1>5. ASSUME a = v.constants \/ \E o \in v.heap : o[3] = a
      PROVE  Sound(v1, qs, al, a, v1.values)
  <2>1. a \in roots /\ (a = v1.constants \/ \E o \in v1.heap : o[3] = a)
    BY <1>1, <1>5 DEF Roots
  <2>2. a \in DOMAIN qs
    BY <1>1, <1>3, <2>1 DEF Keeps
  <2>3. a \notin al => Converted(qs, a, v1.values)
    BY <1>1, <1>3, <2>1, KeptConversion
  <2>4. QED
    BY <1>1, <2>1, <2>2, <2>3 DEF Sound
<1>6. QED
  BY <1>1, <1>2, <1>4, <1>5

LEMMA SoundKept ==
    ASSUME NEW v, NEW ps, NEW al, NEW b, NEW values, Sound(v, ps, al, b, values),
           NEW v1, NEW qs, NEW cache, NEW fs, Keeps(ps, qs, Roots(cache, v1, fs)),
           v.heap \subseteq v1.heap, v1.constants = v.constants
    PROVE  Sound(v1, qs, al, b, values)
<1>1. b \in Roots(cache, v1, fs) /\ (b = v1.constants \/ \E o \in v1.heap : o[3] = b)
  BY DEF Sound, Roots
<1>2. b \in DOMAIN qs
  BY <1>1 DEF Sound, Keeps
<1>3. b \notin al => Converted(qs, b, values)
  BY <1>1, KeptConversion DEF Sound
<1>4. QED
  BY <1>1, <1>2, <1>3 DEF Sound

LEMMA ScriptKept ==
    ASSUME NEW v, NEW ps, HasScript(v, ps), NEW v1, NEW qs, NEW cache, NEW fs,
           Keeps(ps, qs, Roots(cache, v1, fs)), v1.constants = v.constants
    PROVE  HasScript(v1, qs)
BY DEF HasScript, Roots, Keeps

LEMMA CacheKept ==
    ASSUME NEW cache \in Seq([source : Sources, constants : Addresses]), NEW ps, NEW qs, NEW v, NEW fs,
           \A k \in DOMAIN cache : cache[k].constants \in DOMAIN ps,
           Keeps(ps, qs, Roots(cache, v, fs))
    PROVE  \A k \in DOMAIN cache : cache[k].constants \in DOMAIN qs
BY DEF Roots, Keeps

-----------------------------------------------------------------------------
(* Activations *)

LEMMA Pushed ==
    ASSUME NEW fs \in Seq(FrameType), NEW f \in FrameType
    PROVE  LET gs == <<f>> \o fs IN
           /\ gs \in Seq(FrameType) /\ gs # <<>> /\ Len(gs) = Len(fs) + 1 /\ Len(fs) \in Nat
           /\ DOMAIN gs = 1 .. Len(gs)
           /\ gs[1] = f /\ \A k \in 1 .. Len(fs) : gs[k + 1] = fs[k]
<1>1. <<f>> \in Seq(FrameType) /\ Len(<<f>>) = 1 /\ <<f>>[1] = f
  OBVIOUS
<1>2. Len(fs) \in Nat
  BY LenProperties
<1>3. /\ <<f>> \o fs \in Seq(FrameType)
      /\ Len(<<f>> \o fs) = 1 + Len(fs)
      /\ \A i \in 1 .. 1 + Len(fs) : (<<f>> \o fs)[i] = IF i <= 1 THEN <<f>>[i] ELSE fs[i - 1]
  BY <1>1, ConcatProperties
<1>4. \A k \in 1 .. Len(fs) : k + 1 \in 1 .. 1 + Len(fs) /\ ~(k + 1 <= 1) /\ (k + 1) - 1 = k
  BY <1>2
<1>5. <<f>> \o fs # <<>>
  BY <1>2, <1>3, EmptySeq
<1>6. QED
  BY <1>1, <1>2, <1>3, <1>4, <1>5, LenProperties

LEMMA Popped ==
    ASSUME NEW fs \in Seq(FrameType), fs # <<>>
    PROVE  /\ Len(fs) \in Nat \ {0} /\ fs[1] \in FrameType /\ Head(fs) = fs[1]
           /\ Tail(fs) \in Seq(FrameType) /\ Len(Tail(fs)) = Len(fs) - 1
           /\ \A k \in 1 .. Len(fs) - 1 : Tail(fs)[k] = fs[k + 1]
           /\ Tail(fs) = <<>> <=> Len(fs) = 1
           /\ DOMAIN fs = 1 .. Len(fs) /\ DOMAIN Tail(fs) = 1 .. Len(fs) - 1
<1>1. Len(fs) \in Nat \ {0} /\ DOMAIN fs = 1 .. Len(fs)
  BY EmptySeq, LenProperties
<1>2. /\ Tail(fs) \in Seq(FrameType) /\ Len(Tail(fs)) = Len(fs) - 1
      /\ \A k \in 1 .. Len(fs) - 1 : Tail(fs)[k] = fs[k + 1]
  BY HeadTailProperties
<1>3. Tail(fs) = <<>> <=> Len(fs) = 1
  <2>1. Tail(fs) # <<>> => Len(Tail(fs)) \in Nat \ {0}
    BY <1>2, EmptySeq
  <2>2. Tail(fs) = <<>> => Len(Tail(fs)) = 0
    BY EmptySeq
  <2>3. QED
    BY <1>1, <1>2, <2>1, <2>2
<1>4. Head(fs) = fs[1] /\ fs[1] \in FrameType
  BY <1>1, ElementOfSeq
<1>5. QED
  BY <1>1, <1>2, <1>3, <1>4, LenProperties

LEMMA FrameTyped ==
    ASSUME NEW v \in VmType, NEW kind \in {"run", "call", "context"}
    PROVE  /\ Frame(kind, v) \in FrameType
           /\ Frame(kind, v).kind = kind
           /\ Frame(kind, v).constants_raw = v.constants_raw
           /\ Frame(kind, v).values = v.values
           /\ kind = "context" => Frame(kind, v).constants = v.constants
BY DEF Frame, FrameType, VmType, Pointers

-----------------------------------------------------------------------------
(* The invariant is inductive *)

LEMMA InitSound == Init => IInv
<1> SUFFICES ASSUME Init PROVE IInv
  OBVIOUS
<1>1. DOMAIN pools = {} /\ pools \in [{} -> PoolType]
  BY DEF Init, NoPools
<1>2. PoolsSound(pools)
  BY <1>1 DEF PoolsSound
<1>3. vm = NewVm /\ vm \in VmType /\ DOMAIN vm.values_cache = {}
  <2>1. Nothing \in [{} -> Lists] /\ DOMAIN Nothing = {}
    BY DEF Nothing
  <2>2. Nothing \in CacheType /\ <<>> \in Lists
    BY <2>1 DEF CacheType, Lists
  <2>3. NoLast \in LastType
    BY <2>2 DEF NoLast, LastType, Pointers
  <2>4. QED
    BY <2>1, <2>2, <2>3 DEF Init, NewVm, VmType, Pointers
<1>4. HeapSound(vm, pools)
  BY <1>3 DEF NewVm, NoLast, HeapSound, ToSet
<1>5. MachineSound(vm, pools, worn, aliased)
  BY <1>1, <1>2, <1>4 DEF MachineSound, Remembers, Moved
<1>6. FramesSound
  BY DEF Init, FramesSound, Running
<1>7. OwnerSound /\ CacheSound /\ HandlerSound
  BY <1>1 DEF Init, OwnerSound, CacheSound, HandlerSound, Idle
<1>8. QED
  BY <1>5, <1>6, <1>7 DEF IInv

\* A call, and the top-level code of a script.
LEMMA EnterSound ==
    ASSUME IInv, NEW kind \in {"run", "call"}, NEW a \in DOMAIN pools,
           a = vm.constants \/ \E o \in vm.heap : o[3] = a,
           Running => kind = "call",
           ~Running => Idle,
           kind = "run" => a = vm.constants,
           Begin(kind, vm, pools, a, bytecode_cache),
           UNCHANGED <<handler, owner, worn, aliased>>
    PROVE  IInv'
<1> DEFINE v1 == Preconvert(vm, pools, a)
           f == Frame(kind, vm)
           fs == <<f>> \o frames
           qs == Released(Preconverted(vm, pools, a), bytecode_cache, v1, fs)
<1>1. vm' = v1 /\ frames' = fs /\ pools' = qs /\ bytecode_cache' = bytecode_cache
  BY DEF Begin
<1>2. /\ MachineSound(vm, pools, worn, aliased) /\ FramesSound /\ OwnerSound
      /\ CacheSound /\ HandlerSound
  BY DEF IInv
<1>3. vm \in VmType /\ frames \in Seq(FrameType)
  BY <1>2 DEF MachineSound, HeapSound, FramesSound
<1>4. /\ MachineSound(v1, qs, worn, aliased)
      /\ vm.heap \subseteq v1.heap /\ v1.constants = vm.constants
      /\ Keeps(pools, qs, Roots(bytecode_cache, v1, fs))
      /\ Sound(v1, qs, aliased, v1.constants_raw, v1.values)
      /\ v1.constants_raw = a
  BY <1>2, BeginSound
<1>5. MachineSound(vm, pools, worn, aliased)'
  BY <1>1, <1>4 DEF MachineSound, PoolsSound, FunctionsAlive, HeapSound, Remembers, Converted,
        Conversion, Object, Moved, Members, Member
<1>6. /\ f \in FrameType /\ f.kind = kind /\ f.constants_raw = vm.constants_raw
      /\ f.values = vm.values
  BY <1>3, FrameTyped
<1>7. /\ fs \in Seq(FrameType) /\ fs # <<>> /\ Len(fs) = Len(frames) + 1 /\ Len(frames) \in Nat
      /\ fs[1] = f /\ \A k \in 1 .. Len(frames) : fs[k + 1] = frames[k]
  BY <1>3, <1>6, Pushed
<1>8. /\ owner \in {"engine", "script"} /\ (Running <=> Len(frames) # 0)
      /\ ~Running => owner = "script"
  <2>1. Running => Len(frames) # 0
    BY <1>3, EmptySeq DEF Running
  <2>2. ~Running => Len(frames) = 0
    BY EmptySeq DEF Running
  <2>3. QED
    BY <1>2, <2>1, <2>2 DEF FramesSound, Idle
<1>9. ASSUME NEW k \in 1 .. Len(frames)
      PROVE  k # 1 => /\ k - 1 \in 1 .. Len(frames) /\ (k - 1) + 1 = k
                      /\ fs[k] = frames[k - 1]
  <2>1. k # 1 => k - 1 \in 1 .. Len(frames) /\ (k - 1) + 1 = k
    BY <1>7
  <2>2. QED
    BY <1>7, <2>1
<1>10. ASSUME NEW k \in 1 .. Len(frames)
       PROVE  fs[k].constants_raw = RawAt(k - 1) /\ fs[k].values = ValuesAt(k - 1)
  BY <1>6, <1>7, <1>9 DEF RawAt, ValuesAt
<1>11. ASSUME NEW k \in 0 .. Len(fs) - 1
       PROVE  Sound(v1, qs, aliased, RawAt(k)', ValuesAt(k)')
  <2>1. CASE k = 0
    BY <1>1, <1>4, <2>1 DEF RawAt, ValuesAt
  <2>2. CASE k # 0
    <3>1. k \in 1 .. Len(frames) /\ k - 1 \in 0 .. Len(frames) - 1 /\ Running
      BY <1>7, <1>8, <2>2
    <3>2. Sound(vm, pools, aliased, RawAt(k - 1), ValuesAt(k - 1))
      BY <1>2, <3>1 DEF FramesSound
    <3>3. RawAt(k)' = RawAt(k - 1) /\ ValuesAt(k)' = ValuesAt(k - 1)
      <4>1. RawAt(k)' = fs[k].constants_raw /\ ValuesAt(k)' = fs[k].values
        BY <1>1, <2>2 DEF RawAt, ValuesAt
      <4>2. QED
        BY <1>10, <3>1, <4>1
    <3>4. QED
      BY <1>4, <3>2, <3>3, SoundKept
  <2>3. QED
    BY <2>1, <2>2
<1>12. ASSUME NEW k \in 1 .. Len(fs) - 1
       PROVE  fs[k].kind = "call"
  <2>1. k \in 1 .. Len(frames) /\ Running
    BY <1>7, <1>8
  <2>2. CASE k = 1
    BY <1>6, <1>7, <2>1, <2>2
  <2>3. CASE k # 1
    <3>1. k - 1 \in 1 .. Len(frames) - 1
      BY <1>7, <2>1, <2>3
    <3>2. QED
      BY <1>2, <1>9, <2>1, <2>3, <3>1 DEF FramesSound
  <2>4. QED
    BY <2>2, <2>3
<1>13. owner = "engine" => fs[Len(fs)].kind = "run"
  BY <1>2, <1>7, <1>8 DEF FramesSound
<1>14. ASSUME owner = "script" PROVE EndsWell(frames[Len(frames)])'
  <2>1. CASE ~Running
    <3>1. /\ HasScript(v1, qs) /\ vm.constants_raw \in {Null, vm.constants}
          /\ ToSet(vm.values) \subseteq v1.heap
      BY <1>2, <1>4, <1>14, <2>1, ScriptKept DEF OwnerSound, MachineSound, HeapSound, Idle
    <3>2. Len(fs) = 1
      BY <1>7, <1>8, <2>1
    <3>3. QED
      BY <1>1, <1>4, <1>6, <1>7, <2>1, <3>1, <3>2 DEF EndsWell, RawAt, HasScript
  <2>2. CASE Running
    <3> DEFINE g == frames[Len(frames)]
    <3>1. EndsWell(g) /\ fs[Len(fs)] = g /\ g \in FrameType
      BY <1>2, <1>3, <1>7, <1>8, <1>14, <2>2, ElementOfSeq DEF FramesSound
    <3>2. RawAt(Len(frames) - 1)' = RawAt(Len(frames) - 1)
      <4>1. PICK n \in Nat : n = Len(frames)
        BY <1>7
      <4>2. n \in 1 .. Len(frames) /\ n # 0 /\ Len(frames') - 1 = n
        BY <1>1, <1>7, <1>8, <2>2, <4>1
      <4>3. RawAt(n)' = fs[n].constants_raw
        BY <1>1, <4>2 DEF RawAt
      <4>4. fs[n].constants_raw = RawAt(n - 1)
        BY <1>10, <4>2
      <4>5. QED
        BY <4>1, <4>2, <4>3, <4>4 DEF RawAt
    <3>3. HasScript(vm, pools) => HasScript(v1, qs)
      BY <1>4, ScriptKept
    <3>4. g.kind = "context" => g.constants \in DOMAIN qs /\ qs[g.constants].code \in Scripts
      <4>1. g.constants \in Roots(bytecode_cache, v1, fs)
        BY <1>7, <3>1, LenProperties DEF Roots
      <4>2. QED
        BY <1>4, <3>1, <4>1 DEF EndsWell, Keeps
    <3>5. QED
      BY <1>1, <1>4, <3>1, <3>2, <3>3, <3>4 DEF EndsWell, HasScript
  <2>3. QED
    BY <2>1, <2>2
<1>15. FramesSound'
  <2>1. \A k \in 0 .. Len(fs) - 1 : Sound(vm, pools, aliased, RawAt(k), ValuesAt(k))'
    BY <1>1, <1>11 DEF Sound, Converted, Conversion, Object
  <2>2. QED
    BY <1>1, <1>7, <1>8, <1>12, <1>13, <1>14, <2>1 DEF FramesSound
<1>16. OwnerSound'
  BY <1>1, <1>2, <1>7, <1>8 DEF OwnerSound, Idle, Running
<1>17. CacheSound'
  BY <1>1, <1>2, <1>4, CacheKept DEF CacheSound
<1>18. HandlerSound'
  BY <1>1, <1>2, <1>4, <1>8 DEF HandlerSound
<1>19. QED
  BY <1>5, <1>15, <1>16, <1>17, <1>18 DEF IInv

\* A reset forgets all; builtins that were migrated before are worn.
LEMMA ResetSound ==
    ASSUME NEW v \in VmType, NEW ps, PoolsSound(ps), NEW a \in DOMAIN ps, NEW w, NEW al,
           \A b \in DOMAIN ps : ps[b].migrated => b \in w
    PROVE  LET v1 == ResetForRun(v, ps, a) IN
           /\ MachineSound(v1, Migrated(ps, a), w, al)
           /\ v1 \in VmType /\ v1.constants = a /\ v1.constants_raw = Null
<1> DEFINE v1 == ResetForRun(v, ps, a)
           qs == Migrated(ps, a)
<1>1. a \in Pointers /\ ps[a].code \in Code /\ a # Null
  BY PoolFacts DEF Pointers
<1>2. MigratedNow(ps, a) \subseteq Members(ps[a].code) /\ MigratedNow(ps, a) \subseteq Objs
  BY <1>1, MembersType DEF MigratedNow
<1>3. Nothing \in CacheType /\ <<>> \in Lists /\ DOMAIN Nothing = {}
  <2>1. Nothing \in [{} -> Lists] /\ DOMAIN Nothing = {}
    BY DEF Nothing
  <2>2. Nothing \in CacheType
    BY <2>1 DEF CacheType
  <2>3. <<>> \in Lists
    BY DEF Lists
  <2>4. QED
    BY <2>1, <2>2, <2>3
<1>4. NoLast \in LastType /\ NoLast.key = Null
  BY <1>3 DEF NoLast, LastType, Pointers
<1>5. v1 \in VmType
  BY <1>1, <1>2, <1>3, <1>4 DEF ResetForRun, VmType, Pointers
<1>6. /\ v1.constants = a /\ v1.constants_raw = Null /\ v1.values = <<>>
      /\ v1.values_cache = Nothing /\ v1.last = NoLast /\ v1.heap = MigratedNow(ps, a)
  BY DEF ResetForRun, VmType
<1>7. /\ PoolsSound(qs) /\ DOMAIN qs = DOMAIN ps /\ Keeps(ps, qs, DOMAIN ps)
      /\ \A b \in DOMAIN ps : b # a => qs[b] = ps[b]
  BY MigratedPools
<1>8. HeapSound(v1, qs)
  BY <1>1, <1>2, <1>3, <1>4, <1>5, <1>6, MembersHoldNothing DEF HeapSound, ToSet
<1>9. Remembers(v1, qs, al)
  BY <1>3, <1>6 DEF Remembers
<1>10. ASSUME NEW b \in DOMAIN qs, qs[b].migrated, b \notin w
       PROVE  Members(qs[b].code) \subseteq v1.heap
  <2>1. b = a /\ ~ps[a].migrated
    BY <1>7, <1>10
  <2>2. qs[a].code = ps[a].code
    BY <1>7 DEF Keeps
  <2>3. QED
    BY <1>6, <2>1, <2>2 DEF MigratedNow
<1>11. QED
  BY <1>5, <1>6, <1>7, <1>8, <1>9, <1>10 DEF MachineSound, Moved

LEMMA RoomMade ==
    ASSUME NEW T, NEW cache \in Seq(T)
    PROVE  /\ WithRoom(cache) \in Seq(T)
           /\ \A k \in DOMAIN WithRoom(cache) : \E j \in DOMAIN cache : WithRoom(cache)[k] = cache[j]
<1>1. Len(cache) \in Nat /\ DOMAIN cache = 1 .. Len(cache)
  BY LenProperties
<1>2. CASE Len(cache) < BYTECODE_CACHE_CAPACITY
  BY <1>1, <1>2, CapacityAssumption DEF WithRoom
<1>3. CASE Len(cache) = 1 /\ Len(cache) >= BYTECODE_CACHE_CAPACITY
  <2>1. WithRoom(cache) = <<>>
    BY <1>3 DEF WithRoom, WithoutFirst
  <2>2. QED
    BY <2>1
<1>4. CASE Len(cache) # 1 /\ Len(cache) >= BYTECODE_CACHE_CAPACITY
  <2> DEFINE n == Len(cache)
             rest == SubSeq(cache, 2, n - 1)
  <2>1. n \in Nat /\ n >= 2
    BY <1>1, <1>4, CapacityAssumption
  <2>2. WithRoom(cache) = <<cache[n]>> \o rest
    BY <1>4 DEF WithRoom, WithoutFirst, Last
  <2>3. \A i \in 2 .. n - 1 : cache[i] \in T
    BY <1>1, <2>1, ElementOfSeq
  <2>4. /\ rest \in Seq(T) /\ Len(rest) = (IF 2 <= n - 1 THEN (n - 1) - 2 + 1 ELSE 0)
        /\ \A i \in 1 .. (n - 1) - 2 + 1 : rest[i] = cache[2 + i - 1]
    BY <2>1, <2>3, SubSeqProperties
  <2>5. Len(rest) = n - 2 /\ \A i \in 1 .. n - 2 : rest[i] = cache[i + 1]
    <3> HIDE DEF n, rest
    <3>1. (n - 1) - 2 + 1 = n - 2 /\ Len(rest) = n - 2
      BY <2>1, <2>4
    <3>2. \A i \in 1 .. n - 2 : 2 + i - 1 = i + 1
      BY <2>1
    <3>3. QED
      BY <2>4, <3>1, <3>2
  <2>6. cache[n] \in T
    BY <2>1, ElementOfSeq
  <2>7. <<cache[n]>> \in Seq(T) /\ Len(<<cache[n]>>) = 1 /\ <<cache[n]>>[1] = cache[n]
    BY <2>6
  <2>8. /\ WithRoom(cache) \in Seq(T) /\ Len(WithRoom(cache)) = 1 + (n - 2)
        /\ \A i \in 1 .. 1 + (n - 2) :
              WithRoom(cache)[i] = IF i <= 1 THEN <<cache[n]>>[i] ELSE rest[i - 1]
    BY <2>2, <2>4, <2>5, <2>7, ConcatProperties
  <2>9. ASSUME NEW k \in DOMAIN WithRoom(cache)
        PROVE  \E j \in DOMAIN cache : WithRoom(cache)[k] = cache[j]
    <3>1. k \in 1 .. n - 1
      BY <2>1, <2>8, LenProperties
    <3>2. CASE k = 1
      BY <1>1, <2>1, <2>7, <2>8, <3>2
    <3>3. CASE k # 1
      <4>1. k - 1 \in 1 .. n - 2 /\ (k - 1) + 1 = k /\ ~(k <= 1) /\ k \in 1 .. 1 + (n - 2)
        BY <2>1, <3>1, <3>3
      <4>2. WithRoom(cache)[k] = cache[k]
        BY <2>5, <2>8, <4>1
      <4>3. QED
        BY <1>1, <2>1, <3>1, <4>2
    <3>4. QED
      BY <3>2, <3>3
  <2>10. QED
    BY <2>8, <2>9
<1>5. QED
  BY <1>1, <1>2, <1>3, <1>4, CapacityAssumption

LEMMA RunSound ==
    ASSUME IInv, ~Running, owner # "script", NEW ps, PoolsSound(ps), NEW a \in DOMAIN ps,
           \A b \in DOMAIN ps : ps[b].migrated => b \in DOMAIN pools /\ pools[b].migrated,
           NEW cache \in Seq([source : Sources, constants : Addresses]),
           \A k \in DOMAIN cache : cache[k].constants \in DOMAIN ps,
           Run(ps, a, cache)
    PROVE  IInv'
<1> DEFINE v == ResetForRun(vm, ps, a)
           p1 == Migrated(ps, a)
           v1 == Preconvert(v, p1, a)
           f == Frame("run", vm)
           fs == <<f>> \o frames
           qs == Released(Preconverted(v, p1, a), cache, v1, fs)
           w == {b \in DOMAIN pools : pools[b].migrated}
<1>1. /\ vm' = v1 /\ frames' = fs /\ pools' = qs /\ bytecode_cache' = cache
      /\ owner' = "engine" /\ handler' = Null /\ worn' = w /\ aliased' = aliased
  BY DEF Run, Begin
<1>2. vm \in VmType /\ frames \in Seq(FrameType) /\ frames = <<>> /\ Len(frames) = 0 /\ aliased = {}
  BY EmptySeq DEF IInv, MachineSound, HeapSound, FramesSound, OwnerSound, Running
<1>3. MachineSound(v, p1, w, aliased) /\ v.constants = a
  BY <1>2, ResetSound
<1>4. DOMAIN p1 = DOMAIN ps /\ Keeps(ps, p1, DOMAIN ps)
  BY MigratedPools
<1>5. /\ MachineSound(v1, qs, w, aliased)
      /\ Keeps(p1, qs, Roots(cache, v1, fs))
      /\ Sound(v1, qs, aliased, v1.constants_raw, v1.values)
  BY <1>3, <1>4, BeginSound
<1>6. f \in FrameType /\ f.kind = "run"
  BY <1>2, FrameTyped
<1>7. fs \in Seq(FrameType) /\ fs # <<>> /\ Len(fs) = 1 /\ fs[1] = f
  BY <1>2, <1>6, Pushed
<1> HIDE DEF w, v1, qs, p1, fs, f
<1>8. MachineSound(vm, pools, worn, aliased)'
  BY <1>1, <1>5 DEF MachineSound, PoolsSound, FunctionsAlive, HeapSound, Remembers, Converted,
        Conversion, Object, Moved, Members, Member
<1>9. FramesSound'
  <2>1. Sound(vm, pools, aliased, RawAt(0), ValuesAt(0))'
    BY <1>1, <1>5 DEF Sound, Converted, Conversion, Object, RawAt, ValuesAt
  <2>2. \A k \in 0 .. Len(fs) - 1 : k = 0
    BY <1>7
  <2>3. \A k \in 0 .. Len(fs) - 1 : Sound(vm, pools, aliased, RawAt(k), ValuesAt(k))'
    BY <2>1, <2>2
  <2>4. \A k \in 1 .. Len(fs) - 1 : FALSE
    BY <1>7
  <2>5. QED
    BY <1>1, <1>6, <1>7, <2>3, <2>4 DEF FramesSound
<1>10. OwnerSound'
  BY <1>1, <1>2, <1>7 DEF OwnerSound, Running, Idle
<1>11. CacheSound'
  <2>1. \A k \in DOMAIN cache : cache[k].constants \in DOMAIN p1
    BY <1>4
  <2>2. QED
    BY <1>1, <1>5, <2>1, CacheKept DEF CacheSound
<1>12. HandlerSound'
  BY <1>1 DEF HandlerSound
<1>13. QED
  BY <1>8, <1>9, <1>10, <1>11, <1>12 DEF IInv

LEMMA EvalSound ==
    ASSUME IInv, NEW source \in Sources, Eval(source)
    PROVE  IInv'
<1> DEFINE T == [source : Sources, constants : Addresses]
<1>1. /\ PoolsSound(pools) /\ bytecode_cache \in Seq(T)
      /\ \A k \in DOMAIN bytecode_cache : bytecode_cache[k].constants \in DOMAIN pools
  BY DEF IInv, MachineSound, CacheSound
<1>2. owner # "script" /\ ~Running
  BY DEF Eval
<1>3. CASE Cached(source) /\ Run(pools, CachedConstants(source), bytecode_cache)
  <2>1. CachedConstants(source) \in DOMAIN pools
    <3>1. PICK k \in DOMAIN bytecode_cache : bytecode_cache[k].source = source
      BY <1>3 DEF Cached
    <3> DEFINE j == CHOOSE j \in DOMAIN bytecode_cache : bytecode_cache[j].source = source
    <3>2. j \in DOMAIN bytecode_cache
      BY <3>1
    <3>3. QED
      BY <1>1, <3>2 DEF CachedConstants
  <2>2. QED
    BY <1>1, <1>2, <1>3, <2>1, RunSound
<1>4. CASE ~Cached(source) /\ \E at \in Places(source) :
              Run(Compiled(source, at), at[0],
                  Append(WithRoom(bytecode_cache), [source |-> source, constants |-> at[0]]))
  <2> DEFINE entry(at) == [source |-> source, constants |-> at[0]]
             cache(at) == Append(WithRoom(bytecode_cache), entry(at))
  <2>1. PICK at \in Places(source) : Run(Compiled(source, at), at[0], cache(at))
    BY <1>4
  <2>2. source \in Code
    BY DEF Code
  <2>3. /\ PoolsSound(Compiled(source, at))
        /\ DOMAIN pools \subseteq DOMAIN Compiled(source, at)
        /\ \A a \in DOMAIN pools : Compiled(source, at)[a] = pools[a]
        /\ \A a \in DOMAIN Compiled(source, at) \ DOMAIN pools : ~Compiled(source, at)[a].migrated
        /\ at[0] \in DOMAIN Compiled(source, at)
    BY <1>1, <2>2, CompiledPools
  <2>4. entry(at) \in T
    BY <2>3, PoolFacts
  <2>5. /\ WithRoom(bytecode_cache) \in Seq(T)
        /\ \A k \in DOMAIN WithRoom(bytecode_cache) :
              WithRoom(bytecode_cache)[k].constants \in DOMAIN pools
    BY <1>1, RoomMade
  <2>6. /\ cache(at) \in Seq(T)
        /\ \A k \in DOMAIN cache(at) : cache(at)[k].constants \in DOMAIN Compiled(source, at)
    <3> DEFINE old == WithRoom(bytecode_cache)
    <3> HIDE DEF entry
    <3>1. /\ Append(old, entry(at)) \in Seq(T) /\ Len(Append(old, entry(at))) = Len(old) + 1
          /\ \A i \in 1 .. Len(old) : Append(old, entry(at))[i] = old[i]
          /\ Append(old, entry(at))[Len(old) + 1] = entry(at)
      BY <2>4, <2>5, AppendProperties
    <3>2. Len(old) \in Nat /\ DOMAIN old = 1 .. Len(old) /\ DOMAIN cache(at) = 1 .. Len(old) + 1
      BY <2>5, <3>1, LenProperties
    <3>3. entry(at).constants = at[0]
      BY DEF entry
    <3>4. QED
      BY <2>3, <2>5, <3>1, <3>2, <3>3
  <2>7. QED
    BY <1>2, <2>1, <2>3, <2>6, RunSound
<1>5. QED
  BY <1>3, <1>4 DEF Eval

LEMMA CompileScriptSound ==
    ASSUME IInv, NEW script \in Scripts, CompileScript(script)
    PROVE  IInv'
<1>1. PICK at \in Places(script) :
          /\ vm' = ResetForRun(vm, Compiled(script, at), at[0])
          /\ pools' = Migrated(Compiled(script, at), at[0])
  BY DEF CompileScript
<1> DEFINE ps == Compiled(script, at)
           v1 == ResetForRun(vm, ps, at[0])
           qs == Migrated(ps, at[0])
<1>2. /\ owner = "none" /\ owner' = "script" /\ bytecode_cache' = bytecode_cache /\ frames' = frames
      /\ handler' = handler /\ worn' = worn /\ aliased' = aliased
  BY DEF CompileScript
<1>3. /\ DOMAIN pools = {} /\ ~Running /\ bytecode_cache = <<>> /\ handler = Null
      /\ vm \in VmType /\ PoolsSound(pools)
  BY <1>2 DEF IInv, OwnerSound, FramesSound, HandlerSound, MachineSound, HeapSound
<1>4. script \in Code
  BY DEF Code
<1>5. /\ PoolsSound(ps) /\ \A a \in DOMAIN ps : ~ps[a].migrated
      /\ at[0] \in DOMAIN ps /\ ps[at[0]].code = script
  BY <1>3, <1>4, CompiledPools
<1>6. MachineSound(v1, qs, worn, aliased) /\ v1.constants = at[0] /\ v1.constants_raw = Null
  BY <1>3, <1>5, ResetSound
<1>7. HasScript(v1, qs)
  BY <1>5, <1>6, MigratedPools DEF HasScript, Keeps
<1> HIDE DEF ps, v1, qs
<1>8. vm' = v1 /\ pools' = qs
  BY <1>1 DEF ps, v1, qs
<1>9. MachineSound(vm, pools, worn, aliased)'
  BY <1>2, <1>6, <1>8 DEF MachineSound, PoolsSound, FunctionsAlive, HeapSound, Remembers, Converted,
        Conversion, Object, Moved, Members, Member
<1>10. FramesSound'
  BY <1>2, <1>3 DEF IInv, FramesSound, Running
<1>11. OwnerSound'
  BY <1>2, <1>3, <1>6, <1>7, <1>8 DEF OwnerSound, HasScript
<1>12. CacheSound' /\ HandlerSound'
  BY <1>2, <1>3 DEF IInv, CacheSound, HandlerSound
<1>13. QED
  BY <1>9, <1>10, <1>11, <1>12 DEF IInv

\* The machine but for what runs.
LEMMA SameMemory ==
    ASSUME NEW v, NEW ps, NEW w, NEW al, MachineSound(v, ps, w, al),
           NEW v1 \in VmType, v1.heap = v.heap, v1.values_cache = v.values_cache, v1.last = v.last,
           ToSet(v1.values) \subseteq v.heap
    PROVE  MachineSound(v1, ps, w, al)
BY DEF MachineSound, HeapSound, Remembers, Moved

LEMMA EvalInContextSound ==
    ASSUME IInv, NEW expression \in Expressions, EvalInContext(expression)
    PROVE  IInv'
<1>1. PICK at \in Places(expression) :
          /\ Begin("context", [vm EXCEPT !.constants = at[0]], Compiled(expression, at), at[0],
                   bytecode_cache)
          /\ aliased' = aliased \union
                 {a \in DOMAIN Compiled(expression, at) \ DOMAIN pools : Remembered(vm, a)}
  BY DEF EvalInContext
<1> DEFINE ps == Compiled(expression, at)
           v == [vm EXCEPT !.constants = at[0]]
           al == aliased \union {a \in DOMAIN ps \ DOMAIN pools : Remembered(vm, a)}
           v1 == Preconvert(v, ps, at[0])
           f == Frame("context", vm)
           fs == <<f>> \o frames
           qs == Released(Preconverted(v, ps, at[0]), bytecode_cache, v1, fs)
<1>2. /\ vm' = v1 /\ frames' = fs /\ pools' = qs /\ bytecode_cache' = bytecode_cache
      /\ handler' = handler /\ owner' = owner /\ worn' = worn /\ aliased' = al
  BY <1>1 DEF Begin, EvalInContext
<1>3. /\ MachineSound(vm, pools, worn, aliased) /\ OwnerSound /\ CacheSound /\ HandlerSound
      /\ vm \in VmType /\ frames \in Seq(FrameType) /\ frames = <<>> /\ Len(frames) = 0
      /\ owner = "script" /\ HasScript(vm, pools) /\ bytecode_cache = <<>>
  BY EmptySeq DEF EvalInContext, Idle, Running, IInv, MachineSound, HeapSound, FramesSound, OwnerSound
<1>4. expression \in Code /\ PoolsSound(pools)
  BY <1>3 DEF Code, MachineSound
<1>5. /\ PoolsSound(ps) /\ DOMAIN pools \subseteq DOMAIN ps /\ Keeps(pools, ps, DOMAIN pools)
      /\ \A a \in DOMAIN pools : ps[a] = pools[a]
      /\ \A a \in DOMAIN ps \ DOMAIN pools : ~ps[a].migrated
      /\ at[0] \in DOMAIN ps
  BY <1>4, CompiledPools
<1>6. at[0] \in Pointers
  BY <1>5, PoolFacts DEF Pointers
<1>7. /\ v \in VmType /\ v.constants = at[0] /\ v.heap = vm.heap /\ v.values = vm.values
      /\ v.values_cache = vm.values_cache /\ v.last = vm.last
  BY <1>3, <1>6 DEF VmType
<1>8. MachineSound(v, ps, worn, al)
  <2>1. HeapSound(v, ps)
    BY <1>3, <1>5, <1>7 DEF MachineSound, HeapSound
  <2>2. ASSUME NEW b \in DOMAIN vm.values_cache \intersect DOMAIN ps, b \notin al
        PROVE  Converted(ps, b, vm.values_cache[b])
    <3>1. b \in DOMAIN pools /\ b \notin aliased
      BY <2>2 DEF Remembered
    <3>2. Converted(pools, b, vm.values_cache[b])
      BY <1>3, <2>2, <3>1 DEF MachineSound, Remembers
    <3>3. QED
      BY <1>5, <3>1, <3>2, KeptConversion
  <2>3. Remembers(v, ps, al)
    BY <1>7, <2>2 DEF Remembers
  <2>4. Moved(v, ps, worn)
    BY <1>3, <1>5, <1>7 DEF MachineSound, Moved
  <2>5. QED
    BY <1>5, <2>1, <2>3, <2>4 DEF MachineSound
<1>9. /\ MachineSound(v1, qs, worn, al)
      /\ v.heap \subseteq v1.heap
      /\ Keeps(ps, qs, Roots(bytecode_cache, v1, fs))
      /\ Sound(v1, qs, al, v1.constants_raw, v1.values)
  BY <1>5, <1>7, <1>8, BeginSound
<1>10. f \in FrameType /\ f.kind = "context" /\ f.constants = vm.constants
  BY <1>3, FrameTyped
<1>11. fs \in Seq(FrameType) /\ fs # <<>> /\ Len(fs) = 1 /\ fs[1] = f /\ DOMAIN fs = 1 .. 1
  BY <1>3, <1>10, Pushed
<1>12. f.constants \in DOMAIN qs /\ qs[f.constants].code \in Scripts
  <2>1. f.constants \in Roots(bytecode_cache, v1, fs)
    BY <1>11 DEF Roots
  <2>2. f.constants \in DOMAIN ps /\ ps[f.constants].code \in Scripts
    BY <1>3, <1>5, <1>10 DEF HasScript
  <2>3. QED
    BY <1>9, <2>1, <2>2 DEF Keeps
<1> HIDE DEF ps, v, al, v1, f, fs, qs
<1>13. MachineSound(vm, pools, worn, aliased)'
  BY <1>2, <1>9 DEF MachineSound, PoolsSound, FunctionsAlive, HeapSound, Remembers, Converted,
        Conversion, Object, Moved, Members, Member
<1>14. FramesSound'
  <2>1. Sound(vm, pools, aliased, RawAt(0), ValuesAt(0))'
    BY <1>2, <1>9 DEF Sound, Converted, Conversion, Object, RawAt, ValuesAt
  <2>2. \A k \in 0 .. Len(fs) - 1 : k = 0
    BY <1>11
  <2>3. \A k \in 0 .. Len(fs) - 1 : Sound(vm, pools, aliased, RawAt(k), ValuesAt(k))'
    BY <2>1, <2>2
  <2>4. \A k \in 1 .. Len(fs) - 1 : FALSE
    BY <1>11
  <2>5. EndsWell(frames[Len(frames)])'
    BY <1>2, <1>10, <1>11, <1>12 DEF EndsWell
  <2>6. QED
    BY <1>2, <1>3, <1>11, <2>3, <2>4, <2>5 DEF FramesSound
<1>15. OwnerSound'
  BY <1>2, <1>3, <1>11 DEF OwnerSound, Idle, Running
<1>16. CacheSound'
  BY <1>2, <1>3 DEF CacheSound
<1>17. HandlerSound'
  BY <1>2, <1>3, <1>7, <1>9 DEF HandlerSound
<1>18. QED
  BY <1>13, <1>14, <1>15, <1>16, <1>17 DEF IInv

LEMMA GcCollectSound ==
    ASSUME IInv, GcCollect
    PROVE  IInv'
<1> DEFINE v1 == [ForgetConversions(vm) EXCEPT !.heap = @ \intersect Marked]
           qs == Released(pools, bytecode_cache, v1, frames)
<1>1. /\ vm' = v1 /\ pools' = qs /\ aliased' = {} /\ bytecode_cache' = bytecode_cache
      /\ frames' = frames /\ handler' = handler /\ owner' = owner /\ worn' = worn
  BY DEF GcCollect
<1>2. /\ PoolsSound(pools) /\ HeapSound(vm, pools) /\ Moved(vm, pools, worn)
      /\ OwnerSound /\ CacheSound /\ HandlerSound /\ vm \in VmType
      /\ frames = <<>> /\ owner = "script" /\ bytecode_cache = <<>>
      /\ HasScript(vm, pools) /\ vm.constants_raw \in {Null, vm.constants}
      /\ FramesSound
  BY DEF GcCollect, Idle, Running, IInv, MachineSound, HeapSound, OwnerSound
<1>3. Nothing \in CacheType /\ NoLast \in LastType /\ <<>> \in Lists /\ DOMAIN Nothing = {}
      /\ NoLast.key = Null
  <2>1. Nothing \in [{} -> Lists] /\ DOMAIN Nothing = {}
    BY DEF Nothing
  <2>2. Nothing \in CacheType
    BY <2>1 DEF CacheType
  <2>3. <<>> \in Lists
    BY DEF Lists
  <2>4. NoLast \in LastType /\ NoLast.key = Null
    BY <2>3 DEF NoLast, LastType, Pointers
  <2>5. QED
    BY <2>1, <2>2, <2>3, <2>4
<1>4. /\ v1 \in VmType /\ v1.heap = vm.heap \intersect Marked /\ v1.constants = vm.constants
      /\ v1.constants_raw = vm.constants_raw /\ v1.values = <<>> /\ v1.values_cache = Nothing
      /\ v1.last = NoLast
  BY <1>2, <1>3 DEF ForgetConversions, VmType
<1> HIDE DEF v1
<1> DEFINE roots == Roots(bytecode_cache, v1, frames)
<1>5. /\ PoolsSound(qs) /\ DOMAIN qs \subseteq DOMAIN pools /\ \A a \in DOMAIN qs : qs[a] = pools[a]
      /\ roots \intersect DOMAIN pools \subseteq DOMAIN qs /\ Keeps(pools, qs, roots)
      /\ \A a \in DOMAIN qs : a \in roots \/
             \E r \in roots \intersect DOMAIN pools :
                \E i \in DOMAIN pools[r].functions : pools[r].functions[i] = a
  BY <1>2, ReleasedPools
<1>6. roots = {vm.constants} \union {o[3] : o \in v1.heap}
  BY <1>2, <1>4 DEF Roots
<1> HIDE DEF qs, roots
<1>7. HeapSound(v1, qs)
  <2>1. \A o \in v1.heap : o[3] # Null => o[3] \in DOMAIN qs /\ qs[o[3]].code \in Functions
    BY <1>2, <1>4, <1>5, <1>6 DEF HeapSound
  <2>2. QED
    BY <1>3, <1>4, <2>1 DEF HeapSound, ToSet
<1>8. Remembers(v1, qs, {})
  BY <1>3, <1>4 DEF Remembers
<1>9. /\ MarkedValues \subseteq vm.heap
      /\ \A o \in Marked :
             \/ o \in MarkedValues
             \/ \E p \in MarkedValues : o = Member(p[1], p[2])
             \/ \E a \in ScannedPools : o \in Builtins(pools, a)
      /\ \A a \in ScannedPools : Builtins(pools, a) \subseteq Marked
  <2>1. MarkedValues \subseteq vm.heap
    BY DEF MarkedValues
  <2>2. QED
    BY <2>1 DEF Marked
<1>10. ASSUME NEW o \in v1.heap, o[3] # Null PROVE o[3] \in ScannedPools
  <2>1. o \in Marked /\ o \in vm.heap
    BY <1>4
  <2>2. /\ \A c, i : Member(c, i)[3] = Null
        /\ \A c : \A m \in Members(c) : m[3] = Null
    BY DEF Member, Members
  <2>3. ASSUME NEW a \in DOMAIN pools, NEW b \in Builtins(pools, a) PROVE b[3] = Null
    <3>1. CASE b \in Members(pools[a].code)
      BY <2>2, <3>1
    <3>2. CASE b \in Objects(pools, a) /\ Constants[b[1]][b[2]] = "builtin"
      <4>1. PICK i \in DOMAIN Constants[pools[a].code] : b = Object(pools, a, i)
        BY <3>2 DEF Objects
      <4>2. Constants[pools[a].code][i] \notin Functions
        BY <3>2, <4>1, ConstantsAssumption DEF Object
      <4>3. pools[a].functions[i] = Null
        BY <1>2, <4>1, <4>2 DEF PoolsSound, FunctionsAlive
      <4>4. QED
        BY <4>1, <4>3 DEF Object
    <3>3. QED
      BY <2>3, <3>1, <3>2 DEF Builtins
  <2>4. o \in MarkedValues
    <3>1. CASE \E a \in ScannedPools : o \in Builtins(pools, a)
      BY <1>10, <2>3, <3>1 DEF ScannedPools
    <3>2. CASE \E p \in MarkedValues : o = Member(p[1], p[2])
      BY <1>10, <2>2, <3>2
    <3>3. QED
      BY <1>9, <2>1, <3>1, <3>2
  <2>5. o[3] \in DOMAIN pools
    BY <1>2, <1>10, <2>1 DEF HeapSound
  <2>6. QED
    BY <2>4, <2>5 DEF ScannedPools
<1>11. ASSUME NEW a \in DOMAIN qs PROVE a \in ScannedPools
  <2>1. CASE a \in roots
    <3>1. a # Null
      BY <1>2, <1>5, PoolFacts
    <3>2. a = vm.constants \/ \E o \in v1.heap : o[3] = a
      BY <1>6, <2>1
    <3>3. QED
      BY <1>2, <1>10, <3>1, <3>2 DEF HasScript, ScannedPools
  <2>2. CASE \E r \in roots \intersect DOMAIN pools :
                \E i \in DOMAIN pools[r].functions : pools[r].functions[i] = a
    <3>1. PICK r \in roots \intersect DOMAIN pools :
              \E i \in DOMAIN pools[r].functions : pools[r].functions[i] = a
      BY <2>2
    <3>2. PICK i \in DOMAIN pools[r].functions : pools[r].functions[i] = a
      BY <3>1
    <3>3. CASE r = vm.constants
      BY <1>5, <3>2, <3>3 DEF ToSet, ScannedPools
    <3>4. CASE r # vm.constants
      <4>1. PICK o \in v1.heap : o[3] = r
        BY <1>6, <3>1, <3>4
      <4>2. pools[r].code \in Functions /\ FunctionsAlive(pools, r)
        BY <1>2, <1>4, <3>1, <4>1, PoolFacts DEF HeapSound, PoolsSound
      <4>3. a # Null
        BY <1>2, <1>5, PoolFacts
      <4>4. QED
        BY <3>2, <4>2, <4>3, FunctionsHaveNone DEF FunctionsAlive
    <3>5. QED
      BY <3>3, <3>4
  <2>3. QED
    BY <1>5, <2>1, <2>2
<1>12. Moved(v1, qs, worn)
  <2>1. ASSUME NEW a \in DOMAIN qs, qs[a].migrated, a \notin worn
        PROVE  Members(qs[a].code) \subseteq v1.heap
    <3>1. Members(pools[a].code) \subseteq vm.heap /\ qs[a] = pools[a] /\ a \in DOMAIN pools
      BY <1>2, <1>5, <2>1 DEF Moved
    <3>2. Members(pools[a].code) \subseteq Builtins(pools, a)
      BY DEF Builtins
    <3>3. Members(pools[a].code) \subseteq Marked
      BY <1>9, <1>11, <2>1, <3>1, <3>2
    <3>4. QED
      BY <1>4, <3>1, <3>3
  <2>2. QED
    BY <2>1 DEF Moved
<1>13. MachineSound(vm, pools, worn, aliased)'
  <2>1. MachineSound(v1, qs, worn, {})
    BY <1>5, <1>7, <1>8, <1>12 DEF MachineSound
  <2>2. vm' = v1 /\ pools' = qs
    BY <1>1 DEF v1, qs
  <2>3. QED
    BY <1>1, <2>1, <2>2 DEF MachineSound, PoolsSound, FunctionsAlive, HeapSound, Remembers, Converted,
          Conversion, Object, Moved, Members, Member
<1>14. vm' = v1 /\ pools' = qs
  BY <1>1 DEF v1, qs
<1>15. FramesSound'
  BY <1>1, <1>2 DEF FramesSound, Running
<1>16. OwnerSound'
  <2>1. HasScript(v1, qs)
    BY <1>2, <1>4, <1>5, <1>6 DEF HasScript
  <2>2. QED
    BY <1>1, <1>2, <1>4, <1>14, <2>1 DEF OwnerSound, HasScript
<1>17. CacheSound'
  BY <1>1, <1>2 DEF CacheSound
<1>18. HandlerSound'
  <2>1. handler # Null => handler \in Marked
    BY <1>2, <1>9 DEF HandlerSound, MarkedValues, Marked
  <2>2. QED
    BY <1>1, <1>2, <1>4, <1>14, <2>1 DEF HandlerSound
<1>19. QED
  BY <1>13, <1>15, <1>16, <1>17, <1>18 DEF IInv

LEMMA RunningSound ==
    ASSUME IInv, Running
    PROVE  /\ Sound(vm, pools, aliased, vm.constants_raw, vm.values)
           /\ vm.constants_raw \in DOMAIN pools /\ RunningCode \in Code
           /\ Len(frames) \in Nat \ {0}
<1>1. frames \in Seq(FrameType) /\ Len(frames) \in Nat \ {0}
  BY EmptySeq DEF IInv, FramesSound, Running
<1>2. 0 \in 0 .. Len(frames) - 1
  BY <1>1
<1>3. Sound(vm, pools, aliased, RawAt(0), ValuesAt(0))
  BY <1>2 DEF IInv, FramesSound
<1>4. QED
  BY <1>1, <1>3, PoolFacts DEF RawAt, ValuesAt, Sound, RunningCode, IInv, MachineSound

LEMMA RunInitSound ==
    ASSUME IInv, RunInit
    PROVE  IInv'
BY EnterSound DEF RunInit, Idle, IInv, OwnerSound, HasScript

LEMMA CallFunctionSound ==
    ASSUME IInv, CallFunction
    PROVE  IInv'
<1>1. handler \in vm.heap /\ handler[3] \in DOMAIN pools
  BY DEF CallFunction, IInv, HandlerSound, MachineSound, HeapSound
<1>2. QED
  BY <1>1, EnterSound DEF CallFunction, Idle

LEMMA CallSound ==
    ASSUME IInv, Running, NEW i, Call(i)
    PROVE  IInv'
<1>1. vm.values[i] \in vm.heap
  BY RunningSound DEF Call, Sound, ToSet
<1>2. vm.values[i][3] \in DOMAIN pools
  BY <1>1 DEF Call, IsFunction, IInv, MachineSound, HeapSound
<1>3. QED
  BY <1>1, <1>2, EnterSound DEF Call

LEMMA StoreFunctionSound ==
    ASSUME IInv, Running, NEW i, StoreFunction(i)
    PROVE  IInv'
<1>1. /\ UNCHANGED <<pools, bytecode_cache, vm, frames, owner, worn, aliased>>
      /\ handler' = vm.values[i] /\ i \in DOMAIN vm.values /\ vm.values[i][3] # Null
  BY DEF StoreFunction, IsFunction
<1>2. vm.values[i] \in vm.heap
  BY <1>1, RunningSound DEF Sound, ToSet
<1>3. HandlerSound'
  BY <1>1, <1>2 DEF HandlerSound, IInv, FramesSound
<1>4. MachineSound(vm, pools, worn, aliased)'
  BY <1>1 DEF IInv, MachineSound, PoolsSound, FunctionsAlive, HeapSound, Remembers, Converted,
        Conversion, Object, Moved, Members, Member
<1>5. FramesSound'
  <2>1. ASSUME NEW k \in 0 .. Len(frames) - 1
        PROVE  Sound(vm, pools, aliased, RawAt(k), ValuesAt(k))'
    <3>1. RawAt(k)' = RawAt(k) /\ ValuesAt(k)' = ValuesAt(k)
      BY <1>1 DEF RawAt, ValuesAt
    <3>2. Sound(vm, pools, aliased, RawAt(k), ValuesAt(k))
      BY DEF IInv, FramesSound
    <3>3. QED
      BY <1>1, <3>1, <3>2 DEF Sound, Converted, Conversion, Object
  <2>2. owner = "script" => EndsWell(frames[Len(frames)])'
    BY <1>1 DEF IInv, FramesSound, EndsWell, HasScript, RawAt
  <2>3. QED
    BY <1>1, <2>1, <2>2 DEF IInv, FramesSound, Running
<1>6. OwnerSound' /\ CacheSound'
  BY <1>1 DEF IInv, OwnerSound, CacheSound, Idle, Running, HasScript
<1>7. QED
  BY <1>3, <1>4, <1>5, <1>6 DEF IInv

LEMMA MakeClosureSound ==
    ASSUME IInv, Running, NEW i, MakeClosure(i)
    PROVE  IInv'
<1> DEFINE raw == vm.constants_raw
           o == Object(pools, raw, i)
           v1 == [vm EXCEPT !.heap = @ \union {o}]
<1>1. /\ UNCHANGED <<pools, bytecode_cache, frames, owner, worn, aliased>>
      /\ handler' = o /\ vm' = v1 /\ i \in FunctionsIn(RunningCode)
  BY DEF MakeClosure
<1>2. /\ raw \in DOMAIN pools /\ PoolsSound(pools) /\ HeapSound(vm, pools) /\ vm \in VmType
      /\ MachineSound(vm, pools, worn, aliased)
  BY RunningSound DEF IInv, MachineSound, HeapSound
<1>3. o \in Objects(pools, raw) /\ o \in Objs
  BY <1>1, <1>2, ConversionType DEF Objects, FunctionsIn, RunningCode
<1>4. o[3] # Null
  <2>1. FunctionsAlive(pools, raw) /\ Constants[pools[raw].code][i] \in Functions
        /\ i \in DOMAIN Constants[pools[raw].code]
    BY <1>1, <1>2 DEF PoolsSound, FunctionsIn, RunningCode
  <2>2. pools[raw].functions[i] \in DOMAIN pools
    BY <2>1 DEF FunctionsAlive
  <2>3. QED
    BY <1>2, <2>2, PoolFacts DEF Object
<1>5. /\ v1 \in VmType /\ v1.heap = vm.heap \union {o} /\ v1.constants = vm.constants
      /\ v1.constants_raw = vm.constants_raw /\ v1.values = vm.values
      /\ v1.values_cache = vm.values_cache /\ v1.last = vm.last
  BY <1>2, <1>3 DEF VmType
<1> HIDE DEF v1, o
<1>6. HeapSound(v1, pools)
  BY <1>2, <1>3, <1>5, ObjectsAlive DEF HeapSound
<1>7. MachineSound(v1, pools, worn, aliased)
  BY <1>2, <1>5, <1>6 DEF MachineSound, Remembers, Moved
<1>8. MachineSound(vm, pools, worn, aliased)'
  BY <1>1, <1>7 DEF MachineSound, PoolsSound, FunctionsAlive, HeapSound, Remembers, Converted,
        Conversion, Object, Moved, Members, Member
<1>9. ASSUME NEW k \in 0 .. Len(frames) - 1
      PROVE  Sound(v1, pools, aliased, RawAt(k)', ValuesAt(k)')
  <2>1. RawAt(k)' = RawAt(k) /\ ValuesAt(k)' = ValuesAt(k)
    BY <1>1, <1>5 DEF RawAt, ValuesAt
  <2>2. Sound(vm, pools, aliased, RawAt(k), ValuesAt(k))
    BY DEF IInv, FramesSound
  <2>3. QED
    BY <1>5, <2>1, <2>2 DEF Sound
<1>10. FramesSound'
  <2>1. \A k \in 0 .. Len(frames) - 1 : Sound(vm, pools, aliased, RawAt(k), ValuesAt(k))'
    BY <1>1, <1>9 DEF Sound, Converted, Conversion, Object
  <2>2. owner = "script" => EndsWell(frames[Len(frames)])'
    BY <1>1, <1>5 DEF IInv, FramesSound, EndsWell, HasScript, RawAt
  <2>3. QED
    BY <1>1, <2>1, <2>2 DEF IInv, FramesSound, Running
<1>11. OwnerSound' /\ CacheSound'
  BY <1>1 DEF IInv, OwnerSound, CacheSound, Idle, Running
<1>12. HandlerSound'
  BY <1>1, <1>4, <1>5 DEF IInv, HandlerSound, FramesSound
<1>13. QED
  BY <1>8, <1>10, <1>11, <1>12 DEF IInv

\* The end of an activation, by return or error.
LEMMA LeaveSound ==
    ASSUME IInv, Running, Leave
    PROVE  IInv'
<1> DEFINE f == Head(frames)
           v1 == GivenBack(f, vm)
           fs == Tail(frames)
           qs == Released(pools, bytecode_cache, v1, fs)
           n == Len(frames)
<1>1. /\ vm' = v1 /\ frames' = fs /\ pools' = qs
      /\ UNCHANGED <<bytecode_cache, handler, owner, worn, aliased>>
  BY DEF Leave
<1>2. /\ MachineSound(vm, pools, worn, aliased) /\ vm \in VmType /\ FramesSound /\ OwnerSound
      /\ CacheSound /\ HandlerSound /\ frames \in Seq(FrameType) /\ frames # <<>>
  BY DEF IInv, MachineSound, HeapSound, FramesSound, Running
<1>3. /\ n \in Nat \ {0} /\ f = frames[1] /\ f \in FrameType
      /\ fs \in Seq(FrameType) /\ Len(fs) = n - 1 /\ (fs = <<>> <=> n = 1)
      /\ \A k \in 1 .. n - 1 : fs[k] = frames[k + 1]
      /\ DOMAIN fs = 1 .. n - 1
  BY <1>2, Popped
<1>4. /\ owner \in {"engine", "script"}
      /\ \A k \in 0 .. n - 1 : Sound(vm, pools, aliased, RawAt(k), ValuesAt(k))
      /\ \A k \in 1 .. n - 1 : frames[k].kind = "call"
      /\ owner = "engine" => frames[n].kind = "run"
      /\ owner = "script" => EndsWell(frames[n])
  BY <1>2 DEF FramesSound
<1>5. f.kind \in {"run", "call", "context"} /\ (n # 1 => f.kind = "call")
  BY <1>3, <1>4 DEF FrameType
<1>6. /\ v1 \in VmType /\ v1.heap = vm.heap /\ v1.values_cache = vm.values_cache /\ v1.last = vm.last
      /\ f.kind # "context" => v1.constants = vm.constants
      /\ f.kind = "run" => v1 = vm
      /\ f.kind = "call" => v1.constants_raw = f.constants_raw /\ v1.values = f.values
      /\ f.kind = "context" => v1.constants = f.constants /\ v1.constants_raw = f.constants
                                /\ v1.values = <<>>
  <2>1. f.constants_raw \in Pointers /\ f.values \in Lists /\ f.constants \in Pointers /\ <<>> \in Lists
    BY <1>3 DEF FrameType, Lists
  <2>2. CASE f.kind = "run"
    BY <1>2, <2>2 DEF GivenBack
  <2>3. CASE f.kind = "call"
    BY <1>2, <2>1, <2>3 DEF GivenBack, VmType
  <2>4. CASE f.kind = "context"
    BY <1>2, <2>1, <2>4 DEF GivenBack, VmType
  <2>5. QED
    BY <1>5, <2>2, <2>3, <2>4
<1> HIDE DEF f, v1, fs, n
<1>7. f.kind = "call" => ToSet(f.values) \subseteq vm.heap
  <2>1. CASE n = 1
    BY <1>3, <1>4, <2>1 DEF EndsWell
  <2>2. CASE n # 1
    <3>1. 1 \in 0 .. n - 1
      BY <1>3, <2>2
    <3>2. QED
      BY <1>3, <1>4, <3>1 DEF Sound, ValuesAt
  <2>3. QED
    BY <2>1, <2>2
<1>8. ToSet(v1.values) \subseteq vm.heap
  BY <1>2, <1>5, <1>6, <1>7 DEF MachineSound, HeapSound, ToSet
<1>9. MachineSound(v1, qs, worn, aliased)
  BY <1>2, <1>6, <1>8, SameMemory, ReleasedSound
<1>10. Keeps(pools, qs, Roots(bytecode_cache, v1, fs))
  BY <1>2, ReleasedPools DEF MachineSound
<1> HIDE DEF qs
<1>11. MachineSound(vm, pools, worn, aliased)'
  BY <1>1, <1>9 DEF MachineSound, PoolsSound, FunctionsAlive, HeapSound, Remembers, Converted,
        Conversion, Object, Moved, Members, Member
<1>12. CASE n = 1
  <2>1. ~Running' /\ frames' = <<>>
    BY <1>1, <1>3, <1>12 DEF Running
  <2>2. FramesSound'
    BY <1>1, <1>3, <2>1 DEF FramesSound
  <2>3. ASSUME owner = "script"
        PROVE  HasScript(v1, qs) /\ v1.constants_raw \in {Null, v1.constants}
    <3>1. EndsWell(f) /\ RawAt(n - 1) = vm.constants_raw
      BY <1>3, <1>4, <1>12, <2>3 DEF RawAt
    <3>2. CASE f.kind \in {"run", "call"}
      <4>1. HasScript(vm, pools) /\ v1.constants = vm.constants
            /\ v1.constants_raw \in {Null, vm.constants}
        BY <1>6, <3>1, <3>2 DEF EndsWell, n
      <4>2. QED
        BY <1>10, <4>1, ScriptKept
    <3>3. CASE f.kind = "context"
      <4>1. v1.constants \in DOMAIN pools /\ pools[v1.constants].code \in Scripts
            /\ v1.constants_raw = v1.constants
        BY <1>6, <3>1, <3>3 DEF EndsWell
      <4>2. QED
        BY <1>10, <4>1 DEF HasScript, Roots, Keeps
    <3>4. QED
      BY <1>5, <3>2, <3>3
  <2>4. OwnerSound'
    BY <1>1, <1>2, <1>4, <2>3 DEF OwnerSound, Idle, HasScript
  <2>5. QED
    BY <1>11, <2>2, <2>4, <1>1, <1>2, <1>4, <1>6, <1>10, CacheKept DEF IInv, CacheSound, HandlerSound
<1>13. CASE n # 1
  <2>1. f.kind = "call" /\ v1.constants = vm.constants
    BY <1>5, <1>6, <1>13
  <2>2. Running' /\ Len(fs) = n - 1 /\ n - 1 \in 1 .. n - 1
    BY <1>1, <1>3, <1>13 DEF Running
  <2>3. ASSUME NEW k \in 0 .. n - 2
        PROVE  RawAt(k)' = RawAt(k + 1) /\ ValuesAt(k)' = ValuesAt(k + 1)
    <3>1. CASE k = 0
      BY <1>1, <1>3, <1>6, <2>1, <3>1 DEF RawAt, ValuesAt
    <3>2. CASE k # 0
      <4>1. k \in 1 .. n - 1 /\ k + 1 # 0
        BY <1>3, <2>3, <3>2
      <4>2. QED
        BY <1>1, <1>3, <3>2, <4>1 DEF RawAt, ValuesAt
    <3>3. QED
      BY <3>1, <3>2
  <2>4. ASSUME NEW k \in 0 .. n - 2
        PROVE  Sound(v1, qs, aliased, RawAt(k)', ValuesAt(k)')
    <3>1. k + 1 \in 0 .. n - 1
      BY <1>3, <2>4
    <3>2. Sound(vm, pools, aliased, RawAt(k + 1), ValuesAt(k + 1))
      BY <1>4, <3>1
    <3>3. Sound(v1, qs, aliased, RawAt(k + 1), ValuesAt(k + 1))
      BY <1>6, <1>10, <2>1, <3>2, SoundKept
    <3>4. QED
      BY <2>3, <3>3
  <2>5. ASSUME NEW k \in 1 .. n - 2
        PROVE  fs[k].kind = "call"
    <3>1. k \in 1 .. n - 1 /\ k + 1 \in 1 .. n - 1
      BY <1>3, <2>5
    <3>2. QED
      BY <1>3, <1>4, <3>1
  <2>6. fs[n - 1] = frames[n]
    BY <1>3, <2>2
  <2>7. owner = "script" => EndsWell(frames[Len(frames)])'
    <3> SUFFICES ASSUME owner = "script" PROVE EndsWell(frames[Len(frames)])'
      OBVIOUS
    <3>1. EndsWell(frames[n])
      BY <1>4
    <3>2. RawAt(Len(frames) - 1)' = RawAt(n - 1)
      <4>1. PICK m \in Nat : m = n - 2
        BY <1>3, <1>13
      <4>2. Len(frames') - 1 = m /\ m \in 0 .. n - 2 /\ m + 1 = n - 1
        BY <1>1, <1>3, <1>13, <4>1
      <4>3. RawAt(m)' = RawAt(n - 1)
        BY <2>3, <4>2
      <4>4. QED
        BY <4>2, <4>3 DEF RawAt
    <3>3. HasScript(vm, pools) => HasScript(v1, qs)
      BY <1>10, <2>1, ScriptKept
    <3>4. frames[n].kind = "context" =>
             frames[n].constants \in DOMAIN qs /\ qs[frames[n].constants].code \in Scripts
      <4>1. frames[n].constants \in Roots(bytecode_cache, v1, fs)
        BY <1>3, <2>2, <2>6 DEF Roots
      <4>2. QED
        BY <1>10, <3>1, <4>1 DEF EndsWell, Keeps
    <3>5. /\ frames[Len(frames)]' = frames[n] /\ RawAt(n - 1) = RawAt(Len(frames) - 1)
      BY <1>1, <2>2, <2>6 DEF n
    <3>6. QED
      BY <1>1, <1>6, <2>1, <3>1, <3>2, <3>3, <3>4, <3>5 DEF EndsWell, HasScript
  <2>8. FramesSound'
    <3>1. Len(fs) - 1 = n - 2
      BY <1>3, <2>2
    <3>2. \A k \in 0 .. Len(fs) - 1 : Sound(vm, pools, aliased, RawAt(k), ValuesAt(k))'
      BY <1>1, <2>4, <3>1 DEF Sound, Converted, Conversion, Object
    <3>3. \A k \in 1 .. Len(fs) - 1 : fs[k].kind = "call"
      BY <2>5, <3>1
    <3>4. owner = "engine" => fs[Len(fs)].kind = "run"
      BY <1>4, <2>2, <2>6
    <3>5. QED
      BY <1>1, <1>3, <1>4, <2>7, <3>2, <3>3, <3>4 DEF FramesSound
  <2>9. OwnerSound'
    BY <1>1, <1>2, <1>4, <2>2 DEF OwnerSound, Idle
  <2>10. QED
    BY <1>11, <2>8, <2>9, <1>1, <1>2, <1>4, <1>6, <1>10, CacheKept DEF IInv, CacheSound, HandlerSound
<1>14. QED
  BY <1>12, <1>13

LEMMA StutterSound ==
    ASSUME IInv, UNCHANGED vars
    PROVE  IInv'
<1>1. UNCHANGED <<pools, bytecode_cache, vm, frames, handler, owner, worn, aliased>>
  BY DEF vars
<1>2. MachineSound(vm, pools, worn, aliased)'
  BY <1>1 DEF IInv, MachineSound, PoolsSound, FunctionsAlive, HeapSound, Remembers, Converted,
        Conversion, Object, Moved, Members, Member
<1>3. FramesSound'
  <2>1. ASSUME Running, NEW k \in 0 .. Len(frames) - 1
        PROVE  Sound(vm, pools, aliased, RawAt(k), ValuesAt(k))'
    <3>1. RawAt(k)' = RawAt(k) /\ ValuesAt(k)' = ValuesAt(k)
      BY <1>1 DEF RawAt, ValuesAt
    <3>2. Sound(vm, pools, aliased, RawAt(k), ValuesAt(k))
      BY <2>1 DEF IInv, FramesSound
    <3>3. QED
      BY <1>1, <3>1, <3>2 DEF Sound, Converted, Conversion, Object
  <2>2. Running /\ owner = "script" => EndsWell(frames[Len(frames)])'
    BY <1>1 DEF IInv, FramesSound, EndsWell, HasScript, RawAt
  <2>3. QED
    BY <1>1, <2>1, <2>2 DEF IInv, FramesSound, Running
<1>4. OwnerSound' /\ CacheSound' /\ HandlerSound'
  BY <1>1 DEF IInv, OwnerSound, CacheSound, HandlerSound, Idle, Running, HasScript
<1>5. QED
  BY <1>2, <1>3, <1>4 DEF IInv

LEMMA NextSound ==
    ASSUME IInv, [Next]_vars
    PROVE  IInv'
<1>1. ASSUME NEW source \in Sources, Eval(source) PROVE IInv'
  BY <1>1, EvalSound
<1>2. ASSUME NEW script \in Scripts, CompileScript(script) PROVE IInv'
  BY <1>2, CompileScriptSound
<1>3. CASE RunInit
  BY <1>3, RunInitSound
<1>4. CASE CallFunction
  BY <1>4, CallFunctionSound
<1>5. CASE GcCollect
  BY <1>5, GcCollectSound
<1>6. ASSUME NEW expression \in Expressions, EvalInContext(expression) PROVE IInv'
  BY <1>6, EvalInContextSound
<1>7. ASSUME Running, NEW i \in FunctionsIn(RunningCode), StoreFunction(i) PROVE IInv'
  BY <1>7, StoreFunctionSound
<1>8. ASSUME Running, NEW i \in FunctionsIn(RunningCode), MakeClosure(i) PROVE IInv'
  BY <1>8, MakeClosureSound
<1>9. ASSUME Running, NEW i \in FunctionsIn(RunningCode), Call(i) PROVE IInv'
  BY <1>9, CallSound
<1>10. CASE Running /\ Leave
  BY <1>10, LeaveSound
<1>11. CASE UNCHANGED vars
  BY <1>11, StutterSound
<1>12. QED
  BY <1>1, <1>2, <1>3, <1>4, <1>5, <1>6, <1>7, <1>8, <1>9, <1>10, <1>11 DEF Next

-----------------------------------------------------------------------------
(* What running code relies on *)

LEMMA FindsConstants == IInv => OwnConstants
<1> SUFFICES ASSUME IInv, Running PROVE OwnConstants
  BY DEF OwnConstants
<1> DEFINE raw == vm.constants_raw
<1>1. /\ Sound(vm, pools, aliased, raw, vm.values) /\ raw \in DOMAIN pools
      /\ RunningCode = pools[raw].code /\ Moved(vm, pools, worn)
  BY RunningSound DEF RunningCode, IInv, MachineSound
<1>2. ASSUME raw \notin aliased, NEW i \in DOMAIN Constants[RunningCode]
      PROVE  Finds(i)
  <2>1. vm.values = Conversion(pools, raw) /\ pools[raw].migrated /\ ToSet(vm.values) \subseteq vm.heap
    BY <1>1, <1>2 DEF Sound, Converted
  <2>2. i \in DOMAIN vm.values /\ vm.values[i] = Object(pools, raw, i)
    BY <1>1, <1>2, <2>1 DEF Conversion
  <2>3. vm.values[i] \in vm.heap
    BY <2>1, <2>2 DEF ToSet
  <2>4. ASSUME Constants[RunningCode][i] = "builtin", raw \notin worn
        PROVE  Member(RunningCode, i) \in vm.heap
    <3>1. Members(RunningCode) \subseteq vm.heap
      BY <1>1, <2>1, <2>4 DEF Moved
    <3>2. Member(RunningCode, i) \in Members(RunningCode)
      BY <1>2, <2>4 DEF Members
    <3>3. QED
      BY <3>1, <3>2
  <2>5. QED
    BY <2>2, <2>3, <2>4 DEF Finds
<1>3. QED
  BY <1>1, <1>2 DEF OwnConstants

LEMMA HoldsScript == IInv => ScriptHeld
BY DEF ScriptHeld, IInv, OwnerSound, HasScript

LEMMA Soundness == Spec => []IInv
BY InitSound, NextSound, PTL DEF Spec

(***************************************************************************)
(* Running code finds its own constants in its own heap, whatever ran in   *)
(* the VM before, failed or was collected, whatever eval's cache dropped   *)
(* and wherever pools are allocated (preconvert_constants, reset_for_run,  *)
(* gc_collect and the restoring of an activation in vm.rs and rvm.rs). The *)
(* two exceptions are those of OwnConstants.                               *)
(***************************************************************************)
THEOREM ConstantsAreOwn == Spec => []OwnConstants
BY Soundness, FindsConstants, PTL

(***************************************************************************)
(* Between two requests the VM of a ScriptState holds the pool of its      *)
(* script, although eval_in_context swaps another one in and may fail, and *)
(* it points at no pool that was dropped.                                  *)
(***************************************************************************)
THEOREM ScriptIsHeld == Spec => []ScriptHeld
BY Soundness, HoldsScript, PTL
=============================================================================
