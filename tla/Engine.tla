------------------------------- MODULE Engine -------------------------------
(***************************************************************************)
(* Where running code finds its constants.  Compiled code has a pool of    *)
(* constants behind an Rc; the machine converts a pool to Values once and  *)
(* remembers them by the address of the pool.  FormLogicEngine::eval keeps *)
(* compiled scripts in a cache and runs them all in one recycled VM; a     *)
(* ScriptState runs its script, functions and further expressions in a VM  *)
(* of its own.  The module follows one VM, of the one or the other kind.   *)
(*                                                                         *)
(* An object of the heap is named after the constant it was made from, with *)
(* the address of its own pool if it is a function.  The hash of a builtin *)
(* global has one member object that stands for all.  Memory of a dropped  *)
(* pool is free to be allocated again.                                     *)
(***************************************************************************)
EXTENDS Naturals, SequencesExt

CONSTANTS
    Sources,      \* scripts the embedder evaluates
    Scripts,      \* scripts it makes a ScriptState of
    Expressions,  \* what it evaluates in the context of a script
    Functions,    \* the functions in them
    Constants,    \* of each of these: a sequence of "text", "builtin" and functions
    Addresses,    \* where the allocator may put a pool
    Null,
    BYTECODE_CACHE_CAPACITY

Code == Sources \union Scripts \union Expressions \union Functions

ASSUME ConstantsAssumption ==
    /\ Constants \in [Code -> Seq({"text", "builtin"} \union Functions)]
    /\ {"text", "builtin"} \intersect Functions = {}
    /\ \A f \in Functions : \A i \in DOMAIN Constants[f] : Constants[f][i] \notin Functions
    /\ Null \notin Addresses
ASSUME CapacityAssumption == BYTECODE_CACHE_CAPACITY \in Nat \ {0}

VARIABLES
    pools,           \* the pools that are alive, by address
    bytecode_cache,  \* the scripts eval has compiled
    vm,
    frames,          \* the activations of running code, the innermost first
    handler,         \* a global that holds a function
    owner,           \* of the VM
    worn,            \* pools whose builtins were migrated to a heap that was reset
    aliased          \* pools at an address the VM remembers another pool by

vars == <<pools, bytecode_cache, vm, frames, handler, owner, worn, aliased>>

Running == frames # <<>>

-----------------------------------------------------------------------------
(* Pools and objects *)

NoPools == [i \in {} |-> Null]
Object(ps, a, i) == <<ps[a].code, i, ps[a].functions[i], "constant">>
Objects(ps, a) == {Object(ps, a, i) : i \in DOMAIN Constants[ps[a].code]}
Member(code, i) == <<code, i, Null, "member">>
Members(code) == {Member(code, i) : i \in {j \in DOMAIN Constants[code] : Constants[code][j] = "builtin"}}

\* compile_program: a pool for the code and one for each of its functions.
FunctionsIn(code) == {i \in DOMAIN Constants[code] : Constants[code][i] \in Functions}
Places(code) ==
    {at \in [{0} \union FunctionsIn(code) -> Addresses \ DOMAIN pools] :
        \A i, j \in DOMAIN at : at[i] = at[j] => i = j}
Pool(code, at) ==
    [code |-> code, migrated |-> FALSE,
     functions |-> [i \in DOMAIN Constants[code] |->
                        IF i \in FunctionsIn(code) THEN at[i] ELSE Null]]
Compiled(code, at) ==
    [a \in DOMAIN pools \union {at[i] : i \in DOMAIN at} |->
        IF a \in DOMAIN pools THEN pools[a]
        ELSE IF a = at[0] THEN Pool(code, at)
        ELSE Pool(Constants[code][CHOOSE i \in FunctionsIn(code) : at[i] = a], at)]

\* migrate_local_objects: once only, for then there are no local objects left.
Migrated(ps, a) == [ps EXCEPT ![a].migrated = TRUE]
MigratedNow(ps, a) == IF ps[a].migrated THEN {} ELSE Members(ps[a].code)

\* An Rc is held by the cache, the VM, a swapped-out context and by functions,
\* in a pool or in the heap.
Released(ps, cache, v, fs) ==
    LET roots == {cache[k].constants : k \in DOMAIN cache} \union {v.constants}
                     \union {fs[k].constants : k \in DOMAIN fs} \union {o[3] : o \in v.heap}
        nested == {a \in DOMAIN ps : \E r \in roots \intersect DOMAIN ps :
                      \E i \in DOMAIN ps[r].functions : ps[r].functions[i] = a}
    IN  [a \in (DOMAIN ps \intersect roots) \union nested |-> ps[a]]

-----------------------------------------------------------------------------
(* The VM *)

Nothing == [k \in {} |-> <<>>]
NoLast == [key |-> Null, values |-> <<>>]
NewVm == [constants |-> Null, constants_raw |-> Null, values |-> <<>>,
          values_cache |-> Nothing, last |-> NoLast, heap |-> {}]

\* A mutated form: the last conversion is not forgotten.
ResetRemembering(v, ps, a) ==
    [v EXCEPT !.constants = a, !.constants_raw = Null, !.values = <<>>,
              !.values_cache = Nothing, !.heap = MigratedNow(ps, a)]

ResetForRun(v, ps, a) ==
    [v EXCEPT !.constants = a, !.constants_raw = Null, !.values = <<>>,
              !.values_cache = Nothing, !.last = NoLast, !.heap = MigratedNow(ps, a)]

Remembered(v, a) == a = v.last.key \/ a \in DOMAIN v.values_cache

\* preconvert_constants, for the pool at a.
Preconvert(v, ps, a) ==
    LET values ==
            IF a = v.last.key THEN v.last.values
            ELSE IF a \in DOMAIN v.values_cache THEN v.values_cache[a]
            ELSE [i \in DOMAIN Constants[ps[a].code] |-> Object(ps, a, i)]
        found == [v EXCEPT !.constants_raw = a, !.values = values,
                           !.last = [key |-> a, values |-> values]]
    IN  IF Remembered(v, a) THEN found
        ELSE [found EXCEPT !.values_cache = [k \in DOMAIN @ \union {a} |-> IF k = a THEN values ELSE @[k]],
                           !.heap = @ \union Objects(ps, a) \union MigratedNow(ps, a)]
Preconverted(v, ps, a) == IF Remembered(v, a) THEN ps ELSE Migrated(ps, a)

\* The activation keeps what its end gives back.
Frame(kind, v) ==
    [kind |-> kind, constants_raw |-> v.constants_raw, values |-> v.values,
     constants |-> IF kind = "context" THEN v.constants ELSE Null]

Begin(kind, v, ps, a, cache) ==
    /\ vm' = Preconvert(v, ps, a)
    /\ frames' = <<Frame(kind, vm)>> \o frames
    /\ bytecode_cache' = cache
    /\ pools' = Released(Preconverted(v, ps, a), cache, vm', frames')

-----------------------------------------------------------------------------
Init ==
    /\ pools = NoPools
    /\ bytecode_cache = <<>>
    /\ vm = NewVm
    /\ frames = <<>>
    /\ handler = Null
    /\ owner = "none"
    /\ worn = {}
    /\ aliased = {}

(* FormLogicEngine::eval *)

Cached(source) == \E k \in DOMAIN bytecode_cache : bytecode_cache[k].source = source
CachedConstants(source) ==
    bytecode_cache[CHOOSE k \in DOMAIN bytecode_cache : bytecode_cache[k].source = source].constants

\* swap_remove_index(0): the last entry takes the place of the first.
WithoutFirst(cache) ==
    IF Len(cache) = 1 THEN <<>> ELSE <<Last(cache)>> \o SubSeq(cache, 2, Len(cache) - 1)
WithRoom(cache) == IF Len(cache) >= BYTECODE_CACHE_CAPACITY THEN WithoutFirst(cache) ELSE cache

Run(ps, a, cache) ==
    /\ Begin("run", ResetForRun(vm, ps, a), Migrated(ps, a), a, cache)
    /\ owner' = "engine"
    /\ handler' = Null
    /\ worn' = {b \in DOMAIN pools : pools[b].migrated}
    /\ UNCHANGED aliased

Eval(source) ==
    /\ owner # "script"
    /\ ~Running
    /\ \/ Cached(source) /\ Run(pools, CachedConstants(source), bytecode_cache)
       \/ ~Cached(source) /\ \E at \in Places(source) :
              Run(Compiled(source, at), at[0],
                  Append(WithRoom(bytecode_cache), [source |-> source, constants |-> at[0]]))

(* ScriptState *)

CompileScript(script) ==
    /\ owner = "none"
    /\ \E at \in Places(script) :
          /\ vm' = ResetForRun(vm, Compiled(script, at), at[0])
          /\ pools' = Migrated(Compiled(script, at), at[0])
    /\ owner' = "script"
    /\ UNCHANGED <<bytecode_cache, frames, handler, worn, aliased>>

Idle == owner = "script" /\ ~Running

RunInit ==
    /\ Idle
    /\ Begin("run", vm, pools, vm.constants, bytecode_cache)
    /\ UNCHANGED <<handler, owner, worn, aliased>>

CallFunction ==
    /\ Idle
    /\ handler # Null
    /\ Begin("call", vm, pools, handler[3], bytecode_cache)
    /\ UNCHANGED <<handler, owner, worn, aliased>>

EvalInContext(expression) ==
    /\ Idle
    /\ \E at \in Places(expression) :
          LET ps == Compiled(expression, at) IN
          /\ Begin("context", [vm EXCEPT !.constants = at[0]], ps, at[0], bytecode_cache)
          /\ aliased' = aliased \union {a \in DOMAIN ps \ DOMAIN pools : Remembered(vm, a)}
    /\ UNCHANGED <<handler, owner, worn>>

\* The hash of a builtin is shared by its pool and the heap.
Builtins(ps, a) ==
    Members(ps[a].code) \union {o \in Objects(ps, a) : Constants[o[1]][o[2]] = "builtin"}

\* What the marker finds: the global, what is remembered with the members of
\* builtins, and the builtins in the pools of the script and of the functions.
MarkedValues ==
    vm.heap \intersect ({handler} \union UNION {ToSet(vm.values_cache[a]) : a \in DOMAIN vm.values_cache})
ScannedPools ==
    DOMAIN pools \intersect
        ({vm.constants} \union ToSet(pools[vm.constants].functions) \union {o[3] : o \in MarkedValues})
Marked ==
    MarkedValues \union {Member(o[1], o[2]) : o \in MarkedValues}
        \union UNION {Builtins(pools, a) : a \in ScannedPools}

ForgetConversions(v) == [v EXCEPT !.values_cache = Nothing, !.values = <<>>, !.last = NoLast]

GcCollect ==
    /\ Idle
    /\ vm.heap # {}
    /\ vm' = [ForgetConversions(vm) EXCEPT !.heap = @ \intersect Marked]
    /\ pools' = Released(pools, bytecode_cache, vm', frames)
    /\ aliased' = {}
    /\ UNCHANGED <<bytecode_cache, frames, handler, owner, worn>>

(* Running code *)

RunningCode == pools[vm.constants_raw].code
IsFunction(o) == o # Null /\ o[3] # Null

\* LoadConst of a function and SetGlobal.
StoreFunction(i) ==
    /\ i \in FunctionsIn(RunningCode) \intersect DOMAIN vm.values
    /\ IsFunction(vm.values[i])
    /\ handler' = vm.values[i]
    /\ UNCHANGED <<pools, bytecode_cache, vm, frames, owner, worn, aliased>>

\* MakeClosure takes the function from the pool itself.
MakeClosure(i) ==
    /\ i \in FunctionsIn(RunningCode)
    /\ handler' = Object(pools, vm.constants_raw, i)
    /\ vm' = [vm EXCEPT !.heap = @ \union {handler'}]
    /\ UNCHANGED <<pools, bytecode_cache, frames, owner, worn, aliased>>

\* LoadConst of a function and Call (call_register_direct).
Call(i) ==
    /\ i \in FunctionsIn(RunningCode) \intersect DOMAIN vm.values
    /\ IsFunction(vm.values[i])
    /\ Begin("call", vm, pools, vm.values[i][3], bytecode_cache)
    /\ UNCHANGED <<handler, owner, worn, aliased>>

\* A mutated form: the script's constants are not put back.
GivenBackInPart(f, v) ==
    CASE f.kind = "run" -> v
      [] f.kind = "call" -> [v EXCEPT !.constants_raw = f.constants_raw, !.values = f.values]
      [] f.kind = "context" -> [v EXCEPT !.constants_raw = f.constants, !.values = <<>>]

GivenBack(f, v) ==
    CASE f.kind = "run" -> v
      [] f.kind = "call" -> [v EXCEPT !.constants_raw = f.constants_raw, !.values = f.values]
      [] f.kind = "context" -> [v EXCEPT !.constants = f.constants, !.constants_raw = f.constants,
                                         !.values = <<>>]

\* The activation returns, or fails; the one below may catch the error or fail
\* as well.
Leave ==
    /\ vm' = GivenBack(Head(frames), vm)
    /\ frames' = Tail(frames)
    /\ pools' = Released(pools, bytecode_cache, vm', frames')
    /\ UNCHANGED <<bytecode_cache, handler, owner, worn, aliased>>

-----------------------------------------------------------------------------
Next ==
    \/ \E source \in Sources : Eval(source)
    \/ \E script \in Scripts : CompileScript(script)
    \/ RunInit \/ CallFunction \/ GcCollect
    \/ \E expression \in Expressions : EvalInContext(expression)
    \/ /\ Running
       /\ \/ \E i \in FunctionsIn(RunningCode) : StoreFunction(i) \/ MakeClosure(i) \/ Call(i)
          \/ Leave

Spec == Init /\ [][Next]_vars
=============================================================================
