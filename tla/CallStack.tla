------------------------------ MODULE CallStack ------------------------------
(***************************************************************************)
(* Calls in the register VM: one set of machine registers, and a native    *)
(* call for each activation, which keeps what it has to give back to its   *)
(* caller.  There are three ways into a function (call_register_direct     *)
(* with its fast path for recursion, execute_compiled_function_slice,      *)
(* execute_generator_body), which save, take and give back different       *)
(* parts, `new`, and the calls of the host.  Any of them may fail at any   *)
(* depth.                                                                  *)
(***************************************************************************)
EXTENDS Integers, Sequences

CONSTANTS
    Functions, Classes,
    Script, Expression,   \* top-level code, and that of eval_in_context
    NoClass,
    Unused,               \* the entry (0, 0) of an inline cache
    CacheSlots,           \* num_cache_slots of each code
    RegisterCount,        \* register_count of each code
    AsyncFunctions, RestFunctions, GeneratorFunctions,
    Parts,                \* of a class: field initializers, then the constructor
    STACK_SIZE,
    MaxArgs,              \* bound: `this` and the arguments of a call
    MaxIp,                \* bound: positions in a code
    MaxSp                 \* bound: arguments that failed calls of the host leave

Code == Functions \union {Script, Expression}
Positions == 0 .. MaxIp
Target == Classes \union {NoClass}
Entry == Code \union {Unused}   \* an entry is known by the code that remembered it

ASSUME CodeAssumption ==
    /\ Script \notin Functions /\ Expression \notin Functions /\ Script # Expression
    /\ NoClass \notin Classes /\ Unused \notin Code
    /\ CacheSlots \in [Code -> Nat]
    /\ RegisterCount \in [Code -> Nat \ {0}]
    /\ GeneratorFunctions \subseteq Functions
    /\ Parts \in [Classes -> Seq(Functions \ GeneratorFunctions)]
ASSUME SizeAssumption ==
    /\ STACK_SIZE \in Nat /\ MaxArgs \in Nat /\ MaxIp \in Nat /\ MaxSp \in Nat
    /\ RegisterCount[Script] <= STACK_SIZE /\ STACK_SIZE <= MaxSp

VARIABLES
    vm,         \* the machine registers
    stack_len,  \* the length of the value stack
    cell,       \* what each function's inline_cache holds while it is not in use
    acts,       \* the native calls that wait for each other, the innermost last
    raising,    \* an error is on its way out
    leaked      \* history: new_target is left over from a constructor that failed

vars == <<vm, stack_len, cell, acts, raising, leaked>>

Machine ==
    [ip : Positions,
     inst_ptr : Code,         \* whose instructions and constants are read
     instructions : Code,     \* the Rc that keeps some of them
     max_stack_depth : Code,  \* whose bound it is
     inline_cache : Seq(Entry),
     sp : 0 .. MaxSp,
     new_target : Target]

CodeKinds == {"Run", "Expression", "Self", "Direct", "Slice", "Body"}
HostKinds == {"CallFunction", "CallValue"}

\* A native call.  `saved` is the whole machine as it was found; what is given
\* back of it is up to each kind.
Activation ==
    [kind : CodeKinds \union HostKinds \union {"New"},
     func : Code,                   \* the code that is read while this is innermost
     callee : Functions \union Target,  \* what New and the host call
     begun : Nat,                   \* the calls of that made so far
     reg_base : 0 .. MaxSp, window : Nat,
     written : Nat,                 \* the call writes so much from reg_base on
     saved : Machine, was_leaked : BOOLEAN]

Top == acts[Len(acts)]
Idle == acts = <<>>
Runs == ~Idle /\ ~raising /\ Top.kind \in CodeKinds

Max2(m, n) == IF m > n THEN m ELSE n
Min2(m, n) == IF m < n THEN m ELSE n
Fresh(f) == [k \in 1 .. CacheSlots[f] |-> Unused]

\* run_init has entered the script's top-level code.
Init ==
    /\ vm = [ip |-> 0, inst_ptr |-> Script, instructions |-> Script,
             max_stack_depth |-> Script, inline_cache |-> Fresh(Script),
             sp |-> RegisterCount[Script], new_target |-> NoClass]
    /\ stack_len = RegisterCount[Script]
    /\ cell = [f \in Functions |-> Fresh(f)]
    /\ acts = <<[kind |-> "Run", func |-> Script, callee |-> NoClass, begun |-> 0,
                 reg_base |-> 0, window |-> RegisterCount[Script],
                 written |-> RegisterCount[Script],
                 saved |-> [vm EXCEPT !.sp = 0], was_leaked |-> FALSE]>>
    /\ raising = FALSE
    /\ leaked = FALSE

-----------------------------------------------------------------------------
(* Into a function *)

\* The native calls, with one more counted that the innermost makes.
Counted ==
    IF Idle \/ Runs THEN acts ELSE [acts EXCEPT ![Len(acts)].begun = @ + 1]

\* A native call on top of the others, made by code that goes on at ip.
Begin(kind, func, callee, window, written, ip) ==
    acts' = Append(Counted,
                   [kind |-> kind, func |-> func, callee |-> callee, begun |-> 0,
                    reg_base |-> vm.sp, window |-> window, written |-> written,
                    saved |-> [vm EXCEPT !.ip = ip], was_leaked |-> leaked])

\* Mutant: a cache that is out is not replaced.
TakenAsFound(f) == cell[f]

\* The cache for a call of f: its own, or a fresh one while an activation of f has that.
Taken(f) == IF cell[f] = <<>> THEN Fresh(f) ELSE cell[f]

\* A function without cached accesses leaves its caller's cache in place.
CacheDuring(f) == IF CacheSlots[f] > 0 THEN Taken(f) ELSE vm.inline_cache

\* Mutant: the bound is checked for the start of the window only.
FitsAtBase(window) == vm.sp < STACK_SIZE

\* Mutant: no bound at all.
FitsAlways(window) == TRUE

Fits(window) == vm.sp + window <= STACK_SIZE

\* A StackOverflow before anything was changed
Overflow(ip) ==
    /\ vm' = [vm EXCEPT !.ip = ip]
    /\ raising' = TRUE
    /\ UNCHANGED <<stack_len, acts, leaked>>

GrowTo(len) == stack_len' = Max2(stack_len, len)

\* What `this`, the arguments and `undefined` for the other registers take when
\* they are copied to a window; a rest parameter collects what it has no register for.
Written(f, args) ==
    IF f \in RestFunctions THEN RegisterCount[f] ELSE Max2(RegisterCount[f], args)

\* The fast path: same code, constants and cache.
IsSelfCall(f) == f = vm.inst_ptr /\ f \notin AsyncFunctions \union RestFunctions

CallSelf(f, args, ip) ==
    /\ Begin("Self", f, NoClass, RegisterCount[f], Written(f, args), ip)
    /\ vm' = [vm EXCEPT !.ip = 0, !.sp = @ + RegisterCount[f]]
    /\ UNCHANGED cell

CallOther(f, args, ip) ==
    /\ Begin("Direct", f, NoClass, RegisterCount[f], Written(f, args), ip)
    /\ vm' = [vm EXCEPT !.ip = 0, !.inst_ptr = f, !.max_stack_depth = f,
                        !.inline_cache = CacheDuring(f), !.sp = @ + RegisterCount[f]]
    /\ cell' = [cell EXCEPT ![f] = <<>>]

\* The window that is checked and reserved has the registers of f, however many
\* arguments are copied: those for which f has no register land behind it.
CallRegisterDirect(f, args, ip) ==
    \/ /\ ~Fits(RegisterCount[f])
       /\ Overflow(ip)
       /\ UNCHANGED cell
    \/ /\ Fits(RegisterCount[f])
       /\ IF IsSelfCall(f) THEN CallSelf(f, args, ip) ELSE CallOther(f, args, ip)
       /\ GrowTo(vm.sp + RegisterCount[f])
       /\ UNCHANGED <<raising, leaked>>

\* What execute_compiled_function_slice and execute_generator_body share: the
\* cache is taken before the window is checked, and put back if there is no room.
CallSwapped(kind, f, window, start, ip) ==
    \/ /\ ~Fits(window)
       /\ Overflow(ip)
       /\ cell' = [cell EXCEPT ![f] = Taken(f)]
    \/ /\ Fits(window)
       /\ Begin(kind, f, NoClass, window, window, ip)
       /\ vm' = [vm EXCEPT !.ip = start, !.inst_ptr = f, !.instructions = f,
                           !.max_stack_depth = f, !.inline_cache = CacheDuring(f),
                           !.sp = @ + window]
       /\ cell' = [cell EXCEPT ![f] = <<>>]
       /\ GrowTo(vm.sp + window)
       /\ UNCHANGED <<raising, leaked>>

\* Here the window is large enough for the arguments, too.
ExecuteCompiledFunctionSlice(f, args, ip) ==
    CallSwapped("Slice", f, Written(f, args), 0, ip)

\* start: the saved position of a generator that is resumed
ExecuteGeneratorBody(f, start, ip) ==
    CallSwapped("Body", f, RegisterCount[f], start, ip)

-----------------------------------------------------------------------------
(* Out of a function *)

\* Mutant: the code of the caller is taken from the Rc.
SwappedFromInstructions(saved, f) ==
    [vm EXCEPT !.ip = saved.ip, !.instructions = saved.instructions,
               !.inst_ptr = saved.instructions, !.max_stack_depth = saved.max_stack_depth,
               !.inline_cache = IF CacheSlots[f] > 0 THEN saved.inline_cache ELSE @,
               !.sp = saved.sp]

SwappedBack(saved, f) ==
    [vm EXCEPT !.ip = saved.ip, !.instructions = saved.instructions,
               !.inst_ptr = saved.inst_ptr, !.max_stack_depth = saved.max_stack_depth,
               !.inline_cache = IF CacheSlots[f] > 0 THEN saved.inline_cache ELSE @,
               !.sp = saved.sp]

Restored(a) ==
    CASE a.kind = "Self" -> [vm EXCEPT !.ip = a.saved.ip, !.sp = a.saved.sp]
      [] a.kind = "Direct" ->
            [vm EXCEPT !.ip = a.saved.ip, !.inst_ptr = a.saved.inst_ptr,
                       !.max_stack_depth = a.saved.max_stack_depth,
                       !.inline_cache = IF CacheSlots[a.func] > 0
                                        THEN a.saved.inline_cache ELSE @,
                       !.sp = a.saved.sp]
      [] a.kind \in {"Slice", "Body"} -> SwappedBack(a.saved, a.func)
      [] a.kind = "Expression" ->
            [vm EXCEPT !.ip = a.saved.ip, !.instructions = a.saved.instructions,
                       !.inst_ptr = a.saved.instructions,
                       !.max_stack_depth = a.saved.max_stack_depth,
                       !.inline_cache = a.saved.inline_cache, !.sp = a.saved.sp]
      [] OTHER -> vm

\* Mutant: a call that fails leaves without giving the cache back.
GivenBackOnReturn(a) ==
    IF raising \/ a.kind \notin {"Direct", "Slice", "Body"} \/ CacheSlots[a.func] = 0
    THEN cell ELSE [cell EXCEPT ![a.func] = vm.inline_cache]

\* A direct call gives the cache back unless a call within it did; the others always do.
GivenBack(a) ==
    IF \/ a.kind \notin {"Direct", "Slice", "Body"}
       \/ CacheSlots[a.func] = 0
       \/ a.kind = "Direct" /\ cell[a.func] # <<>>
    THEN cell
    ELSE [cell EXCEPT ![a.func] = vm.inline_cache]

\* Who keeps the error of a from going on: an async function makes a promise of
\* it, the host gets it from top-level code, and sort takes it for "equal".
Handled(a) ==
    \/ a.kind \in {"Direct", "Slice"} /\ a.func \in AsyncFunctions
    \/ a.kind \in {"Run", "Expression"}
MayBeSort(a) == a.kind = "Slice" /\ Len(acts) > 1 /\ acts[Len(acts) - 1].kind \in CodeKinds

\* The innermost code has returned, yielded, or failed.
Leave ==
    /\ ~Idle /\ Top.kind \in CodeKinds
    /\ acts' = SubSeq(acts, 1, Len(acts) - 1)
    /\ vm' = Restored(Top)
    /\ cell' = GivenBack(Top)
    /\ stack_len' = IF Top.kind \in {"Slice", "Body"} THEN Min2(stack_len, Top.saved.sp)
                    ELSE stack_len
    /\ \/ raising' = (raising /\ ~Handled(Top))
       \/ MayBeSort(Top) /\ raising' = FALSE
    /\ UNCHANGED leaked

-----------------------------------------------------------------------------
(* What running code does *)

\* A miss of the inline cache; the slot is not compared with the cache's length.
Remember(k) ==
    /\ Runs
    /\ vm' = [vm EXCEPT !.inline_cache[k] = vm.inst_ptr]
    /\ UNCHANGED <<stack_len, cell, acts, raising, leaked>>

\* Slow paths push their operands or results and pop them again.
PushAndPop ==
    /\ Runs /\ vm.sp < STACK_SIZE
    /\ stack_len' = vm.sp
    /\ UNCHANGED <<vm, cell, acts, raising, leaked>>

Throw ==
    /\ Runs
    /\ raising' = TRUE
    /\ UNCHANGED <<vm, stack_len, cell, acts, leaked>>

\* Call, CallGlobal, CallMethod: the arguments are registers of the caller.
Call(f, args, ip) ==
    /\ Runs /\ f \notin GeneratorFunctions /\ args <= Top.window + 1
    /\ CallRegisterDirect(f, args, ip)

\* Accessors, callbacks of builtins, spreads, super constructors, InitClass
CallBack(f, args, ip) ==
    /\ Runs /\ f \notin GeneratorFunctions
    /\ ExecuteCompiledFunctionSlice(f, args, ip)

GeneratorNext(f, start, ip) ==
    /\ Runs /\ f \in GeneratorFunctions
    /\ ExecuteGeneratorBody(f, start, ip)

\* execute_new_with_args_slice
New(c, ip) ==
    /\ Runs
    /\ Begin("New", vm.inst_ptr, c, 0, 0, ip)
    /\ vm' = [vm EXCEPT !.ip = ip, !.new_target = c]
    /\ leaked' = FALSE
    /\ UNCHANGED <<stack_len, cell, raising>>

Constructing == ~Idle /\ Top.kind = "New"

NextPart(args) ==
    /\ Constructing /\ ~raising /\ Top.begun < Len(Parts[Top.callee])
    /\ ExecuteCompiledFunctionSlice(Parts[Top.callee][Top.begun + 1], args, vm.ip)

\* A constructor that fails leaves by `?`, before new_target is restored.
FailNew ==
    /\ vm' = vm
    /\ raising' = TRUE
    /\ leaked' = TRUE
    /\ UNCHANGED stack_len

\* Mutant: the other constructors' way out forgets new_target.
EndNewForgetful ==
    /\ Constructing
    /\ acts' = SubSeq(acts, 1, Len(acts) - 1)
    /\ \/ raising /\ FailNew
       \/ /\ ~raising /\ Top.begun = Len(Parts[Top.callee])
          /\ UNCHANGED <<vm, stack_len, raising, leaked>>
    /\ UNCHANGED cell

\* The instance is pushed and popped again, if there is room for it.
EndNew ==
    /\ Constructing
    /\ acts' = SubSeq(acts, 1, Len(acts) - 1)
    /\ \/ raising /\ FailNew
       \/ /\ ~raising /\ Top.begun = Len(Parts[Top.callee])
          /\ IF vm.sp >= STACK_SIZE THEN FailNew
             ELSE /\ vm' = [vm EXCEPT !.new_target = Top.saved.new_target]
                  /\ stack_len' = vm.sp
                  /\ leaked' = Top.was_leaked
                  /\ UNCHANGED raising
    /\ UNCHANGED cell

-----------------------------------------------------------------------------
(* What the host does between two runs *)

\* call_function, call_compiled_function, call_value: the arguments are pushed first.
HostCall(kind, f, args) ==
    /\ Idle /\ vm.sp + args <= MaxSp
    /\ Begin(kind, vm.inst_ptr, f, args, args, vm.ip)
    /\ vm' = [vm EXCEPT !.sp = @ + args]
    /\ GrowTo(vm.sp + args)
    /\ UNCHANGED <<cell, raising, leaked>>

Calling(kind) == ~Idle /\ Top.kind = kind

\* What was pushed is passed, and `this` to a function that takes it.
HostEnters ==
    /\ ~Idle /\ Top.begun = 0 /\ ~raising
    /\ \E args \in {Top.window, Top.window + 1} :
          \/ Calling("CallFunction") /\ CallRegisterDirect(Top.callee, args, vm.ip)
          \/ Calling("CallValue") /\ ExecuteCompiledFunctionSlice(Top.callee, args, vm.ip)

\* An error returns before sp is restored.
HostCallEnds ==
    /\ ~Idle /\ Top.kind \in HostKinds
    /\ \/ raising /\ UNCHANGED vm
       \/ ~raising /\ Top.begun = 1 /\ vm' = [vm EXCEPT !.sp = Top.saved.sp]
    /\ acts' = SubSeq(acts, 1, Len(acts) - 1)
    /\ raising' = FALSE
    /\ UNCHANGED <<stack_len, cell, leaked>>

\* Without room for a window, eval_in_context leaves the machine as it was.
EvalInContext ==
    /\ Idle /\ Fits(RegisterCount[Expression])
    /\ Begin("Expression", Expression, NoClass, RegisterCount[Expression],
             RegisterCount[Expression], vm.ip)
    /\ vm' = [vm EXCEPT !.ip = 0, !.inst_ptr = Expression, !.instructions = Expression,
                        !.max_stack_depth = Expression, !.inline_cache = Fresh(Expression),
                        !.sp = @ + RegisterCount[Expression]]
    /\ GrowTo(vm.sp + RegisterCount[Expression])
    /\ UNCHANGED <<cell, raising, leaked>>

-----------------------------------------------------------------------------
Next ==
    \/ \E k \in 1 .. CacheSlots[vm.inst_ptr] : Remember(k)
    \/ PushAndPop
    \/ Throw
    \/ \E f \in Functions, args \in 0 .. MaxArgs, ip \in Positions \ {0} : Call(f, args, ip)
    \/ \E f \in Functions, args \in 0 .. MaxArgs, ip \in Positions \ {0} : CallBack(f, args, ip)
    \/ \E f \in Functions, start \in Positions, ip \in Positions \ {0} : GeneratorNext(f, start, ip)
    \/ \E c \in Classes, ip \in Positions \ {0} : New(c, ip)
    \/ \E args \in 0 .. MaxArgs : NextPart(args)
    \/ EndNew
    \/ Leave
    \/ \E f \in Functions, args \in 0 .. MaxArgs : HostCall("CallFunction", f, args)
    \/ \E f \in Functions \ GeneratorFunctions, args \in 0 .. MaxArgs :
           HostCall("CallValue", f, args)
    \/ HostEnters
    \/ HostCallEnds
    \/ EvalInContext

Spec == Init /\ [][Next]_vars

-----------------------------------------------------------------------------
(* What a call owes its caller, and the machine the code it runs, however     *)
(* calls are nested and whichever of them fail                              *)

(* Type correctness of the whole state: sp in particular stays within the  *)
(* stack while code runs on it.                                            *)
TypeOK ==
    /\ vm \in Machine
    /\ stack_len \in 0 .. MaxSp
    /\ cell \in [Functions -> Seq(Entry)]
    /\ acts \in Seq(Activation)
    /\ raising \in BOOLEAN /\ leaked \in BOOLEAN

\* A cache that belongs to the code c: a slot for each of its accesses, and
\* nothing that other code remembered.
IsCacheOf(cache, c) ==
    /\ Len(cache) = CacheSlots[c]
    /\ \A k \in 1 .. Len(cache) : cache[k] \in {c, Unused}

\* The code whose dispatch loop runs, or the script between two runs.
Current == IF Idle THEN Script ELSE Top.func

(* The machine has the code, the stack bound and the inline cache of the   *)
(* function that runs, also after callees returned, failed, overflowed, or *)
(* were activations of the same function: a cached access, which does not  *)
(* check its slot, stays inside the cache and never sees the shapes that   *)
(* another function remembered.                                            *)
RunsWithItsOwn ==
    /\ vm.inst_ptr = Current /\ vm.max_stack_depth = Current
    /\ CacheSlots[Current] > 0 => IsCacheOf(vm.inline_cache, Current)

(* The cache that a call takes out of its function comes home: it is away  *)
(* only while an activation of that function is, and it comes back with a  *)
(* slot for each access, whichever of the activations brings it.           *)
CachesComeHome ==
    \A f \in Functions :
        \/ IsCacheOf(cell[f], f)
        \/ cell[f] = <<>> /\ \E i \in 1 .. Len(acts) :
              acts[i].func = f /\ acts[i].kind \in {"Direct", "Slice", "Body"}

(* Windows lie above each other, the innermost ends at sp, and none that   *)
(* is still in use reaches behind the stack: neither a truncation at the   *)
(* end of a call nor a push by a slow path cuts off a caller's registers,  *)
(* and what a call copies, which it writes from its reg_base on, reaches   *)
(* no register in use.  All that is copied fits the window, but for direct *)
(* calls: surplus arguments land above every window in use.                *)
WindowsApart ==
    /\ ~Idle => vm.sp = Top.reg_base + Top.window
    /\ \A i \in 1 .. Len(acts) : \A j \in i + 1 .. Len(acts) :
          acts[i].reg_base + acts[i].window <= acts[j].reg_base
    /\ \A i \in 1 .. Len(acts) :
          acts[i].kind \in CodeKinds =>
              acts[i].reg_base + acts[i].window <= Min2(stack_len, STACK_SIZE)
    /\ \A i \in 1 .. Len(acts) :
          acts[i].kind \notin {"Self", "Direct"} => acts[i].written <= acts[i].window

\* The cache `now` has all that was remembered in `before`.
Keeps(now, before) ==
    /\ Len(now) = Len(before)
    /\ \A k \in 1 .. Len(before) : before[k] # Unused => now[k] = before[k]

\* The caller of the call that this step ends can go on: but top-level code has
\* no caller, and a call of the host that fails leaves its arguments.
GoesOn ==
    LET a == Top IN
    \/ a.kind = "Run"
    \/ /\ a.kind \in HostKinds /\ raising
       /\ vm' = vm /\ vm.sp = a.saved.sp + a.window
    \/ /\ vm'.ip = a.saved.ip
       /\ vm'.inst_ptr = a.saved.inst_ptr
       /\ vm'.instructions = a.saved.instructions
       /\ vm'.max_stack_depth = a.saved.max_stack_depth
       /\ vm'.sp = a.saved.sp
       /\ Keeps(vm'.inline_cache, a.saved.inline_cache)
       /\ (a.kind = "New" /\ ~raising') => vm'.new_target = a.saved.new_target

(* A call that ends, by return, yield or error, gives its caller the       *)
(* machine back as it was: position, code, constants, bound, sp, and a     *)
(* cache that still has all the caller remembered; a constructor that      *)
(* returns also gives new.target back.                                     *)
CallerGoesOn == [][Len(acts') < Len(acts) => GoesOn]_vars

\* t is the class of the innermost constructor among the first n activations.
IsTarget(t, n) ==
    /\ (\A i \in 1 .. n : acts[i].kind # "New") => t = NoClass
    /\ \A i \in 1 .. n :
          (acts[i].kind = "New" /\ \A j \in i + 1 .. n : acts[j].kind # "New")
              => t = acts[i].callee

(* new.target is the class that is being constructed, and undefined where  *)
(* none is, through nested constructors and errors in whatever they call;  *)
(* but not once a constructor itself has failed, until another begins or   *)
(* one around it returns.                                                  *)
NewTargetIsOwn == ~leaked => IsTarget(vm.new_target, Len(acts))
=============================================================================
