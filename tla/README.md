# FormLogic: a TLA+ verification project

FormLogic is a script language for embedding: a compiler and a register VM in
Rust (`src/crates/formlogic-core`), and a WebAssembly wrapper
(`src/crates/formlogic-wasm`). This directory models the path a script takes
(tokens, tree, register code, execution) and the parts of the runtime where
state lives long and changes in many places, checks small instances with TLC
and proves the central invariants with TLAPS.

Below, `value.rs`, `engine.rs`, ... are files of `src/crates/formlogic-core/src/`.

## The system

| Component | State | Operations | Who touches it |
|---|---|---|---|
| Heap (`value.rs`) | `objects`, `free_list`, `rc_index` | `alloc`, `register_rc`, `reset`, the sweep's `add_free`, `trim_free_list`, `unregister_rc` | every instruction that creates a reference; the collector |
| Collector (`engine.rs` `gc_collect`, `mark_*`) | `gc_threshold` | mark from globals, stack below `sp`, listeners, callbacks; sweep; truncate | the end of every call from the host; the embedder |
| Objects (`object.rs` `HashObject`) | `pairs`, `values`, `str_slots`, `pairs_dirty`, `shape_version`, `frozen` | `insert_pair`, `remove_pair`, `sync_pairs`, slot reads and writes | property instructions, builtins, host conversions |
| Inline caches (`rvm.rs`, `vm.rs`) | `(shape, slot)` for each cache slot of a function | hit, miss, remember | `GetProp`, `SetProp`, fused compound assignments, method calls |
| Script state (`engine.rs` `ScriptState`) | globals and their high-water mark, `sp`, quota, limits, snapshots | `run_init`, `call_function`, `call_value`, `eval_in_context`, `set_global`, `snapshot_globals`, `restore_globals` | the embedder |
| Host bridge (`vm.rs`, `host_bridge.rs`) | pending host calls, callbacks by id, event listeners | `host.call`, `addEventListener`, drain, resolve, dispatch | script and host, in turns |
| Engine (`engine.rs` `FormLogicEngine`) | cache of compiled scripts, one pooled VM | `eval` and its variants, `reset_for_run` | the embedder |
| Calls (`rvm.rs`, `vm.rs`) | register windows, frames, caches taken out during a call | call, return, throw, construct, closures | instructions and builtins that call back |
| Generators, promises (`vm.rs`, `object.rs`) | saved position and locals, state | `next`, `return`, `throw`, `yield`, `await` | instructions and methods |
| Map and Set (`vm.rs`, `object.rs`) | the entries in insertion order, an index from keys to places | constructors, `set`, `add`, `delete`, `clear`, `forEach` and the rest | method calls, also from callbacks |
| Lexer, imports (`lexer.rs`, `imports.rs`) | none that outlives a compilation | source to tokens; splicing of files | the parser |
| Parser (`parser.rs`, `ast.rs`) | two tokens of lookahead, the errors so far | tokens to a tree, recovery after an error | the engine |
| Register compiler (`rcompiler.rs`, `rcode.rs`) | registers and global slots of names, the next temporary, open loops and tries, unpatched jumps | a tree to register code | the engine |
| Register machine (`rvm.rs`, `vm.rs`) | windows, globals, heap | one instruction after another, calls, callbacks of builtins | the engine |
| Stack compiler and VM (`compiler.rs`, `vm.rs`) | as above | as above, for the older bytecode | one benchmark |
| Bridges (`*_bridge.rs`, `local_storage.rs`) | none | traits the embedder implements | builtins |

The VM is single-threaded. What makes it hard is not parallel threads but
*turns*: script code, builtins that call back into script code, and the host
alternate, and each leaves state behind that the others rely on (values below
`sp`, callbacks, cache entries, free slots, unsynced pairs). The hazards in
`PROJECT.json` list where that bites, each at its line.

What makes each part correct:

- Heap and collector: no reachable slot is freed, no free slot is handed out
  twice, nothing the script can get at dangles.
- Objects and caches: whatever mix of cached and uncached paths wrote a
  property, every reader sees the last write; a frozen object does not change
  (on three paths it does: `props_frozen`).
- Host bridge: a callback runs at most once and for its own answer; a queued
  call reaches the host; limits are per execution.
- Engine: running code finds its own constants, cached or new, also after other code
  ran or failed in the same VM.
- Calls and generators: a call that fails leaves the caller's state as it was;
  a generator goes on where it left off, and a completed one never runs again.
- Map and Set: the index leads each key to its entry, whatever callbacks do.
- Parser: a script is read as the tree its author wrote, and what is accepted
  has nothing left out.
- Register compiler and machine: the code does what the tree means, every jump
  is patched, no instruction touches a register outside of its window.

## Modules

| Module | Content |
|---|---|
| `Heap` | the heap, the collector, the instructions that move references, the calls around them |
| `HeapProperties` | what the heap owes script and host |
| `HeapProofs` | type correctness, soundness of the free list and of the payload index; nothing begins to dangle, a collection keeps what is live |
| `MCHeap`, `heap.cfg`, `heap_captured.cfg` | instances for TLC |
| `PropertyStore` | abstract specification: objects are ordered lists of properties; a frozen one ignores every write |
| `PropertyMap` | `HashObject`, inline caches, the property instructions and copy loops |
| `PropertyMapProperties` | layout, caches, frozen objects, refinement of `PropertyStore` |
| `PropertyMapProofs` | type correctness, layout, caches; `PropertyMap` implements `PropertyStore`; frozen objects stay |
| `MCPropertyMap`, `props_*.cfg` | instances for TLC |
| `HostCalls` | abstract specification: calls are numbered, handed over once, answered at most once |
| `HostBridge` | script and host in turns: host calls, callbacks, event dispatch, the instruction quota, reloads |
| `HostBridgeProperties` | types and order of the queues, refinement of `HostCalls`, progress, the budget of a turn |
| `HostBridgeProofs` | type correctness; `HostBridge` implements `HostCalls`; the budget |
| `MCHostBridge`, `bridge*.cfg` | instances for TLC |
| `Syntax` | scripts as trees, and values |
| `ScriptText` | how a tree is written down: the grammar of ECMAScript as a printer |
| `Parser` | the parser, from tokens to a tree |
| `ParserProperties` | what is written is read, and read whole |
| `MCParser`, `parser.cfg` | scripts and word sequences for TLC |
| `RegisterCode` | instructions, their operands, and what the machine takes on trust |
| `Values` | arithmetic, conversions, arrays and hashes |
| `Lists` | a list without some of its items |
| `RegisterCompiler` | a tree becomes register code |
| `RegisterMachine` | the code runs |
| `ScriptMeaning` | abstract specification: what a tree means, evaluated directly |
| `RegisterProperties` | sound code; jumps and windows of the machine |
| `ScriptProperties` | compiler and machine together: results against `ScriptMeaning` |
| `RegisterProofs` | sound code stays in its code and in its window, for any program |
| `MCRegister`, `register.cfg` | families of scripts for TLC |
| `CallStack` | what a call saves, takes and gives back, in each way into a function; what it owes its caller |
| `CallStackProofs` | all of it, for any functions, classes and sizes |
| `MCCallStack`, `calls.cfg` | an instance for TLC |
| `OrderedMap` | abstract specification: a collection is a list of entries with different keys |
| `Collections` | Map and Set with vector and index |
| `CollectionsProperties`, `CollectionsProofs` | soundness of the index, refinement of `OrderedMap`, for any collections and keys |
| `MCCollections`, `collections.cfg` | an instance for TLC |
| `GeneratorProtocol` | abstract specification: what a script may rely on when it calls generators |
| `Generators` | generator objects, windows of running bodies, yields as errors |
| `GeneratorsProperties`, `GeneratorsProofs` | refinement of `GeneratorProtocol`, completion is final |
| `MCGenerators`, `generators.cfg` | an instance for TLC |
| `Engine` | pools of constants, the cache of compiled scripts, the recycled VM, a script with further expressions |
| `EngineProperties` | running code finds its own constants; a script gets its pool back |
| `EngineProofs` | both, for any scripts, places of pools and size of the cache |
| `MCEngine`, `engine.cfg` | an instance for TLC |

`ScriptProperties` composes compiler and machine with each other;
`ParserProperties` and `ScriptProperties` share the trees of `Syntax`, so that
the two runs together follow a script from its tokens to its effects.
`RegisterMachine` does not know the compiler (its constant `Code`): what it needs of the code it runs
is `RegisterCode!SoundProgram`, which is what can be proved about.

### Heap

A heap index is 1-based; a `Value` is an index or `Inline` (0), which stands
for every value stored inside the 64-bit word. A cell keeps of an `Object` what
references need: its kind, the address of its `Rc` payload (Array, Hash), the
payloads in an instance's fields, the values a closure captured. `items[r]` is
the set of values behind payload `r`; several slots may share one payload, and
an address is used again once no cell, field or host object holds it.

| Code | Definition |
|---|---|
| `Heap::alloc`, `register_rc` | `AllocIndex`, `Alloc` |
| the register instructions | `NewPlain`, `NewArray`, `AppendElement`, `Index`, `SetField`, `GetField`, `MakeClosure`, `GetGlobal`, `SetGlobal` |
| `host.call`, `addEventListener` | `HoldCallback` |
| `mark_object_refs`, `mark_nested_object`, the scan of the roots | `MarkRefs`, `MarkNested`, `Roots`, `reachable` |
| sweep, truncation, `trim_free_list`, `unregister_rc` | `Sweep`, `IsTrimmed`, `FreeSlots`, `RcIndexAfter`, `GcCollect` |
| `run_init`; `call_function`, `call_value`, `call_compiled_function` | `EndInit`; `CallFunction`, `CallValue`, `ReturnFromCall`, `CallFails` |
| `gc_collect` by the embedder, snapshots | `ManualGc`, `SnapshotGlobals`, `RestoreGlobals` |

The recursion of the marker with its visited bits is modelled by what it
computes, the least closed set (`reachable`). The payload of a Hash behaves as
that of an Array. `NewPlain` makes a cell without a payload: a string, or an
instance, whose fields the script fills one by one (`SetField`, through a
register or a global). One entry of a function's register window stands for all
places a running function holds values. `Features` names what a script and its
host make use of, so that a run can combine what it is about.

Abstracted: Map, Set, Generator, Class and BoundMethod cells, which the marker
follows by the same two means; roots that only ever add to what is kept
(constants, pooled locals, `new_target`, cached `typeof` strings); `reset`
between runs of an engine.

### PropertyMap

Slots are 1-based, keys are symbols. A *site* is a cache slot of a function: it
names one property (`KeyOf`) and meets some objects (`ObjsOf`). The instance
distinguishes objects that a script always builds alike (`Records`) from one
that is met by one site only and may be deleted from, frozen and copied onto.
`WritesFrozen` says whether the script takes one of the three paths that do not
look at `frozen` to a frozen object: a compound assignment that hits its cache,
a `delete`, an `Object.assign` onto it (`MayWriteUnchecked`). `PropertyStore` is
what the comment at vm.rs:2850 says, writes to a frozen object are ignored;
`props_frozen` has a script with `WritesFrozen` change one, and `props_cache`
shows, for scripts without, that all the rest of the code keeps to it, writes
through caches that were warm before the freeze among them.
`out` is what the last instruction returned, so that the refinement speaks of
what the script sees and not only of state.

| Code | Definition |
|---|---|
| `insert_pair`, `remove_pair`, `sync_pairs`, `set_by_sym`, `get_by_sym`, `set_value_at_slot_unchecked` | `InsertPair`, `RemovePair`, `Sync`, `SetBySym`, `GetBySym`, `WriteSlot` |
| cache hit and miss in `get_property_val`, `set_property_val` | `Hit`, `Remember`, `GetPropertyVal`, `SetPropertyVal` |
| `GetProp`, `SetProp`, `AddConstToRegProp`, `Index`, `SetIndex`, `DeleteProp` | the actions of these names |
| `Object.freeze`, `Object.entries` | `ObjectFreeze`, `ObjectEntries` |
| object rest and spread, `Object.assign` | `ObjectRest`, `ObjectAssign`, then `CopyEntry` for every turn of the loop and `EndCopy` |

Nothing runs between the turns of a copy loop in the code; the loop is split
because each turn is an `insert_pair` on a target that may be its own source.
A cached access with a remembered slot behind the last value is undefined in
the code and has no successor here (it takes the slow path); `props_shared`
shows that such a state exists, `CacheSound` that it does not under the
condition of `props_cache`.

Abstracted: getters and setters (they switch the fast paths off), keys that
are numbers, method calls through a cache (they read as `GetProp` does),
`AddRegPropsToRegProp` (a read, a read and a write of the kinds modelled),
prototype-less lookup of builtin methods.

### HostBridge

A *turn* is one uninterrupted run of script code: top-level code, a function
the host calls, a handler of an event, a callback. The script's actions change
the VM within a turn, the host's actions happen when it is `Idle`; the wrapper's
loop over the handlers of an event is in between. `loops` says that the code of
a turn never ends by itself, so that only the quota ends it. `spent` counts the
turn's own back-edges and is there for the budget property only. `kept` is the
VM the host goes on holding if the top-level code of a new script fails.

| Code | Definition |
|---|---|
| `queue_host_call`, `host.call` | `QueueHostCall`, `HostCall` |
| `window.addEventListener`, `removeEventListener` | the actions of these names |
| `check_execution_limits` at a backward jump | `BackEdge`, `OverLimit`, `Interrupt` |
| the end of a call, by return or error | `Return`, `Throw`, `Fail` |
| `initScript` | `InitScript`, then `Return` or `Fail` of its turn |
| `callFunction` | `CallFunction`, `CallUndefined` |
| `dispatchEvent` | `DispatchEvent`, then `NextHandler` for each handler |
| `drainPendingHostCalls`, `resolveHostCallback` | `Drain`; `Answer` (`Resolve`, `ResolveUnknown`) |

The host may answer any call it was ever given, as often as it likes, in any
order, also after another script was loaded. Numbers start at 1 with every
script, so an answer to a call of the script before is taken for the new
script's call of that number; the abstract specification says so (`late`)
because nothing in the code prevents it.

Abstracted: kinds, arguments and results; events other than one; wall time,
which is kept and reset together with the count; the limits on the heap, which
`set_execution_limits` does not enforce; recursion without a loop, which meets
no back-edge; errors inside an async function, which become a rejected promise
and let its caller go on; values that are not functions registered as handlers,
which behave as a function that does nothing or throws.

### Parser

A token has a kind, its literal and whether a line break precedes it; the lexer
is not modelled, and a template is one token with its parts. A parser `p` is
passed from operator to operator as `&mut self` is passed in the code: each
parse function of `parser.rs` is an operator that returns it with the tree it
found (`ok`, `node`). One step of the module parses one statement.

| Code | Definition |
|---|---|
| `next_token`, `cur_token`, `peek_token`, `expect_peek`, `errors` | `Advance`, `Cur`, `Peek`, `ExpectPeek`, `Error` |
| `parse_program`, its recovery after a statement that cannot be read | `NextStatement`, `ReadStatement`, `SkipStatement`, `Finish` |
| `parse_expression` with precedences | `ParseExpression`, `ParseOperators`, `TokenPrecedence` |
| `is_arrow_function_params` (the probe) | `IsArrowParameterList` |
| array and object literals as assignment patterns | `ValidTarget` |
| the other `parse_*` functions | `Parse*` |

`ScriptText` is the reference: it writes a tree down as the grammar of
ECMAScript has it, with the parentheses the grammar asks for and no others, in
three layouts: a semicolon after every statement, a line for every statement
(with a semicolon in front of those that begin like the rest of an expression),
and as few of both as possible. `ReadsAsWritten` says that the parser finds the
tree again. `NothingLost` says of any sequence of words of its vocabularies that
what is accepted contains every word that carries meaning; the words that the code is
known to lose are in none of them (*Known divergences*). That parsing ends is no property:
within a statement it is a property of operators, and TLC evaluates them all.

### RegisterCompiler, RegisterMachine

The compiler `c` is `RCompiler`: the code so far, the registers of names
(`locals`), the global slots, `nextTemp` and `maxReg`, the open loops and try
statements. Every operator takes it and returns it. A position is the number of
an instruction instead of a byte offset; `Unpatched` stands for the placeholder
9999; a constant is kept in the instruction that loads it.

| Code (`rcompiler.rs`) | Definition |
|---|---|
| `alloc_temp`, `ensure_local`, `ensure_global_slot` | `AllocTemp`, `EnsureLocal`, `EnsureGlobal` |
| mirroring of captured names, reloading after calls | `MirrorIfNeeded`, `ReloadLocalsFromGlobals`, `CapturedNames` |
| block scopes | `EnterBlockScope`, `ExitBlockScope` |
| `compile_statement`, `compile_expression` and what they call, with the fused forms | `Compile*` |
| loops, switches, labels and their jumps | `PushLoop`, `PopLoop`, `LeaveLoop` |
| `try`, `catch`, `finally` | `CompileTry` and its parts |
| functions, the program | `CompileFunction`, `EndFunction`, `CompileProgram` |

The machine's `frames` are the windows on the value stack together with the
Rust activations of `rdispatch_loop`; a builtin that calls back is a frame of
its own that waits. `program` is the compiled script.

| Code (`rvm.rs`, `vm.rs`) | Definition |
|---|---|
| `call_register_direct` and its return | `Enter`, `Invoke`, `Leave` |
| `Call`, `CallGlobal`, `CallSpread`, `CallMethod`; builtins | `CallAny`, `CallGlobal`, `CallSpread`, `CallProperty`, `NoMethod`, `CallBuiltin`, `CallWithCallback` |
| returns and the end of the script | `ReturnValue`, `ReturnUndef`, `HaltValue`, `Halt`, `ThrowValue` |
| moves, globals, operators | `Load`, `SetGlobal`, `Binary`, `Unary`, `AddConst` |
| jumps and fused jumps | `Jump`, `JumpIfNot`, `JumpIfTruthy`, `TestConstJump`, `ModTestJump`, `IncrementAndJump` |
| `callback_max_used_args` | `MaySeeThird` |
| arrays, hashes, closures, properties | `MakeArray`, `MakeHash`, `MakeClosure`, `AppendItems`, `GetProperty`, `SetProperty`, `DeleteProp`, `AddConstToProp`, `AddPropsToProp` |
| destructuring and loops over collections | `IteratorRest`, `ObjectRest`, `GetKeysIter` |

The machine checks nothing of its code: it transmutes opcodes ("bytecode is
generated by our compiler", rvm.rs:150), reads constants and jumps through raw
pointers, and addresses registers from the window's base. `CodeIsSound` says
what the compiler owes it: every register an instruction names is one of the
function's, every slot a global, every target and every next instruction in the
code, every function one of the program. It is a property of the code alone,
checked for what the compiler emits (`StartsWithSoundCode` in `register`; the
program does not change after the start). `StaysInCode` and
`StaysInWindow` are about runs; they are checked there too, and proved for any
sound program. `map` and `forEach` call their callback with item, index and, if
the callback may see a third argument, a copy of the array.

`ScriptMeaning` evaluates the tree by the rules of ECMAScript, without
registers, slots or jumps; the run compares what both log and yield. The
comparison is on the instances' scripts only.

Abstracted: numbers are integers (no sum the scripts reach leaves 32 bits);
`this`, classes, `new`, getters and setters, `async` and `yield`, regular
expressions; deduplication of constants and strings; the encoding of
instructions. Heap and inline caches have modules of their own.

### CallStack

One machine (`vm`: position, code, bound, inline cache, `sp`, `new.target`), the
length of the value stack, the caches that lie in functions, and the native
calls that wait for each other. A window is its base and its length; `written`
is what the call copies from the base on, which is more than the window when a
direct call passes more arguments than the function has registers; an entry of
an inline cache is the code that remembered it, since slots mean something to
one function only.

| Code | Definition |
|---|---|
| `call_register_direct`: `Call`, `CallGlobal`, `CallMethod`; its fast path for recursion | `CallRegisterDirect` (`CallOther`, `CallSelf`), `Written`, `Call` |
| `execute_compiled_function_slice`: accessors, callbacks of builtins, `super`, spreads | `ExecuteCompiledFunctionSlice`, `CallBack` |
| `execute_generator_body` | `ExecuteGeneratorBody`, `GeneratorNext` |
| the overflow of a window, before and after the cache was taken | `Overflow` in each |
| the end of a call, by return, yield or error | `Leave` (`Restored`, `GivenBack`, `Handled`) |
| `execute_new_with_args_slice`: field initializers, then the constructor | `New`, `NextPart`, `EndNew`, `FailNew` |
| a miss of an inline cache; `push`, `push_val`, `pop_val` | `Remember`; `PushAndPop` |
| `call_function`, `call_value`, `call_compiled_function`; `eval_in_context` | `HostCall`, `HostEnters`, `HostCallEnds`; `EvalInContext` |

An activation keeps the whole machine as it was found (`saved`), and each kind of
call gives back what its code gives back: the fast path `ip` and `sp` only, a
direct call not `instructions`, `eval_in_context` the pointer taken from
`instructions` and not from what was saved. That this is enough is what
`CallerGoesOn` says. A direct call gives its cache back only if the function's
own is still out; the other two always do, so the innermost activation's
cache may be the one that stays, and `CachesComeHome` says that it fits
all the same. `WindowsApart` is about the stack the windows share: a copy of
arguments begins at the caller's `sp`, where no window in use reaches, and all
but direct calls copy no more than their window. `leaked` is history, read by `NewTargetIsOwn` only: a constructor that
fails leaves `new.target` behind (*Known divergences*).

`Leave` may come at any point, with an error or without. An error goes on
through every activation up to the host (the register VM has no handlers at run
time: `catch` is compiled to jumps within a function), except through an async
function, and through a comparator that `sort` called, which ends as "equal".

Abstracted: what the windows hold, globals, `last_popped`, `locals`; the
pointers to constants, which travel with `inst_ptr` (`Engine` has their
conversion); `new` of builtins and of dates, which run no code of the script with
`new.target`; functions of the stack VM. An `eval_in_context` without room for its
window changes nothing. `run_init` runs once, at the start. `MaxSp` bounds what
failed calls of the host leave on the stack.

### Collections

A collection is a vector of entries and an index from keys to places. `filling`
is a constructor at work on its items, `visiting` the running `forEach` calls
with what each has still to show; the script's callback may call any method in
between, on the same collection too.

| Code (`vm.rs`) | Definition |
|---|---|
| `hash_key_from_object`, `hash_key_from_value`, `object_from_hash_key` | `HashKeyFromObject`, `HashKeyFromValue`, `ObjectFromHashKey` |
| `MapObject`, `SetObject`: insert, remove | `InsertOrReplace`, `InsertUnique`, `RemoveKey` |
| `new Map`, `new Set` from an array or another collection | `MapCtor`, `SetCtor`, `Copy`, `Fill`, `Filled` |
| `set`, `get`, `add`, `has`, `delete`, `clear`, `size` | `MapSet`, `MapGet`, `SetAdd`, `Has`, `Delete`, `Clear`, `Size` |
| `keys`, `values`, `entries` | `List` |
| `forEach`, a callback that fails | `ForEach`, `Visit`, `EndForEach`, `CallbackFails` |

`OrderedMap` has no indices: a list of entries with different keys, and
`forEach` over the entries of its start. Keys that are objects are their text,
in the code as in the model.

### Generators

A generator object has its state, the saved position and the saved registers. A
body that runs is a window; `yield` leaves the body's own dispatch loop as an
error that carries the value. A body is abstract: it keeps all it receives,
yields all of it, and may call any generator between two yields.

| Code (`vm.rs`, `rvm.rs`) | Definition |
|---|---|
| `create_generator` | `CreateGenerator` |
| `execute_generator_next`, `_return`; `GeneratorThrow` | `FirstNext`, `LaterNext`, `NextOfCompleted`, `NextPanics`, `Next_`; `Return`; `Throw` |
| `execute_generator_body`, `finalize_generator_result` | `ExecuteBody`, `StackOverflow`, `SaveRegisters`, `RestoreCaller`, `Finish`, `Fail`, `Failed` |
| `ROp::Yield` | `Yield` |

The code has no state for a generator that runs: it is `Suspended`, so its body
may call its own `next()` and is run a second time, or panic on the first.
`GeneratorProtocol` promises nothing of a generator that was misused like that
(`reentered` is the history variable that tells), but everything of the others.

### Engine

Compiled code has a pool of constants behind an `Rc`. The VM converts a pool to
Values once and remembers them by the address of the pool; that address is free
for another pool when the last `Rc` is gone. One VM is followed, the one that an
engine recycles from script to script, or that of a `ScriptState`. An object of
the heap is named after the constant it was made from. The hash of a builtin
global has one member object, which stands for all of them: the compiler makes
members without a heap, and they move to the VM's once.

| Code | Definition |
|---|---|
| `compile_program`, the allocator | `Compiled`, `Places`; `Released` for pools that nothing holds |
| `migrate_local_objects` | `Migrated`, `MigratedNow` |
| `reset_for_run`, `preconvert_constants` | `ResetForRun`, `Preconvert`, `Preconverted` |
| `eval`, `eval_to_json`, `eval_with_trace` with the cache | `Eval` (`Run`, `WithRoom`) |
| `compile_script`, `run_init`, `call_function`, `eval_in_context` | `CompileScript`, `RunInit`, `CallFunction`, `EvalInContext` |
| `gc_collect` | `GcCollect` (`Marked`, `ForgetConversions`) |
| `LoadConst` of a function, then `SetGlobal` or `Call`; `MakeClosure` | `StoreFunction`, `Call`; `MakeClosure` |
| the end of an activation, by return or error | `Leave` (`GivenBack`) |

Loading a constant is no action: it changes nothing the model has, and
`OwnConstants` says of every moment and every constant of the running code what
a load would find. The collection at the end of a call is one right after it.
`Leave` may come at any point, which is an error caught or not, or a return.
`worn` and `aliased` are history: they name the two cases in which the code
does not find its constants (*Known divergences*), and are read by the
property only.

Abstracted: strings short enough to be stored in a Value; functions within
functions within functions (the code treats them as one level); stale roots
that only keep more (`constants_values_buf`); symbols of constants, which are
remembered and forgotten together with the Values; globals but one.

## Runs

| Run | Shows |
|---|---|
| `heap` | arrays, instance fields, closures, callbacks and arguments left below `sp`, with a host that hands back stale objects and snapshots and collects by hand, in two slots: `TypeOK`, `FreeListSound`, `RcIndexSound`, `GcKeepsLive`, and `NothingStartsToDangle`, which holds of every step that is not the host's own |
| `props_cache` | two records sharing a site and one object with deletions, freezing and copies: `LayoutSound`, `CacheSound`, the refinement `ImplementsStore`, and `FrozenStays` without `WritesFrozen` |
| `bridge` | two handlers registered up to twice, two scripts with two host calls each, one back-edge of quota: `TypeOK`, the refinement `ImplementsHostCalls`, and under fairness `CallsAnswered` and `HandlersRun`; `CallsHaveTheirBudget` |
| `parser` | the families of `MCParser` in every layout, and word sequences: `ReadsAsWritten`, `NothingLost` |
| `register` | the families of `MCRegister`, compiled and run: `StartsWithSoundCode`, `StaysInCode`, `StaysInWindow`, `RunsAsWritten`, `ValueAsWritten`, and under fairness `Terminates` |
| `calls` | a method with a cached access, an async function with one, a helper without, a generator, two classes, called from each other, from themselves and from the host: `TypeOK`, `RunsWithItsOwn`, `CachesComeHome`, `WindowsApart`, `NewTargetIsOwn`, `CallerGoesOn` |
| `collections` | two maps and a set (two at a time), two kinds of keys, `forEach` with callbacks: `IndexSound`, the refinement `ImplementsOrderedMap` |
| `generators` | two generators with bodies of two yields: the refinement `ImplementsProtocol`, and `CompletedForGood` |
| `engine` | three scripts and a cache of two, or a script with a function and two expressions, in five places for pools: `OwnConstants`, `ScriptHeld` |
| `heap_captured`, `props_shared`, `props_frozen` | places where the code differs from what its comments, assertions or tests say; each is a finding in `PROJECT.json` |

Bounds. The heap has two slots, two registers, one global and one payload address.
An object kept only through another needs both slots; garbage below an object
that lives is freed in the middle and handed out again, garbage above it is cut
off, and one behind the other is both, over several rounds. The one address is
shared between slots and used again for another payload. `MaxElements` (1)
bounds the values behind a payload, `MaxCallbacks` (1) the functions the host
holds, `MaxStack` (3) the arguments that failing calls leave behind. Strings are left
out of `Features` there, because to the collector a string is an instance whose
fields were not set. `GC_INITIAL_THRESHOLD` is 0 or 1 instead of the code's value
so that collections happen at the end of calls. More slots, registers and
addresses rest on the theorems, which have no bound. `MaxShape`
(4) lets an object gain two properties and lose one with the cache entry of
every shape still around.

The runs of the heap, the objects, the bridge, the engine and the calls check for deadlock: the host can
always begin another call, and the script can always execute another
instruction. `register`, `parser`, `collections` and `generators` do not: a
script and a parse end, a panic ends a program, and there the bounds on
collections and generators leave nothing to do.

For the bridge, two calls in each of two scripts give calls with and without a
callback, a queue of more than one, a repeated answer, and a late answer that
meets the number of another call; two registrations give an event whose first
handler fails. `MaxInstructions` is 1, so that one turn can use up what the next
one needs. `MaxLoads` counts scripts that were loaded; top-level code may fail
any number of times.

For the parser, `Expressions` puts each of the forms of an expression in each
place of each other, and each infix operator on both sides of each other, so
that every pair of precedences and every prefix, postfix and bracket meets every
other; `Pairs` puts every statement in front of every other, `Nested` every
statement in each of the places that take one; `Sentences` are all sequences of
up to five words over ten vocabularies of words that may be confused with each
other, scripts or not. Deeper trees add no new neighbours: the parser decides on
two tokens and the precedence it was called with.

For the register machine, `Nested` puts every way to leave a statement in every
statement that can contain it, two deep, with a counter that shows where the
code went on; the other families combine targets, operators, right sides and
uses of assignments and updates, operators with operands in registers, constants
and properties, patterns, calls with closures, callbacks and spreads, and
functions called repeatedly from loops. The combinations the code is known to
get wrong (`Divergent` and the conditions of the other families) are left out
one by one, and listed under *Known divergences*; `RunsAsWritten` fails on them.

For the calls, a stack of three registers has room for top-level code and two windows
of one, so that a function is entered again while an activation of it runs, by every pair of
ways, with a constructor between them, and the third call overflows; the generator's window of two overflows one call earlier.
One cached access and an empty or a filled slot tell a function's cache from any
other. `MaxArgs` is 2, so that a function with one register is called with an argument
it has no register for. `MaxSp` is 4: a failed call of the host leaves its arguments, and another
may push the next window behind the end. A fourth register showed nothing new.

For the collections, two items with equal or different keys in a constructor, two
collections copied from each other and one running `forEach` give re-insertion,
deletion in the middle and changes during a visit. For the engine, three scripts
and a cache of two evict in every order, the script with a function needs two
pools, and five places let a new pool have the place of a dropped one, also
while closures of the script or of an expression hold others. For the generators, three
windows let one of two generators be entered twice with the other in between.

Fairness is assumed in `bridge` (`HostBridge!Fairness`) and `register`. The interpreter
and the wrapper's loop are deterministic code that goes on (`WF`): a loop comes to its next back-edge,
other code to its end, the dispatch to its next handler. The host is assumed to
drain again and again and to answer a call it was given unless it has (`SF`,
because it can do so only between turns); this is what the embedder owes, and
without it no callback would have to run. `Throw`, new turns and repeated
answers are never forced. In `register` the dispatch loop goes on to its next
instruction (`WF_vars(Step)`); nothing else is assumed for `Terminates`.

## Proofs

Assumptions are those of the modules: the bounds are naturals, the windows
have at least one register, `NoRc` is not an address.

- `HeapProofs`: `TypeCorrect`, `FreeListIsSound`, `RcIndexIsSound`. The
  inductive invariant `IInv` adds to the three that a Null cell is plain and
  that an Array cell has a payload: without the first, a swept slot could still
  hold a payload whose index entry the sweep removed; without the second an
  array could be stored that `rc_index` does not know. The lemmas about the
  collection say what `SubSeq`, `Sweep` and `Ascending` leave behind.
- `HeapProofs`, on the collector: `NothingBeginsToDangle` and `CollectionKeepsLive`,
  for any script and any host. The marker's set contains the script's, because
  each payload in a slot has its index entry and each in a field is followed
  directly (`SInv` adds to `IInv` that an idle script has no registers and that
  globals behind the high-water mark are inline, so that nothing of the script
  is behind what the collector scans). Outside of collections every value comes
  from a register or was just allocated. Both say what one step may do in a state
  where nothing dangles. That such a state is never left needs a host that
  passes nothing back, restores no snapshot and does not collect by hand
  (`NoStaleHandles`): `NothingDangles`; without it the hazard at engine.rs:396 is real.

- `PropertyMapProofs`: `TypeCorrect`, `LayoutIsSound`, `CacheIsSound`. `Sound`
  is what every operation of `HashObject` preserves: the three views of an
  object are aligned, and clean pairs are fresh. `Stepped` says what any action
  does to an object (its layout stays, a record gets its next property, or the
  shape number grows) and to a site (it learns the slot of its property, or
  nothing); each action is shown to be such a step once, and both invariants
  follow from that alone. `CInv` adds what a site knows: a site with one object
  has remembered a shape no newer than the object's, and the slot of that
  shape; a site with records has remembered a position in `RecordKeys`.
- `PropertyMapProofs`, on the refinement: `CachesAreTransparent`. Each operation of
  `HashObject` does to `Contents` what the abstract operation does (`StoreSync`,
  `StoreWrite`, `StoreInsert`, `StoreRemove`), each action maps to one abstract
  action; `CacheSound` is needed where a hit reads or writes, and a hit or a copy
  that changes a frozen object is excluded by the assumption `~WritesFrozen`. With
  the same assumption, `FrozenObjectsStay`: no step changes a frozen object.

- `HostBridgeProofs`: `CallsAreHandedOver`. The inductive invariant says that a
  VM's queue holds its last calls in order, that callbacks wait for calls that
  were made, that the host was given exactly the calls that left the queue, and
  that nothing is drained while top-level code runs; the last is why a reload
  starts with nothing handed over. There is one step for each action, actions
  that treat the queues alike share a step. `CallsGetTheirBudget`: the invariant
  is that a turn which began with a fresh count, and what the wrapper will run
  of a new script, has counted its own back-edges and no others.
  `TypeCorrect` uses the first invariant and adds that a script is loaded only below the bound
  and that a turn has used no more than its VM has counted; what
  `removeEventListener` leaves of a list comes from the lemmas on `Without`.

- `RegisterProofs`: `RunsInItsCode` and `RunsInItsWindow`, for any program with
  `CodeIsSound`: any number of functions, registers, globals and instructions,
  any depth of calls. Neither is inductive: a call goes to whatever a register,
  global, property or callback holds, and a return to the activation below. The
  invariant `IInv` therefore covers the whole state while the machine runs
  (`SoundState`): every value in the heap, the globals and the registers of every
  activation refers to a cell, or to a function of the program, that exists; each
  activation, not only the running one, has its next instruction in its
  function's code and as many registers as that function has; and a builtin that
  waits for its callback stands between two activations of code, so that a
  return always finds a place to continue. TLC has checked `IInv` on
  the states of `register`. The lemmas follow the layers: values (arithmetic
  yields a value, `NumberOf`, `AddSound`), the heap (reads, writes, copies and
  deletions of arrays and hashes keep cells sound, and a heap that grows keeps
  all that referred to it, `StackGrown`), frames (`WithRegSound`, `PushSound`,
  `PopSound`), then one lemma for each action. `EnterSound` is shared by all
  calls; `WindowSound` is the one about `call_register_direct`: whatever the
  number of arguments, the rest parameter and the receiver, each register of the
  callee is written before its code runs. What a call writes behind them, the
  arguments for which there is no register, is in `Window` too; `StaysInWindow`
  says that no instruction touches it, `CallStack` where it lands. The object a spread or literal builds is a recursive
  function of the number of entries; that each stage is a sound hash goes by
  induction on that number (`HashOfKeysSound`, `HashOfPairsSound`).

- `CallStackProofs`: `StateHasItsType`, `CodeRunsWithItsOwn`, `EveryCacheComesHome`,
  `WindowsStayApart`, `EachNewTargetIsOwn`, `CallersGoOn`, for any functions, classes, numbers of
  registers and cached accesses, and any depth of calls. Assumed are that top-level
  code fits the stack, that a function has at least one register
  (`max(1)` in the code), and that what a constructor runs is no generator.
  None of them is inductive but the types: the machine of a caller is in the
  native call above it and nowhere else. `Linked` says what each saved machine
  is good for: it has the code, the bound and, where that has cached accesses, the
  cache of the code below, and the innermost one's is the machine itself. With
  it a restore is the same argument for every kind (`RestoredResumes`, `EndsGoOn`),
  and a push, a pop and a step within an activation are one lemma each
  (`PushKeeps`, `PopKeeps`, `StayKeeps`). The caches need no more than
  that a cache in use fits its code: whichever activation gives
  it back, it has a slot for each access. Why `CallerGoesOn` may claim
  that nothing remembered is lost: a cache that a caller was using is put back
  from `saved`, or the fast path went on using it, and an entry is only ever
  replaced by one of the same code.
- `CollectionsProofs`: `IndexStaysSound`, `CollectionsImplementOrderedMap`,
  for every set of collections, keys (symbols too) and values, and any depth
  of `forEach`. Assumed are only that no collection is both a map and a set and
  that `MaxItems` is a natural. The invariant adds to `IndexSound` that a
  constructor fills a collection that exists. The central lemmas: where the
  index is sound, it finds what a search of the list finds, and each of
  `InsertOrReplace`, `InsertUnique` and `RemoveKey` keeps it so; removing shifts
  the places behind the removed one, and `IndicesFrom` is shown to write just
  those.
- `GeneratorsProofs`: `ProtocolImplemented`, `CompletedStays`, for any number of
  generators, values, yields and windows. The invariant `Sound` says that
  every generator that was not called while it ran has at most one body, a
  created or completed one has none, and a suspended one has a body or a saved
  position behind its first yield. The last is why only a misused
  generator can panic; without the first, what a body has received would not be
  a function of the state.
- `EngineProofs`: `ConstantsAreOwn`, `ScriptIsHeld`, for any code, addresses and
  size of the cache. Assumed are that the functions of the model hold no further
  functions, that `Null` is no address, and that the cache has room for a script.
  The invariant `IInv`: functions in a pool or in the heap have their pools
  (`PoolsSound`, `HeapSound`), which is what a release has to keep; what is
  remembered at an address is the conversion of the pool that is there, unless
  that is `aliased` (`Remembers`); a pool that was migrated, and is not `worn`, has its
  members in the heap (`Moved`), which is why a collection must mark the builtins
  of every pool that survives it; each activation, not only the running one, has
  a pool that something holds (`FramesSound`); and the first activation of a
  script gives back the script's pool (`EndsWell`). `EnterSound` and
  `LeaveSound` are shared by all that begins and ends an activation.


`CacheIsSound` and the refinement of the caches assume `SitesAreUniform`: a site meets one
object, or objects that get the same properties in the same order. The
refinement and `FrozenObjectsStay` assume `~WritesFrozen` besides. The
conditions are not for convenience: `props_shared` and `props_frozen` show
what happens without them, and `heap_captured` why the marker's set is the script's
only without what closures captured.

`RunsInItsCode` and `RunsInItsWindow` assume `CodeIsSound`, which is what the
machine's comment assumes; that the compiler provides it is checked, not proved.

Only model-checked: what the violated runs show; liveness (`CallsAnswered`,
`HandlersRun`, `Terminates`) and `ENABLED`, which this prover cannot do; and what
compiler and parser make of every tree: `StartsWithSoundCode`, `RunsAsWritten`,
`ValueAsWritten`, `ReadsAsWritten`, `NothingLost`. Parser, compiler and
`ScriptMeaning` are operators that recurse over trees, declared `RECURSIVE`, and
the prover knows nothing of those. Where a recursion is over a number it is
written as a recursive function, and then the prover needs two facts: that the
function exists (`CopyExists`, `PairingExists`, `SelectionExists`) and an induction on
its argument, both from one lemma (`Induction` of `RegisterProofs`, and of `HostBridgeProofs`: a set of naturals with
0 and every successor has them all). So `Without` replaces `SelectSeq`, and
`Over` the operator `@@` of module TLC, whose definition the prover cannot see.

## Known divergences

What the code does and a reader of scripts, or of ECMAScript, would not expect.
The models follow the code; the runs that compare it with a reference leave
these out, each at the family it would appear in.

Parser (`parser.rs`):

- In a ternary, an assignment in the first branch is rejected and one in the
  second is read as `(a ? b : c) = d`; `yield a = b` likewise. `++a ** b` is
  rejected. Mixing `||` and `??` and `a + b = c` are accepted.
- The comma operator is known inside parentheses only: `return a, b`, an index
  or a condition with a comma are rejected.
- A block that begins with an expression or a label is read as an object
  literal, so is rejected; `({a = 1} = o)` and `{ get: 1 }` or other keyword keys are
  rejected, although the comment at parser.rs:2187 mentions the second.
- What follows `if (...) {...}` on the next line goes on with it if it begins
  with `(`, `[`, a template, `+`, `-` or `++`.
- `let x` without a value has to be followed by `;`, `,` or `=`, not by a line.
  An empty statement is rejected. `return }` swallows the brace (1287-1292).
- Blocks and classes that are open at the end of the script are accepted; in
  a class, `get` or `set` before something that is no name loses the word and
  takes any token as the name (820-847).
- An integer literal beyond `i64` is neither a tree nor an error, so that its
  statement vanishes (54-65, 1333).
- `a` and `++b` on two lines are read as `a++` and `b`. `a?.b.c` and `(a?.b).c`
  are the same tree.
- Not known at all: `async`, generator, keyword and computed names in classes,
  contextual keywords as names, trailing commas in parameters, names of
  function expressions. Nesting has no limit but the stack's.

Register compiler (`rcompiler.rs`):

- Leaving a `try` with a `finally` by `break`, `continue`, or by `return` from
  an inner `try`, does not run the `finally` block (559); README.md:20 and the test
  `finally_always_runs` (tests/features_parity.rs:8102) promise that it always
  runs. Without a `catch` the exception is swallowed. `throw` finds the
  handlers around it in its own function only; one that leaves a function ends
  the script.
- `continue` in a `switch` within a loop, and `throw` in the `catch` of a `try`
  with a `finally`, leave a jump to 9999 unpatched (1599-1603, 3187-3191).
- The variables of a `for` initialiser, of `for`-`of` and `for`-`in`, and the
  parameter of a `catch` are not scoped to their statement; constants known at compile
  time are not scoped to their block; `while (c) { let i = 5; i += 1 }`
  increments an outer `i`.
- A captured variable lives in a register and a global slot. A parameter of the
  same name as a captured outer variable gets the outer value after a call (3790;
  the comment at 3292 says otherwise); a name that shadows a captured one in a
  block shares its slot; recursion overwrites captured locals; names bound by a
  pattern get no slot; a closure's assignment to the variable of a `for` loop is
  lost; a closure called through a global, a spread, a callback or a method does
  not get its snapshot of captured values.
- `x = y || x` (2127-2133), `arr = [...arr, v]`, `x = x++`, `r = (o.z = o.x + o.y)`
  and a logical assignment to a property used as a value (2474-2479) yield
  another value than they should: parts of the result are written to the target
  before all operands are read, or never.
- `ensure_local` may take the register of a temporary that is still needed;
  arguments beyond the parameters overwrite registers of `var` names; an array
  pattern with a default and a nested pattern assigns from a placeholder
  (2943-2954).
- An `if` without `else` yields `null`. A function with a block body returns the
  value of its last expression statement (3343-3346), unless its last byte looks like a
  return (3349-3352).

Heap and objects: a result handed to the host holds indices of slots that the
collection after the call may have cut off (engine.rs:584, while value.rs:521
asserts the opposite); `allocated_count` counts lost slots after the second
collection (engine.rs:889, value.rs:451). `Object.create` and `structuredClone`
copy pairs that are not synced (vm.rs:6807, 10076-10098), so that a listing of
the copy shows values from before the last cached writes, although
object.rs:961 asks every caller to sync first; they are no actions of
`PropertyMap`, whose refinement they would break. A frozen object changes all
the same: a compound assignment through a warm cache (rvm.rs:2254-2294, where
the slow path asks), `delete` (rvm.rs:1908) and `Object.assign` (vm.rs:6763) do
not look at `frozen`; the comment at vm.rs:2850 says that writes to frozen
objects are ignored silently. It is a finding, and the run is `props_frozen`.

Collections: a symbol is a different key for the methods `CallMethod` runs
itself (vm.rs:3776) and for the rest, so that `delete` does not find what `set`
put there; all maps are the same key, since an object's key is its text; 1 and 1.0 are
different keys; `forEach` shows the entries of its start, not later ones; `set`
with one argument does nothing.

Engine: the second `eval` of a cached script that uses builtins finds other objects,
or none, where their members were: they were migrated once (object.rs:1053), to
a heap that the next run reset (vm.rs:575). An expression of `eval_in_context`
whose pool is where one was that the VM remembers runs with the constants of the
other; the pool is dropped after the run, although rvm.rs:41 says that its `Rc`
lives on. `engine.eval` does not see what `initScript` defined, as README.md:62-64
suggests. `call_value` does not reset the quota (engine.rs:508), so
that handlers and callbacks are interrupted for what turns before them used. A
collection marks the six other `typeof` strings (engine.rs:870-875) but not
`typeof_symbol`.

Generators: a body's own `next()` runs it a second time from an old position,
or panics if it has not yielded yet; `return()` and `throw()` do not enter the body, so that
its `finally` blocks do not run; `throw()` makes any error a `TypeError` text
(vm.rs:8551, "For now"); an error ends every body that runs; loops and spreads
run a generator to its end before they begin.

Calls: a constructor that fails leaves `new.target` set (vm.rs:11484, the `?` of
11527, 11542 and 11550), so that the next plain function finds it defined, while
the test at engine_parity.rs:5356 says that it should be undefined outside a
constructor; it is also defined in plain functions that a constructor calls.
The comment at vm.rs:11165 says that the outermost activation gives the
inline cache back; the innermost that finds it out does. A direct call checks
and reserves the registers of the function (vm.rs:10986-10992, 11094-11097), and
then copies every argument that is passed (11022-11032, 11109-11121);
`execute_compiled_function_slice` makes the window large enough for them
(11266-11271). The surplus lands above every window in use and is never read, but
where the callee's registers end at the end of the stack it is written behind
it, and the comment at 11109-11111, "stack.resize() above ensures both
regions are valid", does not hold. `WindowsApart` says what holds of it. `sort` takes an error of its comparator for
"equal" (vm.rs:7129), also an interrupt for a used up quota.

Array methods: `sort`, `reverse`, `fill` and `copyWithin` return a new array;
`push` and its like change the receiver only where `CallMethod` runs them itself;
callbacks see a copy. `map` and its like check their callback only when they call
it: without items, `[].map(f)` yields `[]` for an `f` that is no function.

## Plan

The modules of the plan that are written: `Heap`, `PropertyMap`, `HostBridge`,
`Parser`, `RegisterCompiler` with `RegisterMachine`, `Collections`, `Generators`,
`Engine`, `CallStack`. What would come next, and is listed under `hazards` without a property:

1. `EventDispatch` over `Heap` and `HostBridge`: the event object and the cloned
   handlers across the collections between handlers.
2. `host.callSync`, the heap's limits, arithmetic at the limits of `i32`.
3. Proofs: over `EventDispatch`, that no handler of a running dispatch is
   collected; that `RegisterMachine`'s calls are those of `CallStack`.

## Not modelled

- The stack compiler and VM: the engine and the wrapper run register code, only
  a benchmark runs the older bytecode.
- The lexer, and the splitting of a template's text: characters to tokens,
  without state that outlives a token.
- Imports (files spliced as source text), interning (a table that only grows;
  symbols are model values), the bridges (traits without behaviour of their own).
- Builtins of arrays, strings, numbers, dates and JSON: pure functions of their
  arguments; those with callbacks are in `RegisterMachine`.
- Promises: they are settled when they are made, and `await` reads the value at
  once, so nothing waits.
- The wrapper converts values and calls one method each; its protocols (loading,
  events, callbacks) are in `HostBridge`.
