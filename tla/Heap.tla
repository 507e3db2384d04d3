-------------------------------- MODULE Heap --------------------------------
(***************************************************************************)
(* The object heap of the VM and the mark-sweep collector of ScriptState:  *)
(* value.rs (Heap), engine.rs (gc_collect and the mark_* functions,        *)
(* call_function, run_init, snapshot_globals, restore_globals) and the     *)
(* register instructions of rvm.rs that create, store and load references. *)
(*                                                                         *)
(* A heap index is 1-based here (index i is slot i-1 of Heap::objects) and *)
(* a Value is a heap index, or Inline for every value that is stored       *)
(* inside the 64-bit word.  The payload of an Array or Hash lives behind   *)
(* an Rc, so several slots may share it: items[r] holds the indices that   *)
(* the payload r refers to.                                                *)
(***************************************************************************)
EXTENDS Integers, Sequences, FiniteSets

CONSTANTS
    Rc,          \* addresses of reference-counted payloads
    NoRc,        \* the address of no payload
    Globals,     \* the global slots the script uses, as naturals from 0
    NumRegisters, \* the size of a function's register window
    Features,    \* what the script and its host make use of
    MaxSlots,    \* bound: slots of the heap
    MaxStack,    \* bound: sp between two calls
    MaxElements, \* bound: different heap objects in one array
    MaxCallbacks, \* bound: callbacks the host holds at a time
    GC_INITIAL_THRESHOLD

ASSUME RcAssumption == NoRc \notin Rc

ASSUME GlobalsAssumption == Globals \subseteq Nat

ASSUME BoundAssumption ==
    /\ NumRegisters \in Nat \ {0}
    /\ MaxSlots \in Nat
    /\ MaxStack \in Nat
    /\ MaxElements \in Nat
    /\ MaxCallbacks \in Nat
    /\ GC_INITIAL_THRESHOLD \in Nat

ASSUME FeaturesAssumption ==
    Features \subseteq {"String", "Instance", "Closure", "HostCall",
                        "PassResult", "Snapshot", "ManualGc"}

VARIABLES
    objects,      \* Heap::objects, a sequence of cells
    free_list,    \* Heap::free_list, popped from the end
    rc_index,     \* Heap::rc_index, 0 where the map has no entry
    items,        \* the Values inside each Rc payload
    globals,      \* SharedGlobals::inner
    high_water_mark, \* one past the highest global slot ever written
    regs,         \* the register window of the running function
    stack,        \* vm.stack[0 .. sp]: the Values that stay across calls
    arg_start,    \* sp when the running call began
    callbacks,    \* Values of vm.host_callbacks and vm.event_listeners
    running,      \* "init" and "call" while script code runs, else "idle"
    result,       \* the payload of the Object the last call returned
    snapshot,     \* what the host took with snapshot_globals
    gc_threshold  \* ScriptState::gc_threshold

heapVars == <<objects, free_list, rc_index>>
hostVars == <<result, snapshot, gc_threshold>>
frameVars == <<stack, arg_start>>
vars == <<objects, free_list, rc_index, items, globals, high_water_mark, regs,
          stack, arg_start, callbacks, running, result, snapshot, gc_threshold>>

Inline == 0
Value == Nat
Registers == 1 .. NumRegisters
Kind == {"Null", "String", "Array", "Instance", "CompiledFunction"}

(***************************************************************************)
(* A cell is an Object.  rc is the payload address of an Array, nested the *)
(* payloads an Instance keeps as Objects in its fields, captured the       *)
(* captured_values of a CompiledFunction.                                  *)
(***************************************************************************)
Cell == [kind : Kind, rc : Rc \union {NoRc},
         nested : SUBSET Rc, captured : SUBSET Value]

Plain(kind) == [kind |-> kind, rc |-> NoRc, nested |-> {}, captured |-> {}]
NullCell == Plain("Null")
ArrayCell(r) == [Plain("Array") EXCEPT !.rc = r]
FunctionCell(vals) == [Plain("CompiledFunction") EXCEPT !.captured = vals]

Slots == 1 .. Len(objects)

\* The payloads kept alive by a cell or by the Object the host holds.
HeldBy(r, objs) ==
    \/ result = r
    \/ \E i \in 1 .. Len(objs) : objs[i].rc = r \/ r \in objs[i].nested

Held(r) == HeldBy(r, objects)

Init ==
    /\ objects = <<>>
    /\ free_list = <<>>
    /\ rc_index = [r \in Rc |-> 0]
    /\ items = [r \in Rc |-> {}]
    /\ globals = [g \in Globals |-> Inline]
    /\ high_water_mark = 0
    /\ regs = [d \in Registers |-> Inline]
    /\ stack = <<>>
    /\ arg_start = 0
    /\ callbacks = {}
    /\ running = "init"
    /\ result = NoRc
    /\ snapshot = <<>>
    /\ gc_threshold = GC_INITIAL_THRESHOLD

-----------------------------------------------------------------------------
(***************************************************************************)
(* Allocation.                                                             *)
(***************************************************************************)
allocated_count == Len(objects) - Len(free_list)

\* The slot Heap::alloc picks: the last free one, else a new one.
AllocIndex ==
    IF free_list = <<>> THEN Len(objects) + 1 ELSE free_list[Len(free_list)]

\* Heap::alloc followed by register_rc, which lets the newest slot of a
\* payload take over its entry in rc_index.
Alloc(cell) ==
    /\ AllocIndex <= MaxSlots
    /\ objects' = IF free_list = <<>> THEN Append(objects, cell)
                  ELSE [objects EXCEPT ![AllocIndex] = cell]
    /\ free_list' = IF free_list = <<>> THEN free_list
                    ELSE SubSeq(free_list, 1, Len(free_list) - 1)
    /\ rc_index' = IF cell.rc = NoRc THEN rc_index
                   ELSE [rc_index EXCEPT ![cell.rc] = AllocIndex]

-----------------------------------------------------------------------------
(***************************************************************************)
(* Instructions of a running function.  d is the destination register.     *)
(***************************************************************************)
Running == running # "idle"

IsKind(v, kind) == v \in Slots /\ objects[v].kind = kind

RegisterValues == {regs[d] : d \in Registers} \ {Inline}

\* An object that refers to no other: a string that does not fit inline
\* (ROp::LoadConst, the string operators), or ROp::New for a class without
\* reference fields.
NewPlain(d) ==
    /\ Running
    /\ \E kind \in Features \intersect {"String", "Instance"} : Alloc(Plain(kind))
    /\ regs' = [regs EXCEPT ![d] = AllocIndex]
    /\ UNCHANGED <<items, globals, high_water_mark, frameVars, callbacks,
                   running, hostVars>>

\* ROp::Array: a fresh payload that refers to the values of two registers.
NewArray(d, a, b, r) ==
    /\ Running
    /\ ~Held(r)
    /\ Alloc(ArrayCell(r))
    /\ items' = [items EXCEPT ![r] = {regs[a], regs[b]} \ {Inline}]
    /\ Cardinality(items'[r]) <= MaxElements
    /\ regs' = [regs EXCEPT ![d] = AllocIndex]
    /\ UNCHANGED <<globals, high_water_mark, frameVars, callbacks, running,
                   hostVars>>

\* ROp::AppendElement
AppendElement(a, v) ==
    /\ Running
    /\ IsKind(regs[a], "Array")
    /\ regs[v] # Inline
    /\ items' = [items EXCEPT ![objects[regs[a]].rc] = @ \union {regs[v]}]
    /\ Cardinality(items'[objects[regs[a]].rc]) <= MaxElements
    /\ UNCHANGED <<heapVars, globals, high_water_mark, regs, frameVars,
                   callbacks, running, hostVars>>

\* ROp::Index
Index(d, a) ==
    /\ Running
    /\ IsKind(regs[a], "Array")
    /\ \E v \in items[objects[regs[a]].rc] : regs' = [regs EXCEPT ![d] = v]
    /\ UNCHANGED <<heapVars, items, globals, high_water_mark, frameVars,
                   callbacks, running, hostVars>>

\* ROp::SetProp and ROp::SetGlobalProp on an Instance in a register or a
\* global: val_to_obj copies the Rc, not the index.
SetField(i, a) ==
    /\ Running
    /\ i \in RegisterValues \union {globals[g] : g \in Globals}
    /\ IsKind(i, "Instance")
    /\ IsKind(regs[a], "Array")
    /\ objects' = [objects EXCEPT ![i].nested = @ \union {objects[regs[a]].rc}]
    /\ UNCHANGED <<free_list, rc_index, items, globals, high_water_mark, regs,
                   frameVars, callbacks, running, hostVars>>

\* ROp::GetProp on an Instance: obj_into_val puts the payload in a new slot.
GetField(d, o) ==
    /\ Running
    /\ IsKind(regs[o], "Instance")
    /\ \E r \in objects[regs[o]].nested : Alloc(ArrayCell(r))
    /\ regs' = [regs EXCEPT ![d] = AllocIndex]
    /\ UNCHANGED <<items, globals, high_water_mark, frameVars, callbacks,
                   running, hostVars>>

\* ROp::MakeClosure: the function object snapshots a captured global slot.
MakeClosure(d, g) ==
    /\ Running
    /\ "Closure" \in Features
    /\ Alloc(FunctionCell({globals[g]} \ {Inline}))
    /\ regs' = [regs EXCEPT ![d] = AllocIndex]
    /\ UNCHANGED <<items, globals, high_water_mark, frameVars, callbacks,
                   running, hostVars>>

\* ROp::GetGlobal
GetGlobal(d, g) ==
    /\ Running
    /\ regs' = [regs EXCEPT ![d] = globals[g]]
    /\ UNCHANGED <<heapVars, items, globals, high_water_mark, frameVars,
                   callbacks, running, hostVars>>

\* SharedGlobals::set_unchecked
WriteGlobal(g, v) ==
    /\ globals' = [globals EXCEPT ![g] = v]
    /\ high_water_mark' = IF g + 1 > high_water_mark THEN g + 1
                          ELSE high_water_mark

\* ROp::SetGlobal, from a register or from an inline constant
SetGlobal(g) ==
    /\ Running
    /\ \E v \in RegisterValues \union {Inline} : WriteGlobal(g, v)
    /\ UNCHANGED <<heapVars, items, regs, frameVars, callbacks, running,
                   hostVars>>

\* host.call(kind, args, callback) and window.addEventListener
HoldCallback(d) ==
    /\ Running
    /\ "HostCall" \in Features
    /\ regs[d] # Inline
    /\ callbacks' = callbacks \union {regs[d]}
    /\ Cardinality(callbacks') <= MaxCallbacks
    /\ UNCHANGED <<heapVars, items, globals, high_water_mark, regs, frameVars,
                   running, hostVars>>

-----------------------------------------------------------------------------
(***************************************************************************)
(* Mark.  The recursion of mark_object_refs with its visited bits computes *)
(* the least set of slots that holds the roots and is closed under the     *)
(* references the marker follows.                                          *)
(***************************************************************************)

\* mark_nested_object: the registered slot of a payload, or, when rc_index
\* has none, whatever the payload refers to.
MarkNested(r) == IF rc_index[r] # 0 THEN {rc_index[r]} ELSE items[r]

\* Mutant: the marker does not look into the fields of an instance.
MarkRefsWithoutFields(cell) == IF cell.rc # NoRc THEN items[cell.rc] ELSE {}

\* mark_object_refs.  Of a CompiledFunction only the constants are scanned.
MarkRefs(cell) ==
    (IF cell.rc # NoRc THEN items[cell.rc] ELSE {})
        \union UNION {MarkNested(r) : r \in cell.nested}

\* vm.sp when the collector runs: a call has restored it by then.
sp == IF running = "call" THEN arg_start ELSE Len(stack)

\* Mutant: callbacks handed to the host are not roots.
RootsWithoutCallbacks ==
    {globals[g] : g \in {h \in Globals : h < high_water_mark}}
        \union {stack[k] : k \in 1 .. sp}

\* The scan of phase 1: globals below the high-water mark, the stack below
\* sp, event listeners and host callbacks.
Roots ==
    {globals[g] : g \in {h \in Globals : h < high_water_mark}}
        \union {stack[k] : k \in 1 .. sp} \union callbacks

MarkClosed(S) ==
    /\ Roots \intersect Slots \subseteq S
    /\ \A i \in S : MarkRefs(objects[i]) \intersect Slots \subseteq S

reachable == {i \in Slots : \A S \in SUBSET Slots : MarkClosed(S) => i \in S}

(***************************************************************************)
(* Sweep.  Slots that already hold Null are skipped, so they are not added *)
(* to the free list, which has been cleared before the loop.               *)
(***************************************************************************)
Garbage == {i \in Slots \ reachable : objects[i].kind # "Null"}

Sweep(swept) == [i \in Slots |-> IF i \in swept THEN NullCell ELSE objects[i]]

\* The length left when the Nulls at the end of objs have been popped.
IsTrimmed(objs, n) ==
    /\ n > 0 => objs[n].kind # "Null"
    /\ \A i \in (n + 1) .. Len(objs) : objs[i].kind = "Null"

\* The elements of S in the order the sweep loop meets them.
Ascending(S) ==
    {s \in [1 .. Cardinality(S) -> S] : \A i, j \in DOMAIN s : i < j => s[i] < s[j]}

\* Mutant: trim_free_list is forgotten.
FreeSlotsUntrimmed(swept, n) == swept

\* clear_free_list, add_free for every swept slot, then trim_free_list.
FreeSlots(swept, n) == {i \in swept : i <= n}

\* Mutant: the sweep leaves the payloads of dropped objects registered.
RcIndexUntouched(swept) == rc_index

\* unregister_rc for every swept slot
RcIndexAfter(swept) ==
    [r \in Rc |-> IF \E i \in swept : objects[i].rc = r THEN 0 ELSE rc_index[r]]

\* gc_collect: mark, sweep, truncate and trim the free list.
GcCollect ==
    LET swept == Garbage
    IN  \E n \in 0 .. Len(objects) :
            /\ IsTrimmed(Sweep(swept), n)
            /\ objects' = SubSeq(Sweep(swept), 1, n)
            /\ free_list' \in Ascending(FreeSlots(swept, n))
            /\ rc_index' = RcIndexAfter(swept)

\* The threshold check at the end of call_function and call_value.
CollectIfAboveThreshold ==
    IF allocated_count > gc_threshold
    THEN /\ GcCollect
         /\ gc_threshold' = LET doubled == 2 * allocated_count'
                            IN IF doubled > GC_INITIAL_THRESHOLD
                               THEN doubled ELSE GC_INITIAL_THRESHOLD
    ELSE UNCHANGED <<heapVars, gc_threshold>>

DropUnheld ==
    items' = [r \in Rc |-> IF HeldBy(r, objects)' THEN items[r] ELSE {}]

-----------------------------------------------------------------------------
(***************************************************************************)
(* What the host does between two calls.                                   *)
(***************************************************************************)
NoRegisters == [d \in Registers |-> Inline]

\* run_init returns; run_register leaves sp past the register window.
EndInit ==
    /\ running = "init"
    /\ running' = "idle"
    /\ stack' = regs
    /\ regs' = NoRegisters
    /\ UNCHANGED <<heapVars, items, globals, high_water_mark, arg_start, callbacks,
                   hostVars>>

\* The arguments of a call are converted and pushed at sp; call_register_direct
\* copies them to the callee's registers.  With PassResult the host passes an
\* Object that it was given before.
PassArguments(d) ==
    /\ running = "idle"
    /\ running' = "call"
    /\ arg_start' = Len(stack)
    /\ \/ /\ regs' = NoRegisters
          /\ UNCHANGED <<heapVars, stack>>
       \/ /\ "PassResult" \in Features
          /\ result # NoRc
          /\ Len(stack) < MaxStack
          /\ Alloc(ArrayCell(result))
          /\ stack' = Append(stack, AllocIndex)
          /\ regs' = [NoRegisters EXCEPT ![d] = AllocIndex]
    /\ result' = NoRc
    /\ DropUnheld
    /\ UNCHANGED <<globals, high_water_mark, snapshot, gc_threshold>>

\* call_function and call_compiled_function
CallFunction(d) ==
    /\ PassArguments(d)
    /\ UNCHANGED callbacks

\* call_value, for an event or, with the callback taken out of the map
\* first, for resolve_host_callback
CallValue(d) ==
    /\ \E cb \in callbacks : callbacks' \in {callbacks, callbacks \ {cb}}
    /\ PassArguments(d)

\* A call returns: sp is restored, the result becomes an Object, and only
\* then is the heap collected.
ReturnFromCall ==
    /\ running = "call"
    /\ running' = "idle"
    /\ regs' = NoRegisters
    /\ stack' = SubSeq(stack, 1, arg_start)
    /\ \E v \in RegisterValues \union {Inline} :
          result' = IF IsKind(v, "Array") THEN objects[v].rc ELSE NoRc
    /\ CollectIfAboveThreshold
    /\ DropUnheld
    /\ UNCHANGED <<globals, high_water_mark, arg_start, callbacks, snapshot>>

\* Mutant: a failing call empties the stack without its saved sp.
CallFailsToEmptyStack ==
    /\ running = "call"
    /\ running' = "idle"
    /\ regs' = NoRegisters
    /\ stack' = <<>>
    /\ UNCHANGED <<heapVars, items, globals, high_water_mark, arg_start, callbacks,
                   hostVars>>

\* A call that fails returns before sp is restored and before the threshold
\* check: its arguments stay below sp.
CallFails ==
    /\ running = "call"
    /\ running' = "idle"
    /\ regs' = NoRegisters
    /\ UNCHANGED <<heapVars, items, globals, high_water_mark, frameVars, callbacks,
                   hostVars>>

\* gc_collect is public: the embedder may call it between two calls.
ManualGc ==
    /\ running = "idle"
    /\ "ManualGc" \in Features
    /\ GcCollect
    /\ UNCHANGED <<globals, high_water_mark, regs, frameVars, callbacks, running,
                   hostVars>>
    /\ DropUnheld

SnapshotGlobals ==
    /\ running = "idle"
    /\ "Snapshot" \in Features
    /\ snapshot' = [g \in {h \in Globals : h < high_water_mark} |-> globals[g]]
    /\ UNCHANGED <<heapVars, items, globals, high_water_mark, regs, frameVars,
                   callbacks, running, result, gc_threshold>>

\* restore_globals writes back exactly the slots the snapshot covers.
RestoreGlobals ==
    /\ running = "idle"
    /\ "Snapshot" \in Features
    /\ globals' = [g \in Globals |-> IF g \in DOMAIN snapshot THEN snapshot[g]
                                     ELSE globals[g]]
    /\ UNCHANGED <<heapVars, items, high_water_mark, regs, frameVars, callbacks,
                   running, hostVars>>

-----------------------------------------------------------------------------
Next ==
    \/ \E d \in Registers :
          \/ NewPlain(d) \/ HoldCallback(d)
          \/ CallFunction(d) \/ CallValue(d)
          \/ \E a, b \in Registers, r \in Rc : NewArray(d, a, b, r)
          \/ \E a \in Registers :
                AppendElement(d, a) \/ Index(d, a) \/ GetField(d, a)
          \/ \E i \in Slots : SetField(i, d)
          \/ \E g \in Globals : MakeClosure(d, g) \/ GetGlobal(d, g)
    \/ \E g \in Globals : SetGlobal(g)
    \/ EndInit \/ ReturnFromCall \/ CallFails
    \/ ManualGc \/ SnapshotGlobals \/ RestoreGlobals

Spec == Init /\ [][Next]_vars
=============================================================================
