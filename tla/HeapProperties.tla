--------------------------- MODULE HeapProperties ---------------------------
(***************************************************************************)
(* What the heap and its collector owe the script and the host.            *)
(***************************************************************************)
EXTENDS Heap

(* Type correctness of the whole state. *)
TypeOK ==
    /\ objects \in Seq(Cell)
    /\ free_list \in Seq(Nat \ {0})
    /\ rc_index \in [Rc -> Nat]
    /\ items \in [Rc -> SUBSET Value]
    /\ globals \in [Globals -> Value]
    /\ high_water_mark \in Nat
    /\ regs \in [Registers -> Value]
    /\ stack \in Seq(Value)
    /\ arg_start \in 0 .. Len(stack)
    /\ callbacks \in SUBSET Value
    /\ running \in {"init", "call", "idle"}
    /\ result \in Rc \union {NoRc}
    /\ DOMAIN snapshot \subseteq Globals
    /\ \A g \in DOMAIN snapshot : snapshot[g] \in Value
    /\ gc_threshold \in Nat

(* Every entry of the free list is a slot of the heap that holds Null, and *)
(* no slot is listed twice: Heap::alloc never overwrites an object and     *)
(* never hands one slot to two allocations, whatever the collections and   *)
(* truncations in between.                                                 *)
FreeListSound ==
    /\ \A k \in 1 .. Len(free_list) :
          /\ free_list[k] \in Slots
          /\ objects[free_list[k]].kind = "Null"
    /\ \A k, l \in 1 .. Len(free_list) : free_list[k] = free_list[l] => k = l

(* An entry of rc_index leads to a slot that holds that very payload, so   *)
(* mark_nested_object never marks another object in its place, even when   *)
(* the address of a dropped payload is used again.                         *)
RcIndexSound ==
    \A r \in Rc : rc_index[r] # 0 =>
        /\ rc_index[r] \in Slots
        /\ objects[rc_index[r]].rc = r

\* A Value that can be followed: inline, or a slot that holds an object.
Valid(v) == v # Inline => v \in Slots /\ objects[v].kind # "Null"

\* The payloads that a slot or an instance field keeps alive.
HeapPayloads ==
    {r \in Rc : \E i \in Slots : objects[i].rc = r \/ r \in objects[i].nested}

\* The Values script code can get at.
ScriptValues ==
    {globals[g] : g \in Globals} \union {regs[d] : d \in Registers}
        \union {stack[k] : k \in 1 .. Len(stack)} \union callbacks
        \union UNION {items[r] : r \in HeapPayloads}

(* No Value that script code can get at is dangling: those in globals, in  *)
(* the running function's registers, below sp, in the callback tables and  *)
(* in every payload that a slot or an instance field keeps alive.          *)
NoDangling == \A v \in ScriptValues : Valid(v)

\* Between two calls the host passes an Object back or restores a snapshot:
\* both bring Values in that the collector did not know of.
HandsBack == running = "idle" /\ (Len(stack') > Len(stack) \/ globals' # globals)

(* No Value that script code can get at begins to dangle: neither what the *)
(* script does with arrays, fields, closures, globals and callbacks, nor a *)
(* call that fails, nor a collection frees an object that is still in use. *)
(* Only a host that hands back what the collector cannot know of can.      *)
NothingStartsToDangle == [][~HandsBack /\ NoDangling => NoDangling']_vars

\* What script code can reach from a cell through elements and fields.
CellRefs(cell) ==
    (IF cell.rc # NoRc THEN items[cell.rc] ELSE {})
        \union UNION {items[r] : r \in cell.nested}

\* The slots script code can reach between two calls.
LiveRoots ==
    ({globals[g] : g \in Globals} \union callbacks
        \union {stack[k] : k \in 1 .. sp}) \intersect Slots

Live ==
    {i \in Slots : \A S \in SUBSET Slots :
        (/\ LiveRoots \subseteq S
         /\ \A j \in S : CellRefs(objects[j]) \intersect Slots \subseteq S) => i \in S}

(* A collection leaves every slot that the script can still reach, and the *)
(* contents of every payload in such a slot, exactly as they were, unless  *)
(* a Value dangled before.  (What only a closure has captured is another   *)
(* matter: CapturedValuesKept.)                                            *)
GcKeepsLive ==
    [][ (running' = "idle" /\ running # "init" /\ NoDangling) =>
          \A i \in Live :
              /\ i \in 1 .. Len(objects')
              /\ objects'[i] = objects[i]
              /\ objects[i].rc # NoRc => items'[objects[i].rc] = items[objects[i].rc]
      ]_vars

(* mark_object_refs handles every Object variant that can contain Values:  *)
(* what a kept function has captured is kept too.                          *)
CapturedValuesKept ==
    \A i \in Slots : \A v \in objects[i].captured : Valid(v)
=============================================================================
