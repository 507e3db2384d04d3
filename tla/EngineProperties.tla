-------------------------- MODULE EngineProperties --------------------------
(***************************************************************************)
(* What running code relies on when it loads a constant.                   *)
(***************************************************************************)
EXTENDS Engine

\* Constant i of the running code is there, it is the code's own, and its
\* object and the member of a builtin are in the heap of the VM.
Finds(i) ==
    /\ i \in DOMAIN vm.values
    /\ vm.values[i] = Object(pools, vm.constants_raw, i)
    /\ vm.values[i] \in vm.heap
    /\ Constants[RunningCode][i] = "builtin" /\ vm.constants_raw \notin worn =>
          Member(RunningCode, i) \in vm.heap

(***************************************************************************)
(* Code finds its own constants, whatever ran in the VM before, failed or  *)
(* was collected, which scripts the cache has dropped and where the        *)
(* allocator puts the pools, with two exceptions.  A script that eval has  *)
(* in its cache does not find the members of its builtins when it runs     *)
(* again: they were migrated to a heap that was reset since.  And code     *)
(* that eval_in_context compiles does not find its constants if its pool   *)
(* is where one was that the VM still remembers, until the next collection.*)
(***************************************************************************)
OwnConstants ==
    Running =>
        /\ vm.constants_raw \in DOMAIN pools
        /\ vm.constants_raw \notin aliased =>
              \A i \in DOMAIN Constants[RunningCode] : Finds(i)

(***************************************************************************)
(* Between two requests of the embedder, whether the last one succeeded or *)
(* failed half way, the VM of a script holds the pool of its script and    *)
(* points at no pool that was dropped.                                     *)
(***************************************************************************)
ScriptHeld ==
    Idle =>
        /\ vm.constants \in DOMAIN pools
        /\ pools[vm.constants].code \in Scripts
        /\ vm.constants_raw \in DOMAIN pools \union {Null}
=============================================================================
