------------------------- MODULE HostBridgeProperties -------------------------
(* What a script and its host may rely on. *)
EXTENDS HostBridge

-----------------------------------------------------------------------------
(***************************************************************************)
(* Types                                                                   *)
(***************************************************************************)
Made == vm.next_host_call_id - 1
CallIds == 1..MaxCalls

VMs == [next_host_call_id : 1..(MaxCalls + 1), pending_host_calls : Seq(CallIds),
        host_callbacks : SUBSET CallIds, event_listeners : Seq(Handlers),
        instructions : 0..(MaxInstructions + 1)]

\* The calls a VM has queued are its last ones in the order they were made,
\* and callbacks wait for calls it has made.
InOrder(v) ==
    LET queue == v.pending_host_calls
        drained == v.next_host_call_id - 1 - Len(queue)
    IN  /\ drained >= 0
        /\ \A i \in DOMAIN queue : queue[i] = drained + i
        /\ v.host_callbacks \subseteq 1..(v.next_host_call_id - 1)

\* The parts of the state have their types, and each queue of host calls
\* (queue_host_call, drain_pending_host_calls) holds what was not drained, in
\* order.
TypeOK ==
    /\ vm \in VMs /\ InOrder(vm)
    /\ kept \in VMs /\ InOrder(kept)
    /\ loads \in 0..MaxLoads
    /\ turn \in Turns
    /\ callee \in Handlers \union {NoCallee} \union CallIds
    /\ turn = "callback" => callee \in CallIds
    /\ loops \in BOOLEAN
    /\ spent \in 0..MaxInstructions
    /\ dispatching \in Seq(Handlers)
    /\ received \subseteq CallIds /\ late \subseteq CallIds
    /\ outcome \in Outcomes

-----------------------------------------------------------------------------
(***************************************************************************)
(* The abstract calls. While initScript runs the top-level code of a new   *)
(* script, the host's script is still the one before.                      *)
(***************************************************************************)
Current == IF turn = "init" THEN kept ELSE vm
Drained == Current.next_host_call_id - 1 - Len(Current.pending_host_calls)

Calls == INSTANCE HostCalls WITH
    made <- Current.next_host_call_id - 1,
    sent <- Drained,
    open <- Current.host_callbacks,
    late <- late,
    running <- IF turn = "callback" THEN callee ELSE 0

\* Through failing turns, interrupted loops, reloads and repeated answers, each
\* call reaches the host once, and its callback runs at most once, for a number
\* the host was given (queue_host_call, drain_pending_host_calls,
\* resolve_host_callback, initScript).
ImplementsHostCalls == Calls!Init /\ [][Calls!Next]_(Calls!vars)

-----------------------------------------------------------------------------
(***************************************************************************)
(* Progress                                                                *)
(***************************************************************************)
\* If the host drains and answers, every callback runs, or a new script takes
\* the place of its script (check_execution_limits ends every loop).
CallsAnswered ==
    \A id \in CallIds : id \in Current.host_callbacks ~> id \notin Current.host_callbacks

\* dispatchEvent: every handler registered when the event came gets its turn,
\* whatever the handlers before it did.
HandlersRun ==
    \A h \in Handlers : h \in ToSet(dispatching) ~> turn = "handler" /\ callee = h

\* Top-level code and a function the host calls get the whole budget: they are
\* interrupted only after that many back-edges of their own, whatever the
\* handlers and callbacks before them have used (call_value, which runs those,
\* adds to one count; call_function and a new VM begin another).
CallsHaveTheirBudget ==
    [][Interrupt /\ turn \in {"init", "function"} => spent = MaxInstructions]_vars
=============================================================================
