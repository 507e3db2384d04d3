----------------------------- MODULE HostBridge -----------------------------
(***************************************************************************)
(* A script and its host take turns (formlogic-wasm, engine.rs, vm.rs).    *)
(* The host calls functions, dispatches events and answers host calls;     *)
(* the script makes host calls and registers handlers for events. Nothing  *)
(* preempts the script but the instruction quota, which is checked where   *)
(* a loop jumps back.                                                      *)
(***************************************************************************)
EXTENDS SequencesExt, Lists

CONSTANTS
    Handlers,         \* functions the script registers for the event
    MaxInstructions,  \* config.max_instructions, counted in back-edges
    MaxCalls,         \* bound: host calls of one script
    MaxListeners,     \* bound: registered handlers
    MaxLoads          \* bound: scripts loaded one after the other

ASSUME Bounds == /\ MaxInstructions \in Nat /\ MaxCalls \in Nat
                 /\ MaxListeners \in Nat /\ MaxLoads \in Nat \ {0}

VARIABLES
    vm,           \* the VM that runs, or that the host holds between turns
    kept,         \* the VM the host holds while initScript runs another one
    loads,        \* how many scripts initScript has loaded
    turn,         \* why the script runs: see Turns
    callee,       \* the handler or the number of the host call it runs for
    loops,        \* whether the code of this turn never ends by itself
    spent,        \* back-edges of this turn
    dispatching,  \* the handlers a dispatch has still to call
    received,     \* calls of this script the host was given
    late,         \* calls of earlier scripts the host was given
    outcome       \* how the last turn, or the last request for one, ended

host == <<received, late>>
script == <<turn, callee, loops, spent>>
vars == <<vm, kept, loads, script, dispatching, host, outcome>>

Turns == {"none", "init", "function", "handler", "callback"}
Outcomes == {"returned", "failed", "timeout", "refused"}
NoCallee == 0

FreshVM == [next_host_call_id |-> 1, pending_host_calls |-> <<>>,
            host_callbacks |-> {}, event_listeners |-> <<>>, instructions |-> 0]

Init ==
    /\ vm = FreshVM /\ kept = FreshVM
    /\ loads = 0
    /\ turn = "none" /\ callee = NoCallee /\ loops = FALSE /\ spent = 0
    /\ dispatching = <<>>
    /\ received = {} /\ late = {}
    /\ outcome = "returned"

Idle == turn = "none" /\ dispatching = <<>>
Loaded == loads > 0

BeginTurn(kind, who) ==
    /\ turn' = kind
    /\ callee' = who
    /\ loops' \in BOOLEAN
    /\ spent' = 0

EndTurn(result) ==
    /\ turn' = "none"
    /\ callee' = NoCallee
    /\ loops' = FALSE
    /\ spent' = 0
    /\ kept' = FreshVM
    /\ outcome' = result

-----------------------------------------------------------------------------
(***************************************************************************)
(* The script, in its turn.                                                *)
(***************************************************************************)

\* A mutated form: only calls with a callback take a number.
QueueReusingNumbers(withCallback) ==
    LET id == vm.next_host_call_id IN
    [vm EXCEPT !.next_host_call_id = IF withCallback THEN id + 1 ELSE id,
               !.pending_host_calls = Append(@, id),
               !.host_callbacks = IF withCallback THEN @ \union {id} ELSE @]

\* queue_host_call: every call is queued, a callback is kept under its number.
QueueHostCall(withCallback) ==
    LET id == vm.next_host_call_id IN
    [vm EXCEPT !.next_host_call_id = id + 1,
               !.pending_host_calls = Append(@, id),
               !.host_callbacks = IF withCallback THEN @ \union {id} ELSE @]

HostCall(withCallback) ==
    /\ turn # "none"
    /\ vm.next_host_call_id <= MaxCalls
    /\ vm' = QueueHostCall(withCallback)
    /\ UNCHANGED <<kept, loads, script, dispatching, host, outcome>>

\* window has these two only after run_init, so top-level code cannot call them.
AddEventListener(h) ==
    /\ turn \notin {"none", "init"}
    /\ Len(vm.event_listeners) < MaxListeners
    /\ vm' = [vm EXCEPT !.event_listeners = Append(@, h)]
    /\ UNCHANGED <<kept, loads, script, dispatching, host, outcome>>

\* Every registration of the handler goes.
ListenersWithout(h) == Without(vm.event_listeners, {h})

RemoveEventListener(h) ==
    /\ turn \notin {"none", "init"}
    /\ h \in ToSet(vm.event_listeners)
    /\ vm' = [vm EXCEPT !.event_listeners = ListenersWithout(h)]
    /\ UNCHANGED <<kept, loads, script, dispatching, host, outcome>>

OverLimit == vm.instructions + 1 > MaxInstructions

\* A mutated form: limits that are set but not enforced.
BackEdgeUncounted ==
    /\ turn # "none"
    /\ UNCHANGED vars

\* A backward jump within the quota.
BackEdge ==
    /\ turn # "none"
    /\ ~OverLimit
    /\ vm' = [vm EXCEPT !.instructions = @ + 1]
    /\ spent' = spent + 1
    /\ UNCHANGED <<kept, loads, turn, callee, loops, dispatching, host, outcome>>

\* A mutated form: an error ends the dispatch.
FailAborting(result, now) ==
    /\ EndTurn(result)
    /\ vm' = IF turn = "init" THEN kept ELSE now
    /\ dispatching' = <<>>
    /\ UNCHANGED <<loads, host>>

\* A turn that fails leaves what it did to the VM, but a VM whose top-level
\* code fails is dropped.
Fail(result, now) ==
    /\ EndTurn(result)
    /\ vm' = IF turn = "init" THEN kept ELSE now
    /\ UNCHANGED <<loads, dispatching, host>>

\* The count goes on; one above the limit stands for every higher one.
Interrupt ==
    /\ turn # "none"
    /\ OverLimit
    /\ Fail("timeout", [vm EXCEPT !.instructions = MaxInstructions + 1])

Throw ==
    /\ turn # "none"
    /\ Fail("failed", vm)

\* initScript hands the VM to the host only when its top-level code succeeds.
\* The host may still answer what the script before it has asked.
Return ==
    /\ turn # "none"
    /\ ~loops
    /\ EndTurn("returned")
    /\ IF turn = "init"
       THEN loads' = loads + 1 /\ received' = {} /\ late' = late \union received
       ELSE UNCHANGED <<loads, host>>
    /\ UNCHANGED <<vm, dispatching>>

-----------------------------------------------------------------------------
(***************************************************************************)
(* The host, between turns.                                                *)
(***************************************************************************)
InitScript ==
    /\ Idle
    /\ loads < MaxLoads
    /\ kept' = vm
    /\ vm' = FreshVM
    /\ BeginTurn("init", NoCallee)
    /\ UNCHANGED <<loads, dispatching, host, outcome>>

\* A mutated form: the count goes on, as it does for handlers.
WithUsedQuota == vm

\* call_function resets the quota first.
WithFreshQuota == [vm EXCEPT !.instructions = 0]

CallFunction ==
    /\ Idle /\ Loaded
    /\ vm' = WithFreshQuota
    /\ BeginTurn("function", NoCallee)
    /\ UNCHANGED <<kept, loads, dispatching, host, outcome>>

\* A name that is not a global, or a global that is not a function.
CallUndefined ==
    /\ Idle /\ Loaded
    /\ vm' = WithFreshQuota
    /\ outcome' = "refused"
    /\ UNCHANGED <<kept, loads, script, dispatching, host>>

\* dispatch_event works on a clone of the list of handlers.
DispatchEvent ==
    /\ Idle /\ Loaded
    /\ vm.event_listeners # <<>>
    /\ dispatching' = vm.event_listeners
    /\ UNCHANGED <<vm, kept, loads, script, host, outcome>>

\* call_value, which leaves the quota as it is; a handler that failed does not
\* keep the next one from its turn.
NextHandler ==
    /\ turn = "none"
    /\ dispatching # <<>>
    /\ BeginTurn("handler", Head(dispatching))
    /\ dispatching' = Tail(dispatching)
    /\ UNCHANGED <<vm, kept, loads, host, outcome>>

Drain ==
    /\ Idle /\ Loaded
    /\ vm.pending_host_calls # <<>>
    /\ received' = received \union ToSet(vm.pending_host_calls)
    /\ vm' = [vm EXCEPT !.pending_host_calls = <<>>]
    /\ UNCHANGED <<kept, loads, script, dispatching, late, outcome>>

\* A mutated form: get instead of remove.
CallbacksKept(id) == vm.host_callbacks

\* The callback is taken out before it is called.
CallbacksAfter(id) == vm.host_callbacks \ {id}

\* resolve_host_callback, for any call the host was given, as often as it likes.
Resolve(id) ==
    /\ Idle /\ Loaded
    /\ id \in vm.host_callbacks
    /\ vm' = [vm EXCEPT !.host_callbacks = CallbacksAfter(id)]
    /\ BeginTurn("callback", id)
    /\ UNCHANGED <<kept, loads, dispatching, host, outcome>>

\* A call made without a callback, or one that was answered before.
ResolveUnknown(id) ==
    /\ Idle /\ Loaded
    /\ id \notin vm.host_callbacks
    /\ outcome' = "refused"
    /\ UNCHANGED <<vm, kept, loads, script, dispatching, host>>

Answer(id) == Resolve(id) \/ ResolveUnknown(id)

-----------------------------------------------------------------------------
Next ==
    \/ \E withCallback \in BOOLEAN : HostCall(withCallback)
    \/ \E h \in Handlers : AddEventListener(h) \/ RemoveEventListener(h)
    \/ BackEdge \/ Interrupt \/ Throw \/ Return
    \/ InitScript \/ CallFunction \/ CallUndefined
    \/ DispatchEvent \/ NextHandler
    \/ Drain
    \/ \E id \in received \union late : Answer(id)

Spec == Init /\ [][Next]_vars

\* The interpreter goes on: a loop comes to its next back-edge, other code to
\* its end, and the wrapper's loop to the next handler. The host drains now and
\* then and answers each call it was given as long as it has not done so.
Fairness ==
    /\ WF_vars(BackEdge \/ Interrupt)
    /\ WF_vars(Return)
    /\ WF_vars(NextHandler)
    /\ SF_vars(Drain)
    /\ \A id \in 1..MaxCalls : SF_vars(id \in received /\ Resolve(id))

FairSpec == Spec /\ Fairness
=============================================================================
