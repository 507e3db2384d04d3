------------------------------ MODULE HostCalls ------------------------------
(***************************************************************************)
(* What host.call promises a script and its host: calls are numbered in    *)
(* the order they are made, the host is given all calls made so far at     *)
(* once, and the callback of a call runs at most once, when the host       *)
(* answers a call of that number which it was given.                       *)
(***************************************************************************)
EXTENDS Integers

VARIABLES
    made,     \* how many calls the script has made
    sent,     \* how many of them the host was given
    open,     \* the calls whose callback is still to run
    late,     \* numbers of calls the host was given by earlier scripts
    running   \* the call whose callback is running, 0 if none is

vars == <<made, sent, open, late, running>>

Init == made = 0 /\ sent = 0 /\ open = {} /\ late = {} /\ running = 0

\* The script makes a call, with a callback or without.
Call(withCallback) ==
    /\ made' = made + 1
    /\ open' = IF withCallback THEN open \union {made + 1} ELSE open
    /\ UNCHANGED <<sent, late, running>>

\* The host takes all calls it does not know yet.
HandOver ==
    /\ running = 0
    /\ sent' = made
    /\ UNCHANGED <<made, open, late, running>>

\* The host answers call id; an answer to an earlier script's call of that
\* number is not told apart.
Run(id) ==
    /\ running = 0
    /\ id \in open
    /\ id <= sent \/ id \in late
    /\ running' = id
    /\ open' = open \ {id}
    /\ UNCHANGED <<made, sent, late>>

Finish ==
    /\ running # 0
    /\ running' = 0
    /\ UNCHANGED <<made, sent, open, late>>

\* Another script takes over with the calls its top-level code has made. The
\* host may still answer those of the script before.
Replace ==
    /\ running = 0
    /\ made' \in Nat
    /\ sent' = 0
    /\ open' \subseteq 1..made'
    /\ late' = late \union (1..sent)
    /\ UNCHANGED running

Next ==
    \/ \E withCallback \in BOOLEAN : Call(withCallback)
    \/ HandOver
    \/ \E id \in open : Run(id)
    \/ Finish
    \/ Replace

Spec == Init /\ [][Next]_vars
=============================================================================
