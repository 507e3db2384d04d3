------------------------- MODULE GeneratorProtocol -------------------------
(***************************************************************************)
(* What a script may rely on when it calls generators: a body goes on      *)
(* where it left off, with what it had received and the value of the new   *)
(* call, and a completed one never runs again.  A generator that is called *)
(* while it runs is misused: nothing is said of it from then on, but every *)
(* other one is as before, unless the call ends the program.               *)
(***************************************************************************)
EXTENDS Naturals, SequencesExt

CONSTANTS Gens, Vals, Undefined

VARIABLES
    status,    \* of every generator there is
    received,  \* the values its body has received, its argument first, until it ends
    calls,     \* the generators whose bodies run, the innermost first
    out,       \* the answer to the last call
    dead       \* the program has ended

vars == <<status, received, calls, out, dead>>

Existing == DOMAIN status
Running == {calls[i] : i \in DOMAIN calls}
Misused(g) == status[g] = "misused"

Result(x, done) == <<"result", x, done>>

\* The call is answered, with what the body has received unless g is misused.
Answers(g, done) ==
    IF Misused(g) THEN out' # <<>> /\ Head(out') = "result" /\ out'[3] = done
    ELSE out' = Result(received[g], done)

Init ==
    /\ status = [g \in {} |-> "start"]
    /\ received = [g \in {} |-> <<>>]
    /\ calls = <<>>
    /\ out = <<>>
    /\ dead = FALSE

-----------------------------------------------------------------------------
Create(g, x) ==
    /\ g \notin Existing
    /\ status' = [h \in Existing \union {g} |-> IF h = g THEN "start" ELSE status[h]]
    /\ received' = [h \in Existing \union {g} |-> IF h = g THEN <<x>> ELSE received[h]]
    /\ out' = <<>>
    /\ UNCHANGED calls

\* The body begins, or goes on with the value of this call.
Resume(g, x) ==
    /\ status[g] \in {"start", "yielded"}
    /\ status' = [status EXCEPT ![g] = "running"]
    /\ received' = [received EXCEPT ![g] = IF status[g] = "start" THEN @ ELSE Append(@, x)]
    /\ calls' = Cons(g, calls)
    /\ out' = <<>>

AlreadyDone(g) ==
    /\ status[g] = "completed"
    /\ out' = Result(Undefined, TRUE)
    /\ UNCHANGED <<status, received, calls>>

\* Calling a generator that runs, or did when it was called before.
Misuse(g) ==
    /\ status[g] \in {"running", "misused"}
    /\ status' = [status EXCEPT ![g] = "misused"]
    /\ received' = [received EXCEPT ![g] = <<>>]
    /\ \/ calls' = Cons(g, calls) /\ out' = <<>>
       \/ \E x \in Vals \union {Undefined} : UNCHANGED calls /\ out' = Result(x, TRUE)

Yield(g) ==
    /\ calls # <<>> /\ Head(calls) = g
    /\ status' = [status EXCEPT ![g] = IF Misused(g) THEN @ ELSE "yielded"]
    /\ Answers(g, FALSE)
    /\ calls' = Tail(calls)
    /\ UNCHANGED received

Finish(g) ==
    /\ calls # <<>> /\ Head(calls) = g
    /\ status' = [status EXCEPT ![g] = IF Misused(g) THEN @ ELSE "completed"]
    /\ Answers(g, TRUE)
    /\ calls' = Tail(calls)
    /\ received' = [received EXCEPT ![g] = <<>>]

\* return(x) completes a generator that does not run.
Return(g, x) ==
    /\ status[g] \notin {"running", "misused"}
    /\ status' = [status EXCEPT ![g] = "completed"]
    /\ received' = [received EXCEPT ![g] = <<>>]
    /\ out' = Result(x, TRUE)
    /\ UNCHANGED calls

\* An error ends every body that runs, and those of the generators that cannot begin.
Fail(others) ==
    LET ended == Running \union others IN
    /\ status' = [g \in Existing |->
                     IF g \in ended /\ ~Misused(g) THEN "completed" ELSE status[g]]
    /\ received' = [g \in Existing |-> IF g \in ended THEN <<>> ELSE received[g]]
    /\ out' = <<"error">>
    /\ calls' = <<>>

Step ==
    \/ \E g \in Gens, x \in Vals : Create(g, x)
    \/ \E g \in Existing :
          \/ \E x \in Vals : Resume(g, x) \/ Return(g, x)
          \/ AlreadyDone(g) \/ Misuse(g) \/ Yield(g) \/ Finish(g)
    \/ \E others \in SUBSET Existing : Fail(others)

\* Only a call of a generator that runs may end the program.
Crash ==
    /\ \E g \in Existing : status[g] \in {"running", "misused"}
    /\ dead' = TRUE
    /\ UNCHANGED <<status, received, calls, out>>

Next == ~dead /\ (Crash \/ (Step /\ UNCHANGED dead))

Spec == Init /\ [][Next]_vars
=============================================================================
