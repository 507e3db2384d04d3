----------------------------- MODULE Generators -----------------------------
(***************************************************************************)
(* Generator objects and the calls of their bodies.  next() puts the saved *)
(* registers into a window above the caller's and runs the body in a       *)
(* dispatch loop of its own; a yield leaves that loop as an error that     *)
(* carries the value, and saves the window and the position.  A generator  *)
(* that runs is Suspended, as one that waits.                              *)
(*                                                                         *)
(* A body is abstract: between two yields it may call any generator, and   *)
(* it keeps what it receives in its registers and yields all of it.  Its   *)
(* position is the number of yields behind it.                             *)
(***************************************************************************)
EXTENDS Naturals, SequencesExt

CONSTANTS
    Gens,       \* the generators a script may create
    Vals,       \* the values it passes
    Undefined,
    MaxYields,  \* yields in a body
    MaxWindows  \* windows of bodies that the stack has room for

ASSUME BoundsAssumption == MaxYields \in Nat /\ MaxWindows \in Nat

VARIABLES
    generators,  \* the generator objects
    windows,     \* the bodies that run, the innermost first
    out,         \* the answer to the last call
    crashed      \* the program has ended in a panic

vars == <<generators, windows, out, crashed>>

Existing == DOMAIN generators
Running == {windows[i].gen : i \in DOMAIN windows}

MakeIteratorResult(x, done) == <<"result", x, done>>

Init ==
    /\ generators = [g \in {} |-> <<>>]
    /\ windows = <<>>
    /\ out = <<>>
    /\ crashed = FALSE

-----------------------------------------------------------------------------
(* Calls, by the script or by the innermost body *)

CreateGenerator(g, x) ==
    /\ g \notin Existing
    /\ generators' =
          [h \in Existing \union {g} |->
              IF h = g THEN [state |-> "Created", saved_ip |-> 0, locals |-> <<>>, args |-> x]
              ELSE generators[h]]
    /\ out' = <<>>
    /\ UNCHANGED <<windows, crashed>>

\* A mutated form: only the innermost body is completed.
FailedInnermost(stopped) ==
    /\ generators' = [g \in Existing |->
                         IF (windows # <<>> /\ g = windows[1].gen) \/ g \in stopped
                         THEN [generators[g] EXCEPT !.state = "Completed"] ELSE generators[g]]
    /\ windows' = <<>>
    /\ out' = <<"error">>
    /\ UNCHANGED crashed

\* The generators that an error completes on its way out, which no caller stops.
Failed(stopped) ==
    /\ generators' = [g \in Existing |->
                         IF g \in Running \union stopped
                         THEN [generators[g] EXCEPT !.state = "Completed"] ELSE generators[g]]
    /\ windows' = <<>>
    /\ out' = <<"error">>
    /\ UNCHANGED crashed

\* A window for the body, if the stack has room for it.
ExecuteBody(g, ip, registers) ==
    /\ Len(windows) < MaxWindows
    /\ windows' = Cons([gen |-> g, ip |-> ip, registers |-> registers], windows)
    /\ out' = <<>>
    /\ UNCHANGED crashed

StackOverflow(g) ==
    /\ generators[g].state = "Created" \/ generators[g].state = "Suspended"
    /\ Len(windows) = MaxWindows
    /\ Failed({g})

NextOfCompleted(g) ==
    /\ generators[g].state = "Completed"
    /\ out' = MakeIteratorResult(Undefined, TRUE)
    /\ UNCHANGED <<generators, windows, crashed>>

FirstNext(g) ==
    /\ generators[g].state = "Created"
    /\ generators' = [generators EXCEPT ![g].state = "Suspended"]
    /\ ExecuteBody(g, 0, <<generators[g].args>>)

\* The value of the call goes to the register that the instruction before
\* saved_ip names.
LaterNext(g, x) ==
    /\ generators[g].state = "Suspended"
    /\ generators[g].saved_ip > 0
    /\ ExecuteBody(g, generators[g].saved_ip, Append(generators[g].locals, x))
    /\ UNCHANGED generators

\* There is no instruction before the first one: a body that calls its own
\* generator before its first yield.
NextPanics(g) ==
    /\ generators[g].state = "Suspended"
    /\ generators[g].saved_ip = 0
    /\ Len(windows) < MaxWindows
    /\ crashed' = TRUE
    /\ UNCHANGED <<generators, windows, out>>

Next_(g, x) ==
    \/ NextOfCompleted(g)
    \/ FirstNext(g)
    \/ LaterNext(g, x)
    \/ NextPanics(g)
    \/ StackOverflow(g)

Return(g, x) ==
    /\ generators' = [generators EXCEPT ![g].state = "Completed"]
    /\ out' = MakeIteratorResult(x, TRUE)
    /\ UNCHANGED <<windows, crashed>>

\* throw() does not enter the body.
Throw(g) == Failed({g})

-----------------------------------------------------------------------------
(* Steps of the innermost body *)

Innermost == windows[1]

\* The caller's registers and position come back.
RestoreCaller == windows' = Tail(windows)

SaveRegisters(w) ==
    [generators EXCEPT ![w.gen].saved_ip = w.ip + 1, ![w.gen].locals = w.registers]

\* A mutated form: the state is set when the body yields.
YieldSuspending ==
    /\ windows # <<>>
    /\ Innermost.ip < MaxYields
    /\ generators' = [SaveRegisters(Innermost) EXCEPT ![Innermost.gen].state = "Suspended"]
    /\ out' = MakeIteratorResult(Innermost.registers, FALSE)
    /\ RestoreCaller
    /\ UNCHANGED crashed

Yield ==
    /\ windows # <<>>
    /\ Innermost.ip < MaxYields
    /\ generators' = SaveRegisters(Innermost)
    /\ out' = MakeIteratorResult(Innermost.registers, FALSE)
    /\ RestoreCaller
    /\ UNCHANGED crashed

Finish ==
    /\ windows # <<>>
    /\ generators' = [generators EXCEPT ![Innermost.gen].state = "Completed"]
    /\ out' = MakeIteratorResult(Innermost.registers, TRUE)
    /\ RestoreCaller
    /\ UNCHANGED crashed

Fail == windows # <<>> /\ Failed({})

-----------------------------------------------------------------------------
Next ==
    /\ ~crashed
    /\ \/ \E g \in Gens, x \in Vals : CreateGenerator(g, x)
       \/ \E g \in Existing :
             \/ \E x \in Vals : Next_(g, x) \/ Return(g, x)
             \/ Throw(g)
       \/ Yield
       \/ Finish
       \/ Fail

Spec == Init /\ [][Next]_vars
=============================================================================
