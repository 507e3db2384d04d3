------------------------ MODULE GeneratorsProperties ------------------------
(***************************************************************************)
(* What scripts rely on when they call generators.  A history variable     *)
(* remembers which of them were called while they ran.                     *)
(***************************************************************************)
EXTENDS Generators

VARIABLE reentered

hvars == <<generators, windows, out, crashed, reentered>>

Bodies(g) == {i \in DOMAIN windows : windows[i].gen = g}
Completed(g) == generators[g].state = "Completed"

\* next() and return() on a generator that runs leave two bodies of it, or one
\* that is completed.
Reentered(g) ==
    \/ \E i, j \in Bodies(g) : i # j
    \/ Bodies(g) # {} /\ Completed(g)

HistoryInit == Init /\ reentered = {}

HistoryNext ==
    /\ Next
    /\ reentered' = reentered \union {g \in Existing : Reentered(g)'}

HistorySpec == HistoryInit /\ [][HistoryNext]_hvars

-----------------------------------------------------------------------------
(* The refinement mapping *)

Status(g) ==
    IF g \in reentered THEN "misused"
    ELSE IF g \in Running THEN "running"
    ELSE [Created |-> "start", Suspended |-> "yielded", Completed |-> "completed"]
             [generators[g].state]

\* What the body has received: it is in its window while it runs.
Received(g) ==
    IF g \in reentered THEN <<>>
    ELSE IF g \in Running
         THEN windows[CHOOSE i \in DOMAIN windows : windows[i].gen = g].registers
    ELSE [Created |-> <<generators[g].args>>,
          Suspended |-> generators[g].locals,
          Completed |-> <<>>][generators[g].state]

Protocol == INSTANCE GeneratorProtocol
    WITH status <- [g \in Existing |-> Status(g)],
         received <- [g \in Existing |-> Received(g)],
         calls <- [i \in DOMAIN windows |-> windows[i].gen],
         dead <- crashed

(* Bodies that call each other's generators, fail and overflow the stack do  *)
(* not confuse them: each goes on with its own position and registers, and   *)
(* the answers say whether it is done.  A generator that its own body calls  *)
(* may answer anything, but it does no harm to the others, short of a panic. *)
ImplementsProtocol == Protocol!Spec

(* A completed generator stays completed, and no call runs its body again,   *)
(* whatever its body, which may still run when return() completes it, does.  *)
CompletedForGood ==
    [][\A g \in Existing :
          Completed(g) => /\ Completed(g)'
                          /\ Len(windows') > Len(windows) => windows'[1].gen # g]_hvars
=============================================================================
