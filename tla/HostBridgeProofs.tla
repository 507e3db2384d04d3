--------------------------- MODULE HostBridgeProofs ---------------------------
(***************************************************************************)
(* The bridge implements the abstract host calls, for every number of      *)
(* calls, scripts and back-edges.                                          *)
(***************************************************************************)
EXTENDS HostBridgeProperties, WellFoundedInduction, SequenceTheorems, TLAPS

-----------------------------------------------------------------------------
(* Induction on the natural numbers *)

\* A set of natural numbers that is not empty has a least element.
LEMMA LeastNumber ==
    ASSUME NEW T, T \subseteq Nat, T # {}
    PROVE  \E x \in T : \A y \in T : ~(y < x)
<1>1. IsWellFoundedOn(OpToRel(<, Nat), Nat)
  BY NatLessThanWellFounded
<1>2. \E x \in T : \A y \in T : ~(<<y, x>> \in OpToRel(<, Nat))
  BY <1>1, WFMin
<1>3. \A x, y \in T : y < x => <<y, x>> \in OpToRel(<, Nat)
  BY DEF OpToRel
<1>4. QED
  BY <1>2, <1>3

\* Induction: what holds of 0 and passes from n to n + 1 holds of every number.
LEMMA Induction ==
    ASSUME NEW S, 0 \in S, \A n \in Nat : n \in S => n + 1 \in S
    PROVE  Nat \subseteq S
<1> DEFINE T == Nat \ S
<1>1. ASSUME T # {} PROVE FALSE
  <2>1. PICK x \in T : \A y \in T : ~(y < x)
    BY <1>1, LeastNumber
  <2>2. x # 0 /\ x \in Nat
    BY <2>1
  <2>3. x - 1 \in Nat /\ x - 1 < x
    BY <2>2
  <2>4. x - 1 \in S
    BY <2>1, <2>3
  <2>5. QED
    BY <2>1, <2>2, <2>3, <2>4
<1>2. QED
  BY <1>1

-----------------------------------------------------------------------------
(* Without *)

\* f[i] are the first i items of s that are not excluded.
SelectionStep(f, s, excluded, i) ==
    IF i = 0 THEN << >>
    ELSE IF s[i] \in excluded THEN f[i - 1]
    ELSE Append(f[i - 1], s[i])
IsSelection(f, s, excluded, n) == f = [i \in 0 .. n |-> SelectionStep(f, s, excluded, i)]

\* The recursive function that Without is defined by exists.
LEMMA SelectionExists ==
    ASSUME NEW s, NEW excluded
    PROVE  \A n \in Nat : \E f : IsSelection(f, s, excluded, n)
<1> DEFINE S == {n \in Nat : \E f : IsSelection(f, s, excluded, n)}
<1>1. 0 \in S
  <2>1. IsSelection([i \in 0 .. 0 |-> << >>], s, excluded, 0)
    BY DEF IsSelection, SelectionStep
  <2>2. QED BY <2>1
<1>2. ASSUME NEW n \in Nat, n \in S PROVE n + 1 \in S
  <2>1. PICK f : IsSelection(f, s, excluded, n)
    BY <1>2
  <2> DEFINE g == [i \in 0 .. n + 1 |-> SelectionStep(f, s, excluded, i)]
  <2>2. \A i \in 0 .. n : g[i] = f[i]
    BY <2>1 DEF IsSelection
  <2>3. \A i \in 1 .. n + 1 : i - 1 \in 0 .. n /\ g[i - 1] = f[i - 1]
    <3>1. \A i \in 1 .. n + 1 : i - 1 \in 0 .. n
      OBVIOUS
    <3>2. QED BY <2>2, <3>1
  <2> HIDE DEF g
  <2>4. \A i \in 0 .. n + 1 : SelectionStep(f, s, excluded, i) = SelectionStep(g, s, excluded, i)
    BY <2>3 DEF SelectionStep
  <2>5. IsSelection(g, s, excluded, n + 1)
    BY <2>4 DEF IsSelection, g
  <2>6. QED BY <2>5
<1> HIDE DEF S
<1>3. Nat \subseteq S
  BY <1>1, <1>2, Induction
<1>4. QED
  BY <1>3 DEF S

\* Every prefix of the selection is a sequence of items that are not excluded.
LEMMA SelectionType ==
    ASSUME NEW S, NEW s \in Seq(S), NEW excluded, NEW f,
           IsSelection(f, s, excluded, Len(s))
    PROVE  \A i \in 0 .. Len(s) : f[i] \in Seq(S \ excluded)
<1> DEFINE T == {n \in Nat : n <= Len(s) => f[n] \in Seq(S \ excluded)}
<1> \A n \in 0 .. Len(s) : f[n] = SelectionStep(f, s, excluded, n)
  BY DEF IsSelection
<1>1. 0 \in T
  <2>1. Len(s) \in Nat /\ << >> \in Seq(S \ excluded)
    OBVIOUS
  <2>2. f[0] = << >>
    BY <2>1 DEF SelectionStep
  <2>3. QED
    BY <2>1, <2>2
<1>2. ASSUME NEW n \in Nat, n \in T PROVE n + 1 \in T
  <2> SUFFICES ASSUME n + 1 <= Len(s) PROVE f[n + 1] \in Seq(S \ excluded)
    OBVIOUS
  <2>1. f[n] \in Seq(S \ excluded)
    BY <1>2
  <2>2. f[n + 1] = IF s[n + 1] \in excluded THEN f[n] ELSE Append(f[n], s[n + 1])
    BY DEF SelectionStep
  <2>3. s[n + 1] \in S
    OBVIOUS
  <2>4. QED
    BY <2>1, <2>2, <2>3
<1> HIDE DEF T
<1>3. Nat \subseteq T
  BY <1>1, <1>2, Induction
<1>4. QED
  BY <1>3 DEF T

\* What Without keeps: items of the sequence that are not excluded.
LEMMA SelectedItems ==
    ASSUME NEW S, NEW s \in Seq(S), NEW excluded
    PROVE  Without(s, excluded) \in Seq(S \ excluded)
<1> DEFINE f == CHOOSE f : IsSelection(f, s, excluded, Len(s))
<1>1. Without(s, excluded) = f[Len(s)]
  BY DEF Without, IsSelection, SelectionStep
<1>2. IsSelection(f, s, excluded, Len(s))
  <2>1. Len(s) \in Nat
    OBVIOUS
  <2>2. QED BY <2>1, SelectionExists
<1> HIDE DEF f
<1>3. f[Len(s)] \in Seq(S \ excluded)
  <2>1. Len(s) \in 0 .. Len(s)
    OBVIOUS
  <2>2. QED BY <1>2, <2>1, SelectionType
<1>4. QED
  BY <1>1, <1>3

-----------------------------------------------------------------------------
(* The invariant *)

VMFields == {"next_host_call_id", "pending_host_calls", "host_callbacks",
             "event_listeners", "instructions"}

\* What holds of each VM: it has its fields, and its queue holds its last calls.
SoundVM(v) ==
    /\ DOMAIN v = VMFields
    /\ v.next_host_call_id \in Nat \ {0}
    /\ v.pending_host_calls \in Seq(Nat)
    /\ InOrder(v)

DrainedOf(v) == v.next_host_call_id - 1 - Len(v.pending_host_calls)

\* The inductive invariant. The host was given exactly the calls that left the
\* queue of its script, and top-level code runs before the host can drain.
IInv ==
    /\ SoundVM(vm) /\ SoundVM(kept)
    /\ turn \in Turns
    /\ turn = "callback" => callee \in Nat \ {0}
    /\ turn = "init" => DrainedOf(vm) = 0
    /\ received = 1..DrainedOf(Current)

-----------------------------------------------------------------------------
(***************************************************************************)
(* Lemmas about one VM.                                                    *)
(***************************************************************************)

\* A VM with no calls is sound, and nothing was drained from it.
LEMMA FreshIsSound == SoundVM(FreshVM) /\ DrainedOf(FreshVM) = 0
<1>1. /\ DOMAIN FreshVM = VMFields
      /\ FreshVM.next_host_call_id = 1
      /\ FreshVM.pending_host_calls = <<>>
      /\ FreshVM.host_callbacks = {}
  BY DEF FreshVM, VMFields
<1>2. <<>> \in Seq(Nat) /\ Len(<<>>) = 0 /\ DOMAIN <<>> = {}
  OBVIOUS
<1>3. DrainedOf(FreshVM) = 0
  <2>1. Len(FreshVM.pending_host_calls) = 0
    BY <1>1, <1>2
  <2>2. FreshVM.next_host_call_id - 1 - Len(FreshVM.pending_host_calls) = 1 - 1 - 0
    BY <1>1, <2>1, Zenon
  <2>. QED  BY <2>2 DEF DrainedOf
<1>4. InOrder(FreshVM)
  BY <1>1, <1>2, <1>3 DEF InOrder, DrainedOf
<1>. QED  BY <1>1, <1>2, <1>3, <1>4 DEF SoundVM

\* A change of other fields, or the loss of a callback, keeps a VM sound.
LEMMA SameQueue ==
  ASSUME NEW v, NEW w, SoundVM(v), DOMAIN w = VMFields,
         w.next_host_call_id = v.next_host_call_id,
         w.pending_host_calls = v.pending_host_calls,
         w.host_callbacks \subseteq v.host_callbacks
  PROVE  SoundVM(w) /\ DrainedOf(w) = DrainedOf(v)
BY DEF SoundVM, InOrder, DrainedOf

\* queue_host_call appends the next number and drains nothing.
LEMMA QueueIsSound ==
  ASSUME IInv, NEW withCallback \in BOOLEAN
  PROVE  LET w == QueueHostCall(withCallback)
             id == vm.next_host_call_id
         IN  /\ SoundVM(w) /\ DrainedOf(w) = DrainedOf(vm)
             /\ w.next_host_call_id = id + 1
             /\ w.host_callbacks = IF withCallback THEN vm.host_callbacks \union {id}
                                   ELSE vm.host_callbacks
<1>. DEFINE w == QueueHostCall(withCallback)
            id == vm.next_host_call_id
            queue == vm.pending_host_calls
<1>1. /\ DOMAIN w = VMFields
      /\ w.next_host_call_id = id + 1
      /\ w.pending_host_calls = Append(queue, id)
      /\ w.host_callbacks = IF withCallback THEN vm.host_callbacks \union {id}
                            ELSE vm.host_callbacks
  BY DEF QueueHostCall, IInv, SoundVM, VMFields
<1>2. id \in Nat \ {0} /\ queue \in Seq(Nat) /\ InOrder(vm)
  BY DEF IInv, SoundVM
<1>3. /\ Append(queue, id) \in Seq(Nat)
      /\ Len(Append(queue, id)) = Len(queue) + 1
      /\ Len(queue) \in Nat
      /\ \A i \in DOMAIN Append(queue, id) :
           Append(queue, id)[i] = IF i = Len(queue) + 1 THEN id ELSE queue[i]
  BY <1>2
<1>4. DrainedOf(w) = DrainedOf(vm)
  BY <1>1, <1>2, <1>3 DEF DrainedOf
<1>5. InOrder(w)
  <2>1. \A i \in DOMAIN Append(queue, id) : i \in DOMAIN queue \/ i = Len(queue) + 1
    BY <1>2, <1>3
  <2>2. \A i \in DOMAIN Append(queue, id) : Append(queue, id)[i] = DrainedOf(vm) + i
    <3>1. ASSUME NEW i \in DOMAIN queue PROVE queue[i] = DrainedOf(vm) + i /\ i # Len(queue) + 1
      BY <1>2, <1>3 DEF InOrder, DrainedOf
    <3>2. id = DrainedOf(vm) + (Len(queue) + 1)
      <4>1. id \in Nat /\ Len(queue) \in Nat
        BY <1>2, <1>3
      <4>. HIDE DEF id, queue
      <4>2. id = (id - 1 - Len(queue)) + (Len(queue) + 1)
        BY <4>1
      <4>. QED  BY <4>2 DEF DrainedOf, id, queue
    <3>. QED  BY <1>3, <2>1, <3>1, <3>2
  <2>3. w.host_callbacks \subseteq 1..(w.next_host_call_id - 1)
    BY <1>1, <1>2 DEF InOrder
  <2>. QED  BY <1>1, <1>2, <1>4, <2>2, <2>3 DEF InOrder, DrainedOf
<1>. HIDE DEF w
<1>6. SoundVM(w)
  BY <1>1, <1>2, <1>3, <1>5 DEF SoundVM
<1>. QED  BY <1>1, <1>4, <1>6 DEF w

\* Draining hands over the calls behind those drained before.
LEMMA DrainIsSound ==
  ASSUME IInv
  PROVE  LET w == [vm EXCEPT !.pending_host_calls = <<>>]
         IN  /\ SoundVM(w)
             /\ w.next_host_call_id = vm.next_host_call_id
             /\ w.host_callbacks = vm.host_callbacks
             /\ DrainedOf(w) = vm.next_host_call_id - 1
             /\ 1..DrainedOf(w) = (1..DrainedOf(vm)) \union ToSet(vm.pending_host_calls)
<1>. DEFINE w == [vm EXCEPT !.pending_host_calls = <<>>]
            queue == vm.pending_host_calls
<1>1. /\ DOMAIN w = VMFields
      /\ w.next_host_call_id = vm.next_host_call_id
      /\ w.pending_host_calls = <<>>
      /\ w.host_callbacks = vm.host_callbacks
  BY DEF IInv, SoundVM, VMFields
<1>2. vm.next_host_call_id \in Nat \ {0} /\ queue \in Seq(Nat) /\ InOrder(vm)
  BY DEF IInv, SoundVM
<1>. HIDE DEF w
<1>3. SoundVM(w) /\ DrainedOf(w) = vm.next_host_call_id - 1
  BY <1>1, <1>2 DEF SoundVM, InOrder, DrainedOf
<1>4. Len(queue) \in Nat /\ DOMAIN queue = 1..Len(queue)
  BY <1>2
<1>5. ToSet(queue) = (DrainedOf(vm) + 1)..(vm.next_host_call_id - 1)
  <2>1. ASSUME NEW n \in (DrainedOf(vm) + 1)..(vm.next_host_call_id - 1)
        PROVE  n \in ToSet(queue)
    <3>1. n - DrainedOf(vm) \in DOMAIN queue
      BY <1>2, <1>4 DEF DrainedOf
    <3>2. queue[n - DrainedOf(vm)] = n
      BY <1>2, <1>4, <3>1 DEF InOrder, DrainedOf
    <3>. QED  BY <3>1, <3>2 DEF ToSet
  <2>2. ASSUME NEW n \in ToSet(queue)
        PROVE  n \in (DrainedOf(vm) + 1)..(vm.next_host_call_id - 1)
    <3>1. PICK i \in DOMAIN queue : queue[i] = n
      BY DEF ToSet
    <3>. QED  BY <1>2, <1>4, <3>1 DEF InOrder, DrainedOf
  <2>. QED  BY <2>1, <2>2
<1>6. DrainedOf(vm) \in Nat /\ DrainedOf(vm) <= vm.next_host_call_id - 1
  BY <1>2, <1>4 DEF InOrder, DrainedOf
<1>7. 1..DrainedOf(w) = (1..DrainedOf(vm)) \union ToSet(queue)
  BY <1>2, <1>3, <1>5, <1>6
<1>. QED  BY <1>1, <1>3, <1>7 DEF w
-----------------------------------------------------------------------------
(***************************************************************************)
(* The invariant and the refinement, one step per action.                  *)
(***************************************************************************)
Running == IF turn = "callback" THEN callee ELSE 0

\* Initially no script runs and nothing was drained.
LEMMA InitSound == Init => IInv /\ Calls!Init
<1>. SUFFICES ASSUME Init PROVE IInv /\ Calls!Init
  OBVIOUS
<1>1. vm = FreshVM /\ kept = FreshVM /\ turn = "none" /\ received = {} /\ late = {}
  BY DEF Init
<1>2. Current = FreshVM
  BY <1>1 DEF Current
<1>3. FreshVM.next_host_call_id = 1 /\ FreshVM.host_callbacks = {}
  BY DEF FreshVM
<1>4. DrainedOf(FreshVM) = 0 /\ SoundVM(FreshVM)
  BY FreshIsSound
<1>5. IInv
  BY <1>1, <1>2, <1>4 DEF IInv, Turns
<1>6. Drained = DrainedOf(Current)
  BY DEF Drained, DrainedOf
<1>. QED  BY <1>1, <1>2, <1>3, <1>4, <1>5, <1>6 DEF Calls!Init

\* Each step keeps the invariant and is an abstract step or changes nothing.
LEMMA StepSound ==
  ASSUME IInv, [Next]_vars
  PROVE  IInv' /\ [Calls!Next]_(Calls!vars)
<1>. DEFINE Same == /\ Current' = Current /\ UNCHANGED late /\ Running' = Running
            Goal == IInv' /\ [Calls!Next]_(Calls!vars)
<1>sound. /\ SoundVM(vm) /\ SoundVM(kept) /\ turn \in Turns
          /\ turn = "callback" => callee \in Nat \ {0}
          /\ turn = "init" => DrainedOf(vm) = 0
          /\ received = 1..DrainedOf(Current)
  BY DEF IInv
<1>drained. Drained = DrainedOf(Current) /\ Drained' = DrainedOf(Current')
  BY DEF Drained, DrainedOf
<1>fresh. SoundVM(FreshVM) /\ DrainedOf(FreshVM) = 0
  BY FreshIsSound
<1>same. Same => UNCHANGED Calls!vars
  BY <1>drained DEF Calls!vars, Running
<1>1. CASE \E withCallback \in BOOLEAN : HostCall(withCallback)
  <2>1. PICK withCallback \in BOOLEAN : HostCall(withCallback)
    BY <1>1
  <2>2. vm' = QueueHostCall(withCallback) /\ UNCHANGED <<kept, turn, callee, received, late>>
    BY <2>1 DEF HostCall, script, host
  <2>3. /\ SoundVM(vm') /\ DrainedOf(vm') = DrainedOf(vm)
        /\ vm'.next_host_call_id = vm.next_host_call_id + 1
        /\ vm'.host_callbacks = IF withCallback THEN vm.host_callbacks \union {vm.next_host_call_id}
                                ELSE vm.host_callbacks
    BY <2>2, QueueIsSound
  <2>4. CASE turn = "init"
    <3>1. Current = kept /\ Current' = kept
      BY <2>2, <2>4 DEF Current
    <3>2. Same
      BY <2>2, <3>1 DEF Running
    <3>. QED  BY <1>sound, <1>same, <2>2, <2>3, <3>1, <3>2 DEF IInv
  <2>5. CASE turn # "init"
    <3>1. Current = vm /\ Current' = vm'
      BY <2>2, <2>5 DEF Current
    <3>2. IInv'
      BY <1>sound, <2>2, <2>3, <2>5, <3>1 DEF IInv
    <3>3. vm.next_host_call_id \in Nat
      BY <1>sound DEF SoundVM
    <3>4. /\ Current'.next_host_call_id - 1 = (Current.next_host_call_id - 1) + 1
          /\ vm.next_host_call_id = (Current.next_host_call_id - 1) + 1
      BY <2>3, <3>1, <3>3
    <3>5. Drained' = Drained
      BY <1>drained, <2>3, <3>1
    <3>6. Calls!Call(withCallback)
      BY <2>2, <2>3, <3>1, <3>4, <3>5 DEF Calls!Call
    <3>. QED  BY <3>2, <3>6 DEF Calls!Next
  <2>. QED  BY <2>4, <2>5
<1>2. ASSUME NEW w, SoundVM(w), DrainedOf(w) = DrainedOf(vm),
             w.next_host_call_id = vm.next_host_call_id,
             w.host_callbacks = vm.host_callbacks,
             vm' = w, UNCHANGED <<kept, turn, callee, received, late>>
      PROVE  Goal
  <2>1. SoundVM(vm') /\ DrainedOf(vm') = DrainedOf(vm)
    BY <1>2
  <2>2. /\ Current'.next_host_call_id = Current.next_host_call_id
        /\ Current'.host_callbacks = Current.host_callbacks
        /\ DrainedOf(Current') = DrainedOf(Current)
    BY <1>2 DEF Current
  <2>3. IInv'
    BY <1>sound, <1>2, <2>1, <2>2 DEF IInv
  <2>4. UNCHANGED Calls!vars
    BY <1>drained, <1>2, <2>2 DEF Calls!vars
  <2>. QED  BY <2>3, <2>4
<1>3. CASE \E h \in Handlers : AddEventListener(h) \/ RemoveEventListener(h)
  <2>1. PICK l : /\ vm' = [vm EXCEPT !.event_listeners = l]
                 /\ UNCHANGED <<kept, turn, callee, received, late>>
    BY <1>3 DEF AddEventListener, RemoveEventListener, script, host
  <2>2. /\ DOMAIN vm' = VMFields
        /\ vm'.next_host_call_id = vm.next_host_call_id
        /\ vm'.pending_host_calls = vm.pending_host_calls
        /\ vm'.host_callbacks = vm.host_callbacks
    BY <1>sound, <2>1 DEF SoundVM, VMFields
  <2>. QED  BY <1>sound, <1>2, <2>1, <2>2, SameQueue
<1>4. CASE BackEdge \/ CallUndefined
  <2>1. PICK n : /\ vm' = [vm EXCEPT !.instructions = n]
                 /\ UNCHANGED <<kept, turn, callee, received, late>>
    BY <1>4 DEF BackEdge, CallUndefined, WithFreshQuota, script, host
  <2>2. /\ DOMAIN vm' = VMFields
        /\ vm'.next_host_call_id = vm.next_host_call_id
        /\ vm'.pending_host_calls = vm.pending_host_calls
        /\ vm'.host_callbacks = vm.host_callbacks
    BY <1>sound, <2>1 DEF SoundVM, VMFields
  <2>. QED  BY <1>sound, <1>2, <2>1, <2>2, SameQueue
\* A turn ends, and the host's script is what it was, with the same callbacks.
<1>5. ASSUME turn # "none", turn' = "none", kept' = FreshVM, SoundVM(vm'),
             Current'.next_host_call_id = Current.next_host_call_id,
             Current'.host_callbacks = Current.host_callbacks,
             DrainedOf(Current') = DrainedOf(Current),
             UNCHANGED host
      PROVE  Goal
  <2>1. IInv'
    BY <1>sound, <1>fresh, <1>5 DEF IInv, Turns, host
  <2>2. CASE turn = "callback"
    <3>1. Calls!Finish
      BY <1>sound, <1>drained, <1>5, <2>2 DEF Calls!Finish, host
    <3>. QED  BY <2>1, <3>1 DEF Calls!Next
  <2>3. CASE turn # "callback"
    <3>1. UNCHANGED Calls!vars
      BY <1>drained, <1>5, <2>3 DEF Calls!vars, host
    <3>. QED  BY <2>1, <3>1
  <2>. QED  BY <2>2, <2>3
<1>6. CASE Interrupt \/ Throw
  <2>1. PICK now, result : /\ turn # "none"
                           /\ Fail(result, now)
                           /\ now = vm \/ now = [vm EXCEPT !.instructions = MaxInstructions + 1]
    BY <1>6 DEF Interrupt, Throw
  <2>2. turn' = "none" /\ kept' = FreshVM /\ UNCHANGED host
    BY <2>1 DEF Fail, EndTurn
  <2>3. /\ DOMAIN now = VMFields
        /\ now.next_host_call_id = vm.next_host_call_id
        /\ now.pending_host_calls = vm.pending_host_calls
        /\ now.host_callbacks = vm.host_callbacks
    BY <1>sound, <2>1 DEF SoundVM, VMFields
  <2>4. SoundVM(now) /\ DrainedOf(now) = DrainedOf(vm)
    BY <1>sound, <2>3, SameQueue
  <2>5. vm' = IF turn = "init" THEN kept ELSE now
    BY <2>1 DEF Fail
  <2>6. Current' = vm'
    BY <2>2 DEF Current
  <2>. QED  BY <1>sound, <1>5, <2>1, <2>2, <2>3, <2>4, <2>5, <2>6 DEF Current
<1>7. CASE Return
  <2>1. turn # "none" /\ turn' = "none" /\ kept' = FreshVM /\ UNCHANGED vm
    BY <1>7 DEF Return, EndTurn
  <2>2. Current' = vm
    BY <2>1 DEF Current
  <2>3. CASE turn = "init"
    <3>1. received' = {} /\ late' = late \union received
      BY <1>7, <2>3 DEF Return
    <3>2. IInv'
      BY <1>sound, <1>fresh, <2>1, <2>2, <2>3, <3>1 DEF IInv, Turns
    <3>3. /\ vm.next_host_call_id - 1 \in Nat
          /\ vm.host_callbacks \subseteq 1..(vm.next_host_call_id - 1)
      BY <1>sound DEF SoundVM, InOrder
    <3>4. Drained' = 0 /\ received = 1..Drained
      BY <1>sound, <1>drained, <2>2, <2>3
    <3>5. Calls!Replace
      BY <2>1, <2>2, <2>3, <3>1, <3>3, <3>4 DEF Calls!Replace
    <3>. QED  BY <3>2, <3>5 DEF Calls!Next
  <2>4. CASE turn # "init"
    <3>1. UNCHANGED host /\ Current = vm
      BY <1>7, <2>4 DEF Return, Current
    <3>. QED  BY <1>sound, <1>5, <2>1, <2>2, <3>1
  <2>. QED  BY <2>3, <2>4
<1>8. CASE InitScript
  <2>1. /\ turn = "none" /\ turn' = "init" /\ kept' = vm /\ vm' = FreshVM
        /\ UNCHANGED <<received, late>>
    BY <1>8 DEF InitScript, Idle, BeginTurn, host
  <2>2. Current = vm /\ Current' = vm
    BY <2>1 DEF Current
  <2>3. IInv'
    BY <1>sound, <1>fresh, <2>1, <2>2 DEF IInv, Turns
  <2>4. Same
    BY <2>1, <2>2 DEF Running
  <2>. QED  BY <1>same, <2>3, <2>4
\* A turn begins that answers no call.
<1>9. CASE CallFunction \/ NextHandler
  <2>1. /\ turn = "none" /\ turn' \in {"function", "handler"}
        /\ UNCHANGED <<kept, received, late>>
    BY <1>9 DEF CallFunction, NextHandler, Idle, BeginTurn, host
  <2>2. /\ DOMAIN vm' = VMFields
        /\ vm'.next_host_call_id = vm.next_host_call_id
        /\ vm'.pending_host_calls = vm.pending_host_calls
        /\ vm'.host_callbacks = vm.host_callbacks
    BY <1>9, <1>sound DEF CallFunction, NextHandler, WithFreshQuota, SoundVM, VMFields
  <2>3. SoundVM(vm') /\ DrainedOf(vm') = DrainedOf(vm)
    BY <1>sound, <2>2, SameQueue
  <2>4. Current = vm /\ Current' = vm'
    BY <2>1 DEF Current
  <2>5. IInv'
    BY <1>sound, <2>1, <2>3, <2>4 DEF IInv, Turns
  <2>6. UNCHANGED Calls!vars
    BY <1>drained, <2>1, <2>2, <2>3, <2>4 DEF Calls!vars
  <2>. QED  BY <2>5, <2>6
<1>10. CASE Drain
  <2>1. /\ turn = "none" /\ UNCHANGED <<kept, turn, callee, late>>
        /\ vm' = [vm EXCEPT !.pending_host_calls = <<>>]
        /\ received' = received \union ToSet(vm.pending_host_calls)
    BY <1>10 DEF Drain, Idle, script
  <2>2. /\ SoundVM(vm')
        /\ vm'.next_host_call_id = vm.next_host_call_id
        /\ vm'.host_callbacks = vm.host_callbacks
        /\ DrainedOf(vm') = vm.next_host_call_id - 1
        /\ 1..DrainedOf(vm') = (1..DrainedOf(vm)) \union ToSet(vm.pending_host_calls)
    BY <2>1, DrainIsSound
  <2>3. Current = vm /\ Current' = vm'
    BY <2>1 DEF Current
  <2>4. IInv'
    BY <1>sound, <2>1, <2>2, <2>3 DEF IInv
  <2>5. Calls!HandOver
    BY <1>drained, <2>1, <2>2, <2>3 DEF Calls!HandOver
  <2>. QED  BY <2>4, <2>5 DEF Calls!Next
<1>11. CASE \E id \in received \union late : Answer(id)
  <2>1. PICK id \in received \union late : Answer(id)
    BY <1>11
  <2>2. CASE ResolveUnknown(id)
    <3>1. UNCHANGED <<vm, kept, turn, callee, received, late>>
      BY <2>2 DEF ResolveUnknown, script, host
    <3>. QED  BY <1>sound, <1>2, <3>1
  <2>3. CASE Resolve(id)
    <3>1. /\ turn = "none" /\ turn' = "callback" /\ callee' = id
          /\ id \in vm.host_callbacks
          /\ vm' = [vm EXCEPT !.host_callbacks = vm.host_callbacks \ {id}]
          /\ UNCHANGED <<kept, received, late>>
      BY <2>3 DEF Resolve, CallbacksAfter, Idle, BeginTurn, host
    <3>2. /\ DOMAIN vm' = VMFields
          /\ vm'.next_host_call_id = vm.next_host_call_id
          /\ vm'.pending_host_calls = vm.pending_host_calls
          /\ vm'.host_callbacks = vm.host_callbacks \ {id}
      BY <1>sound, <3>1 DEF SoundVM, VMFields
    <3>3. SoundVM(vm') /\ DrainedOf(vm') = DrainedOf(vm)
      BY <1>sound, <3>2, SameQueue
    <3>4. Current = vm /\ Current' = vm'
      BY <3>1 DEF Current
    <3>5. id \in 1..(vm.next_host_call_id - 1) /\ id \in Nat \ {0}
      BY <1>sound, <3>1 DEF SoundVM, InOrder
    <3>6. IInv'
      BY <1>sound, <3>1, <3>3, <3>4, <3>5 DEF IInv, Turns
    <3>7. DrainedOf(vm) \in Nat /\ received = 1..DrainedOf(vm)
      BY <1>sound, <3>4 DEF SoundVM, InOrder, DrainedOf
    <3>8. Calls!Run(id)
      BY <1>drained, <2>1, <3>1, <3>2, <3>3, <3>4, <3>5, <3>7 DEF Calls!Run
    <3>9. id \in Current.host_callbacks
      BY <3>1, <3>4
    <3>. QED  BY <3>6, <3>8, <3>9 DEF Calls!Next
  <2>. QED  BY <2>1, <2>2, <2>3 DEF Answer
<1>12. CASE DispatchEvent \/ UNCHANGED vars
  <2>1. UNCHANGED <<vm, kept, turn, callee, received, late>>
    BY <1>12 DEF DispatchEvent, vars, script, host
  <2>. QED  BY <1>sound, <1>2, <2>1
<1>. QED  BY <1>1, <1>3, <1>4, <1>6, <1>7, <1>8, <1>9, <1>10, <1>11, <1>12 DEF Next

\* Each call reaches the host once, and its callback runs at most once and for
\* a number the host was given, through failures, interrupts, reloads and
\* repeated answers (queue_host_call, drain_pending_host_calls,
\* resolve_host_callback, initScript).
THEOREM CallsAreHandedOver == Spec => ImplementsHostCalls
<1>1. Init => IInv /\ Calls!Init
  BY InitSound
<1>2. IInv /\ [Next]_vars => IInv' /\ [Calls!Next]_(Calls!vars)
  BY StepSound
<1>. QED  BY <1>1, <1>2, PTL DEF Spec, ImplementsHostCalls

-----------------------------------------------------------------------------
(***************************************************************************)
(* The quota.                                                              *)
(***************************************************************************)

\* A turn that began with a fresh count has one back-edge in the count for each
\* of its own.
OwnCount == turn \in {"init", "function"} => vm.instructions = spent

QInv ==
    /\ DOMAIN vm = VMFields /\ vm.instructions \in Nat
    /\ DOMAIN kept = VMFields /\ kept.instructions \in Nat
    /\ OwnCount
    /\ spent \in Nat
    /\ turn \in {"init", "function"} => spent <= MaxInstructions

LEMMA QuotaKept == QInv /\ [Next]_vars => QInv'
<1> USE Bounds
<1> SUFFICES ASSUME QInv, [Next]_vars PROVE QInv'
  OBVIOUS
<1>fresh. DOMAIN FreshVM = VMFields /\ FreshVM.instructions = 0
  BY DEF FreshVM, VMFields
<1>1. ASSUME NEW b \in BOOLEAN, HostCall(b) PROVE QInv'
  BY <1>1, Zenon DEF HostCall, QueueHostCall, QInv, OwnCount, VMFields, script
<1>2. ASSUME NEW h \in Handlers, AddEventListener(h) \/ RemoveEventListener(h) PROVE QInv'
  BY <1>2 DEF AddEventListener, RemoveEventListener, QInv, OwnCount, VMFields, script
<1>3. CASE BackEdge
  BY <1>3 DEF BackEdge, OverLimit, QInv, OwnCount, VMFields
<1>4. CASE Interrupt \/ Throw
  BY <1>4, <1>fresh DEF Interrupt, Throw, Fail, EndTurn, QInv, OwnCount, VMFields
<1>5. CASE Return
  BY <1>5, <1>fresh DEF Return, EndTurn, QInv, OwnCount
<1>6. CASE InitScript
  BY <1>6, <1>fresh DEF InitScript, BeginTurn, QInv, OwnCount
<1>7. CASE CallFunction \/ CallUndefined
  BY <1>7 DEF CallFunction, CallUndefined, WithFreshQuota, BeginTurn, QInv, OwnCount, VMFields,
              Idle, script
<1>8. CASE DispatchEvent \/ NextHandler
  BY <1>8 DEF DispatchEvent, NextHandler, BeginTurn, QInv, OwnCount, Idle, script
<1>9. CASE Drain
  BY <1>9 DEF Drain, QInv, OwnCount, VMFields, script
<1>10. ASSUME NEW id \in received \union late, Answer(id) PROVE QInv'
  BY <1>10 DEF Answer, Resolve, ResolveUnknown, BeginTurn, QInv, OwnCount, VMFields, script
<1>11. CASE UNCHANGED vars
  BY <1>11 DEF vars, script, QInv, OwnCount
<1>. QED  BY <1>1, <1>2, <1>3, <1>4, <1>5, <1>6, <1>7, <1>8, <1>9, <1>10, <1>11 DEF Next

\* Top-level code and a called function are interrupted only after as many
\* back-edges of their own as the limit allows (check_execution_limits,
\* call_function).
THEOREM CallsGetTheirBudget == Spec => CallsHaveTheirBudget
<1>1. Init => QInv
  BY DEF Init, QInv, OwnCount, FreshVM, VMFields
<1>2. QInv /\ [Next]_vars => QInv'
  BY QuotaKept
<1>3. QInv /\ [Next]_vars => [Interrupt /\ turn \in {"init", "function"} => spent = MaxInstructions]_vars
  BY Bounds DEF QInv, OwnCount, Interrupt, OverLimit
<1>. QED  BY <1>1, <1>2, <1>3, PTL DEF Spec, CallsHaveTheirBudget
-----------------------------------------------------------------------------
(***************************************************************************)
(* Types.                                                                  *)
(***************************************************************************)

\* Besides the order of the queues, which IInv has: a script is being loaded
\* only below the bound, and a turn's back-edges are in the VM's count.
TInv ==
    /\ vm \in VMs /\ kept \in VMs
    /\ loads \in 0..MaxLoads
    /\ turn = "init" => loads < MaxLoads
    /\ turn \in Turns
    /\ callee \in Handlers \union {NoCallee} \union CallIds
    /\ turn = "callback" => callee \in CallIds
    /\ loops \in BOOLEAN
    /\ spent \in 0..MaxInstructions /\ spent <= vm.instructions
    /\ turn = "none" => spent = 0
    /\ dispatching \in Seq(Handlers)
    /\ received \subseteq CallIds /\ late \subseteq CallIds
    /\ outcome \in Outcomes

\* A new VM has the fields a VM has.
LEMMA FreshIsTyped == FreshVM \in VMs /\ FreshVM.instructions = 0
<1>1. 1 \in 1..(MaxCalls + 1) /\ 0 \in 0..(MaxInstructions + 1)
  BY Bounds
<1>2. << >> \in Seq(CallIds) /\ << >> \in Seq(Handlers) /\ {} \in SUBSET CallIds
  OBVIOUS
<1>. QED  BY <1>1, <1>2, Zenon DEF FreshVM, VMs

\* What an assignment to one field of a VM leaves.
LEMMA CountAssigned ==
  ASSUME NEW v \in VMs, NEW n \in 0..(MaxInstructions + 1)
  PROVE  /\ [v EXCEPT !.instructions = n] \in VMs
         /\ [v EXCEPT !.instructions = n].instructions = n
BY DEF VMs

LEMMA QueueAssigned ==
  ASSUME NEW v \in VMs, NEW q \in Seq(CallIds)
  PROVE  /\ [v EXCEPT !.pending_host_calls = q] \in VMs
         /\ [v EXCEPT !.pending_host_calls = q].instructions = v.instructions
BY DEF VMs

LEMMA CallbacksAssigned ==
  ASSUME NEW v \in VMs, NEW c \in SUBSET CallIds
  PROVE  /\ [v EXCEPT !.host_callbacks = c] \in VMs
         /\ [v EXCEPT !.host_callbacks = c].instructions = v.instructions
BY DEF VMs

LEMMA ListenersAssigned ==
  ASSUME NEW v \in VMs, NEW l \in Seq(Handlers)
  PROVE  /\ [v EXCEPT !.event_listeners = l] \in VMs
         /\ [v EXCEPT !.event_listeners = l].instructions = v.instructions
BY DEF VMs

LEMMA TypesKept == TInv /\ [Next]_vars => TInv'
<1> USE Bounds
<1> SUFFICES ASSUME TInv, [Next]_vars PROVE TInv'
  OBVIOUS
<1>fresh. FreshVM \in VMs /\ FreshVM.instructions = 0
  BY FreshIsTyped
\* What the end of a turn has to leave.
<1>end. ASSUME NEW result \in Outcomes, EndTurn(result), vm' \in VMs, loads' \in 0..MaxLoads,
               dispatching' \in Seq(Handlers), received' \subseteq CallIds, late' \subseteq CallIds
        PROVE  TInv'
  <2>1. vm'.instructions \in Nat /\ 0 \in 0..MaxInstructions
    BY <1>end, Bounds DEF VMs
  <2>2. kept' \in VMs /\ outcome' \in Outcomes /\ loops' \in BOOLEAN /\ callee' = NoCallee
    BY <1>end, <1>fresh DEF EndTurn
  <2>3. turn' = "none" /\ turn' \in Turns /\ spent' = 0 /\ 0 <= vm'.instructions
    BY <1>end, <2>1 DEF EndTurn, Turns
  <2>. QED  BY <1>end, <2>1, <2>2, <2>3 DEF TInv
<1>none. NoCallee \in Handlers \union {NoCallee} \union CallIds
  OBVIOUS
<1>1. ASSUME NEW b \in BOOLEAN, HostCall(b) PROVE TInv'
  <2>1. vm.next_host_call_id \in CallIds /\ vm.next_host_call_id + 1 \in 1..(MaxCalls + 1)
    BY <1>1 DEF HostCall, TInv, VMs, CallIds
  <2>2. Append(vm.pending_host_calls, vm.next_host_call_id) \in Seq(CallIds)
    BY <2>1 DEF TInv, VMs
  <2>3. QueueHostCall(b) \in VMs /\ QueueHostCall(b).instructions = vm.instructions
    BY <2>1, <2>2 DEF QueueHostCall, TInv, VMs
  <2>. QED  BY <1>1, <2>3 DEF HostCall, TInv, script, host
<1>2. ASSUME NEW h \in Handlers, AddEventListener(h) PROVE TInv'
  <2>1. Append(vm.event_listeners, h) \in Seq(Handlers)
    BY DEF TInv, VMs
  <2>2. vm' \in VMs /\ vm'.instructions = vm.instructions
    BY <1>2, <2>1, ListenersAssigned DEF AddEventListener, TInv
  <2>. QED  BY <1>2, <2>2 DEF AddEventListener, TInv, script, host
<1>3. ASSUME NEW h \in Handlers, RemoveEventListener(h) PROVE TInv'
  <2>1. ListenersWithout(h) \in Seq(Handlers \ {h})
    BY SelectedItems DEF TInv, VMs, ListenersWithout
  <2>2. ListenersWithout(h) \in Seq(Handlers)
    BY <2>1
  <2>3. vm' \in VMs /\ vm'.instructions = vm.instructions
    BY <1>3, <2>2, ListenersAssigned DEF RemoveEventListener, TInv
  <2>. QED  BY <1>3, <2>3 DEF RemoveEventListener, TInv, script, host
<1>4. CASE BackEdge
  <2>1. vm.instructions + 1 \in 0..MaxInstructions /\ vm.instructions \in Nat
    <3>1. vm.instructions \in 0..(MaxInstructions + 1)
      BY DEF TInv, VMs
    <3>2. ~(vm.instructions + 1 > MaxInstructions)
      BY <1>4 DEF BackEdge, OverLimit
    <3>. QED  BY <3>1, <3>2, Bounds
  <2>2. vm' \in VMs /\ vm'.instructions = vm.instructions + 1
    BY <1>4, <2>1, CountAssigned DEF BackEdge, TInv
  <2>. QED  BY <1>4, <2>1, <2>2 DEF BackEdge, TInv, host
<1>5. CASE Interrupt \/ Throw
  <2>1. PICK now, result : Fail(result, now) /\ now \in VMs /\ result \in Outcomes
    <3>1. [vm EXCEPT !.instructions = MaxInstructions + 1] \in VMs
      <4>1. MaxInstructions + 1 \in 0..(MaxInstructions + 1)
        OBVIOUS
      <4>. QED  BY <4>1, CountAssigned DEF TInv
    <3>. QED  BY <1>5, <3>1 DEF Interrupt, Throw, Outcomes, TInv
  <2>2. vm' \in VMs
    BY <2>1 DEF Fail, TInv
  <2>. QED  BY <1>end, <2>1, <2>2 DEF Fail, TInv, host
<1>6. CASE Return
  <2>1. loads' \in 0..MaxLoads
    BY <1>6 DEF Return, TInv
  <2>2. received' \subseteq CallIds /\ late' \subseteq CallIds
    BY <1>6 DEF Return, TInv, host
  <2>3. EndTurn("returned") /\ "returned" \in Outcomes
    BY <1>6 DEF Return, Outcomes
  <2>4. vm' \in VMs /\ dispatching' \in Seq(Handlers)
    BY <1>6 DEF Return, TInv
  <2>. QED  BY <1>end, <2>1, <2>2, <2>3, <2>4
<1>7. CASE InitScript
  BY <1>7, <1>fresh, <1>none DEF InitScript, BeginTurn, TInv, Turns, host
<1>8. CASE CallFunction \/ CallUndefined
  <2>1. WithFreshQuota \in VMs /\ WithFreshQuota.instructions = 0
    BY CountAssigned DEF WithFreshQuota, TInv
  <2>. QED
    BY <1>8, <1>none, <2>1
    DEF CallFunction, CallUndefined, BeginTurn, Idle, TInv, Turns, Outcomes, script, host
<1>9. CASE DispatchEvent
  BY <1>9 DEF DispatchEvent, TInv, VMs, script, host
<1>10. CASE NextHandler
  <2>1. Head(dispatching) \in Handlers /\ Tail(dispatching) \in Seq(Handlers)
    BY <1>10 DEF NextHandler, TInv
  <2>2. vm.instructions \in Nat
    BY DEF TInv, VMs
  <2>. QED  BY <1>10, <2>1, <2>2 DEF NextHandler, BeginTurn, TInv, Turns, host
<1>11. CASE Drain
  <2>1. ToSet(vm.pending_host_calls) \subseteq CallIds
    BY DEF TInv, VMs, ToSet
  <2>2. vm' \in VMs /\ vm'.instructions = vm.instructions
    <3>1. << >> \in Seq(CallIds)
      OBVIOUS
    <3>. QED  BY <1>11, <3>1, QueueAssigned DEF Drain, TInv
  <2>. QED  BY <1>11, <2>1, <2>2 DEF Drain, TInv, script
<1>12. ASSUME NEW id \in received \union late, Answer(id) PROVE TInv'
  <2>1. CASE Resolve(id)
    <3>1. id \in CallIds
      BY DEF TInv
    <3>2. vm' \in VMs /\ vm'.instructions = vm.instructions /\ vm.instructions \in Nat
      <4>1. vm.instructions \in Nat /\ CallbacksAfter(id) \in SUBSET CallIds
        BY DEF CallbacksAfter, TInv, VMs
      <4>. QED  BY <2>1, <4>1, CallbacksAssigned DEF Resolve, TInv
    <3>. QED  BY <2>1, <3>1, <3>2 DEF Resolve, BeginTurn, TInv, Turns, host
  <2>2. CASE ResolveUnknown(id)
    BY <2>2 DEF ResolveUnknown, TInv, Outcomes, script, host
  <2>. QED  BY <1>12, <2>1, <2>2 DEF Answer
<1>13. CASE UNCHANGED vars
  BY <1>13 DEF vars, TInv, script, host
<1>. QED
  BY <1>1, <1>2, <1>3, <1>4, <1>5, <1>6, <1>7, <1>8, <1>9, <1>10, <1>11, <1>12, <1>13 DEF Next

\* The parts of the state have their types, and every queue holds the last
\* calls in order, for any number of calls, scripts, handlers and back-edges
\* (queue_host_call, drain_pending_host_calls, removeEventListener,
\* check_execution_limits).
THEOREM TypeCorrect == Spec => []TypeOK
<1>1. Init => IInv /\ TInv
  <2>1. << >> \in Seq(Handlers) /\ 0 \in 0..MaxLoads /\ 0 \in 0..MaxInstructions
    BY Bounds
  <2>2. ASSUME Init PROVE TInv
    <3>1. vm \in VMs /\ kept \in VMs /\ vm.instructions = 0
      BY <2>2, FreshIsTyped DEF Init
    <3>2. /\ turn = "none" /\ turn \in Turns /\ callee = NoCallee /\ loops = FALSE
          /\ outcome \in Outcomes /\ received = {} /\ late = {}
      BY <2>2 DEF Init, Turns, Outcomes
    <3>3. loads = 0 /\ spent = 0 /\ dispatching = << >>
      BY <2>2 DEF Init
    <3>4. spent \in 0..MaxInstructions /\ spent <= vm.instructions
      BY <2>1, <3>1, <3>3
    <3>. QED  BY <2>1, <3>1, <3>2, <3>3, <3>4 DEF TInv
  <2>. QED  BY <2>2, InitSound
<1>2. IInv /\ TInv /\ [Next]_vars => IInv' /\ TInv'
  BY StepSound, TypesKept
<1>3. IInv /\ TInv => TypeOK
  BY DEF IInv, SoundVM, TInv, TypeOK
<1>. QED  BY <1>1, <1>2, <1>3, PTL DEF Spec
=============================================================================
