--------------------------- MODULE CallStackProofs ---------------------------
(***************************************************************************)
(* For any functions, classes, sizes of windows and caches, and depth of   *)
(* calls: what CallStack states of them.                                   *)
(***************************************************************************)
EXTENDS CallStack, SequenceTheorems, TLAPS

-----------------------------------------------------------------------------
(* The inductive invariant *)

\* The machine m suits the code c.
Suits(m, c) ==
    /\ m.inst_ptr = c /\ m.max_stack_depth = c
    /\ CacheSlots[c] > 0 => IsCacheOf(m.inline_cache, c)

\* What m, the machine while a runs, still has of the machine that a has saved:
\* all that a does not give back itself.
Leaves(a, m) ==
    /\ a.kind \in {"Run", "Self", "New"} \union HostKinds => a.func = a.saved.inst_ptr
    /\ a.kind \in {"Run", "Self", "New", "Direct"} \union HostKinds =>
           m.instructions = a.saved.instructions
    /\ a.kind \in {"New"} \union HostKinds => m.ip = a.saved.ip
    /\ a.kind \in {"Self", "New"} \union HostKinds =>
           Keeps(m.inline_cache, a.saved.inline_cache)
    /\ (a.kind \notin {"Run", "Expression"} /\ CacheSlots[a.func] = 0) =>
           m.inline_cache = a.saved.inline_cache
    /\ a.kind = "Expression" => a.saved.instructions = a.saved.inst_ptr

\* The machine m is that of the native call a.
Belongs(m, a) ==
    /\ Suits(m, a.func)
    /\ Leaves(a, m)
    /\ m.sp = a.reg_base + a.window /\ a.reg_base = a.saved.sp
    /\ a.kind = "New" => a.window = 0

\* The machine m is that of the i-th of the native calls s, and of the script
\* between two runs if i is 0.
Good(m, s, i) ==
    IF i = 0 THEN Suits(m, Script) /\ m.instructions = Script
    ELSE Belongs(m, s[i])

\* The machine while the i-th native call is the innermost that runs: below
\* the innermost of all, it is what the next one has saved.
At(s, m, i) == IF i = Len(s) THEN m ELSE s[i + 1].saved

Placed(a, i) ==
    /\ a.kind \in {"Run"} \union HostKinds => i = 1
    /\ a.kind = "New" => a.callee \in Classes
    /\ a.kind \in HostKinds => a.callee \in Functions
    /\ a.kind \in {"Self", "Direct", "Slice", "Body"} => a.func \in Functions

\* The machines of the native calls s, with m the innermost, are linked.
Linked(s, m) ==
    /\ \A i \in 0 .. Len(s) : Good(At(s, m, i), s, i)
    /\ \A i \in 1 .. Len(s) : Placed(s[i], i)

ActsInv == Linked(acts, vm)

TargetsInv ==
    /\ NewTargetIsOwn
    /\ \A i \in 1 .. Len(acts) :
          (acts[i].kind = "New" /\ ~acts[i].was_leaked) =>
              IsTarget(acts[i].saved.new_target, i - 1)

IInv == TypeOK /\ ActsInv /\ CachesComeHome /\ WindowsApart /\ TargetsInv

-----------------------------------------------------------------------------
(* The native calls *)

\* b is the call a, but for how many calls it has made.
SameCall(b, a) ==
    /\ b.kind = a.kind /\ b.func = a.func /\ b.callee = a.callee
    /\ b.reg_base = a.reg_base /\ b.window = a.window /\ b.written = a.written
    /\ b.saved = a.saved /\ b.was_leaked = a.was_leaked

\* The calls t are the calls s and the call a on top of them.
IsPush(t, s, a) ==
    /\ t \in Seq(Activation) /\ Len(t) = Len(s) + 1 /\ t[Len(s) + 1] = a
    /\ \A i \in 1 .. Len(s) : SameCall(t[i], s[i])

\* The calls t are the calls s without the innermost.
IsPop(t, s) ==
    /\ t \in Seq(Activation) /\ Len(s) \in Nat \ {0} /\ Len(t) = Len(s) - 1
    /\ \A i \in 1 .. Len(s) - 1 : t[i] = s[i]

LEMMA MoreBegun ==
    ASSUME NEW a \in Activation
    PROVE  LET b == [a EXCEPT !.begun = a.begun + 1]
           IN  b \in Activation /\ SameCall(b, a)
BY DEF Activation, SameCall

LEMMA CountedSame ==
    ASSUME acts \in Seq(Activation)
    PROVE  /\ Counted \in Seq(Activation) /\ Len(Counted) = Len(acts)
           /\ \A i \in 1 .. Len(acts) : SameCall(Counted[i], acts[i])
<1>1. CASE Idle \/ Runs
  BY <1>1 DEF Counted, SameCall
<1>2. CASE ~(Idle \/ Runs)
  <2> DEFINE n == Len(acts)
             b == [acts[n] EXCEPT !.begun = acts[n].begun + 1]
  <2>1. n \in 1 .. n /\ acts[n] \in Activation
    BY <1>2 DEF Idle
  <2>2. b \in Activation /\ SameCall(b, acts[n])
    BY <2>1, MoreBegun
  <2>3. Counted = [acts EXCEPT ![n] = b]
    BY <1>2, <2>1 DEF Counted
  <2> HIDE DEF b, n
  <2>4. n = Len(acts)
    BY DEF n
  <2>5. Counted \in Seq(Activation) /\ Len(Counted) = n
    BY <2>1, <2>2, <2>3, <2>4
  <2>6. \A i \in 1 .. n : Counted[i] = IF i = n THEN b ELSE acts[i]
    BY <2>1, <2>3, <2>4
  <2>7. \A i \in 1 .. n : SameCall(Counted[i], acts[i])
    BY <2>2, <2>6 DEF SameCall
  <2> QED
    BY <2>4, <2>5, <2>7
<1> QED BY <1>1, <1>2

\* Begin leaves the calls below the new one as they were.
LEMMA Pushed ==
    ASSUME acts \in Seq(Activation), NEW a \in Activation, acts' = Append(Counted, a)
    PROVE  IsPush(acts', acts, a)
<1>1. /\ Counted \in Seq(Activation) /\ Len(Counted) = Len(acts)
      /\ \A i \in 1 .. Len(acts) : SameCall(Counted[i], acts[i])
  BY CountedSame
<1>2. acts' \in Seq(Activation) /\ Len(acts') = Len(acts) + 1 /\ acts'[Len(acts) + 1] = a
  BY <1>1
<1>3. \A i \in 1 .. Len(acts) : acts'[i] = Counted[i]
  BY <1>1
<1> QED BY <1>1, <1>2, <1>3 DEF IsPush

\* So does the end of the innermost.
LEMMA Popped ==
    ASSUME acts \in Seq(Activation), ~Idle, acts' = SubSeq(acts, 1, Len(acts) - 1)
    PROVE  IsPop(acts', acts) /\ Top \in Activation /\ Top = acts[Len(acts)]
<1> DEFINE m == Len(acts) - 1
<1>1. m \in Nat /\ Len(acts) \in Nat \ {0} /\ m <= Len(acts)
  BY DEF Idle
<1>2. \A i \in 1 .. m : acts[i] \in Activation
  BY <1>1
<1>3. Top \in Activation /\ Top = acts[Len(acts)]
  BY <1>1 DEF Top
<1>4. acts' = SubSeq(acts, 1, m)
  OBVIOUS
<1> HIDE DEF m
<1>5. acts' \in Seq(Activation)
  BY <1>1, <1>2, <1>4, SubSeqProperties
<1>6. Len(acts') = m
  BY <1>1, <1>2, <1>4, SubSeqProperties
<1>7. \A i \in 1 .. m : acts'[i] = acts[i]
  BY <1>1, <1>2, <1>4, SubSeqProperties
<1> QED BY <1>1, <1>3, <1>5, <1>6, <1>7 DEF IsPop, m

LEMMA BelongsSame ==
    ASSUME NEW m, NEW a, NEW b, SameCall(b, a), Belongs(m, a)
    PROVE  Belongs(m, b)
BY DEF SameCall, Belongs, Leaves

LEMMA LinkedPushed ==
    ASSUME NEW s \in Seq(Activation), NEW t, NEW a, IsPush(t, s, a),
           NEW m, NEW n, Linked(s, m),
           Good(a.saved, s, Len(s)), Belongs(n, a), Placed(a, Len(s) + 1)
    PROVE  Linked(t, n)
<1> DEFINE k == Len(s)
<1>0. k \in Nat
  OBVIOUS
<1>1. /\ Len(t) = k + 1 /\ t[k + 1] = a
      /\ \A i \in 1 .. k : SameCall(t[i], s[i])
  BY DEF IsPush
<1>2. /\ \A i \in 0 .. k : Good(At(s, m, i), s, i)
      /\ \A i \in 1 .. k : Placed(s[i], i)
  BY DEF Linked
<1>3. Good(a.saved, s, k)
  OBVIOUS
<1> HIDE DEF k
<1>4. ASSUME NEW i \in 0 .. k, NEW o, Good(o, s, i) PROVE Good(o, t, i)
  <2>1. CASE i = 0
    BY <1>4, <2>1 DEF Good
  <2>2. CASE i # 0
    <3>1. i \in 1 .. k /\ Belongs(o, s[i])
      BY <1>0, <1>4, <2>2 DEF Good
    <3>2. Belongs(o, t[i])
      BY <1>1, <3>1, BelongsSame
    <3> QED BY <2>2, <3>2 DEF Good
  <2> QED BY <2>1, <2>2
<1>5. ASSUME NEW i \in 0 .. k + 1 PROVE Good(At(t, n, i), t, i)
  <2>1. CASE i = k + 1
    BY <1>0, <1>1, <2>1 DEF At, Good
  <2>2. CASE i = k
    <3>1. At(t, n, i) = a.saved /\ i \in 0 .. k
      BY <1>0, <1>1, <2>2 DEF At
    <3> QED BY <1>3, <1>4, <2>2, <3>1
  <2>3. CASE i \in 0 .. k - 1
    <3>1. i \in 0 .. k /\ i + 1 \in 1 .. k /\ i # k /\ i # k + 1
      BY <1>0, <2>3
    <3>2. At(s, m, i) = s[i + 1].saved
      BY <3>1 DEF At, k
    <3>3. At(t, n, i) = t[i + 1].saved
      BY <1>1, <3>1 DEF At
    <3>4. At(t, n, i) = At(s, m, i)
      BY <1>1, <3>1, <3>2, <3>3 DEF SameCall
    <3> QED BY <1>2, <1>4, <3>1, <3>4
  <2> QED BY <1>0, <2>1, <2>2, <2>3
<1>6. ASSUME NEW i \in 1 .. k + 1 PROVE Placed(t[i], i)
  <2>1. CASE i = k + 1
    BY <1>1, <2>1 DEF k
  <2>2. CASE i \in 1 .. k
    <3>1. Placed(s[i], i) /\ SameCall(t[i], s[i])
      BY <1>1, <1>2, <2>2
    <3> QED BY <3>1 DEF Placed, SameCall
  <2> QED BY <1>0, <2>1, <2>2
<1> QED BY <1>1, <1>5, <1>6 DEF Linked

LEMMA LinkedPopped ==
    ASSUME NEW s \in Seq(Activation), NEW t, IsPop(t, s),
           NEW m, NEW n, Linked(s, m), Good(n, s, Len(s) - 1)
    PROVE  Linked(t, n)
<1> DEFINE k == Len(s)
<1>1. /\ k \in Nat \ {0} /\ Len(t) = k - 1
      /\ \A i \in 1 .. k - 1 : t[i] = s[i]
  BY DEF IsPop
<1>2. /\ \A i \in 0 .. k : Good(At(s, m, i), s, i)
      /\ \A i \in 1 .. k : Placed(s[i], i)
  BY DEF Linked
<1>3. Good(n, s, k - 1)
  OBVIOUS
<1> HIDE DEF k
<1>4. ASSUME NEW i \in 0 .. k - 1, NEW o, Good(o, s, i) PROVE Good(o, t, i)
  <2>1. i # 0 => t[i] = s[i]
    BY <1>1
  <2> QED BY <1>4, <2>1 DEF Good
<1>5. ASSUME NEW i \in 0 .. k - 1 PROVE Good(At(t, n, i), t, i)
  <2>1. CASE i = k - 1
    BY <1>1, <1>3, <1>4, <2>1 DEF At
  <2>2. CASE i # k - 1
    <3>1. i \in 0 .. k /\ i + 1 \in 1 .. k - 1 /\ i # k
      BY <1>1, <2>2
    <3>2. At(s, m, i) = s[i + 1].saved
      BY <3>1 DEF At, k
    <3>3. At(t, n, i) = At(s, m, i)
      BY <1>1, <2>2, <3>1, <3>2 DEF At
    <3> QED BY <1>2, <1>4, <3>1, <3>3
  <2> QED BY <2>1, <2>2
<1>6. \A i \in 1 .. k - 1 : Placed(t[i], i)
  BY <1>1, <1>2
<1> QED BY <1>1, <1>5, <1>6 DEF Linked

LEMMA LinkedStay ==
    ASSUME NEW s \in Seq(Activation), NEW m, NEW n, Linked(s, m), Good(n, s, Len(s))
    PROVE  Linked(s, n)
BY DEF Linked, At

\* The machine of the innermost call, and the one that it has saved
LEMMA LinkedTop ==
    ASSUME NEW s \in Seq(Activation), NEW m, Linked(s, m)
    PROVE  /\ Good(m, s, Len(s))
           /\ s # <<>> => /\ Belongs(m, s[Len(s)]) /\ Placed(s[Len(s)], Len(s))
                          /\ Good(s[Len(s)].saved, s, Len(s) - 1)
<1> DEFINE k == Len(s)
<1>1. k \in Nat /\ (s # <<>> => k # 0)
  OBVIOUS
<1>2. /\ \A i \in 0 .. k : Good(At(s, m, i), s, i)
      /\ \A i \in 1 .. k : Placed(s[i], i)
  BY DEF Linked
<1>3. At(s, m, k) = m
  BY DEF At
<1>4. k # 0 => At(s, m, k - 1) = s[k].saved
  BY <1>1 DEF At
<1> HIDE DEF k
<1>5. Good(m, s, k)
  BY <1>1, <1>2, <1>3
<1>6. k # 0 => Belongs(m, s[k]) /\ Placed(s[k], k)
  BY <1>1, <1>2, <1>5 DEF Good
<1>7. k # 0 => Good(s[k].saved, s, k - 1)
  BY <1>1, <1>2, <1>4
<1> QED BY <1>1, <1>5, <1>6, <1>7 DEF k

-----------------------------------------------------------------------------
(* Caches *)

Swapping == {"Direct", "Slice", "Body"}

\* CachesComeHome of the calls s and the cells c
Home(s, c) ==
    \A f \in Functions :
        \/ IsCacheOf(c[f], f)
        \/ c[f] = <<>> /\ \E i \in 1 .. Len(s) : s[i].func = f /\ s[i].kind \in Swapping

\* What the call a makes of the cells c, and what its end makes of them
Lent(c, d, a) ==
    \A f \in Functions : \/ d[f] = c[f] \/ IsCacheOf(d[f], f)
                         \/ d[f] = <<>> /\ a.func = f /\ a.kind \in Swapping
Returned(c, d, a) ==
    \A f \in Functions : \/ IsCacheOf(d[f], f)
                         \/ d[f] = c[f] /\ ~(a.func = f /\ a.kind \in Swapping)

LEMMA FreshIsCache ==
    ASSUME NEW c \in Code
    PROVE  IsCacheOf(Fresh(c), c) /\ Fresh(c) \in Seq(Entry)
<1> DEFINE n == CacheSlots[c]
<1>1. n \in Nat
  BY CodeAssumption
<1>2. Fresh(c) = [k \in 1 .. n |-> Unused] /\ Unused \in Entry
  BY DEF Fresh, Entry
<1> HIDE DEF n
<1>3. Fresh(c) \in Seq(Entry) /\ Len(Fresh(c)) = n
  BY <1>1, <1>2
<1>4. \A k \in 1 .. n : Fresh(c)[k] = Unused
  BY <1>1, <1>2
<1> QED BY <1>3, <1>4 DEF IsCacheOf, n

LEMMA TakenIsCache ==
    ASSUME TypeOK, CachesComeHome, NEW f \in Functions
    PROVE  IsCacheOf(Taken(f), f) /\ Taken(f) \in Seq(Entry)
<1>1. CASE cell[f] = <<>>
  BY <1>1, FreshIsCache DEF Taken, Code
<1>2. CASE cell[f] # <<>>
  BY <1>2 DEF Taken, TypeOK, CachesComeHome
<1> QED BY <1>1, <1>2

LEMMA KeepsItself ==
    ASSUME NEW c
    PROVE  Keeps(c, c)
BY DEF Keeps

LEMMA KeepsOn ==
    ASSUME NEW c \in Seq(Entry), NEW d, NEW e, Keeps(e, d), Keeps(d, c)
    PROVE  Keeps(e, c)
BY DEF Keeps

LEMMA HomePushed ==
    ASSUME NEW s \in Seq(Activation), NEW t, NEW a, IsPush(t, s, a),
           NEW c, NEW d, Home(s, c), Lent(c, d, a)
    PROVE  Home(t, d)
<1>1. /\ Len(s) \in Nat /\ Len(t) = Len(s) + 1 /\ t[Len(s) + 1] = a
      /\ \A i \in 1 .. Len(s) : t[i].func = s[i].func /\ t[i].kind = s[i].kind
  BY DEF IsPush, SameCall
<1>2. ASSUME NEW f \in Functions, ~IsCacheOf(d[f], f)
      PROVE  d[f] = <<>> /\ \E i \in 1 .. Len(t) : t[i].func = f /\ t[i].kind \in Swapping
  <2>1. CASE d[f] = c[f]
    <3>1. PICK i \in 1 .. Len(s) : s[i].func = f /\ s[i].kind \in Swapping
      BY <1>2, <2>1 DEF Home
    <3>2. i \in 1 .. Len(t) /\ t[i].func = f /\ t[i].kind \in Swapping
      BY <1>1, <3>1
    <3>3. d[f] = <<>>
      BY <1>2, <2>1 DEF Home
    <3> QED BY <3>2, <3>3
  <2>2. CASE d[f] = <<>> /\ a.func = f /\ a.kind \in Swapping
    BY <1>1, <2>2
  <2> QED BY <1>2, <2>1, <2>2 DEF Lent
<1> QED BY <1>2 DEF Home

LEMMA HomePopped ==
    ASSUME NEW s \in Seq(Activation), NEW t, IsPop(t, s), NEW c, NEW d, Home(s, c),
           Returned(c, d, s[Len(s)])
    PROVE  Home(t, d)
<1>1. /\ Len(s) \in Nat \ {0} /\ Len(t) = Len(s) - 1
      /\ \A i \in 1 .. Len(s) - 1 : t[i] = s[i]
  BY DEF IsPop
<1>2. ASSUME NEW f \in Functions, ~IsCacheOf(d[f], f)
      PROVE  d[f] = <<>> /\ \E i \in 1 .. Len(t) : t[i].func = f /\ t[i].kind \in Swapping
  <2>1. d[f] = c[f] /\ ~(s[Len(s)].func = f /\ s[Len(s)].kind \in Swapping)
    BY <1>2 DEF Returned
  <2>2. c[f] = <<>> /\ \E i \in 1 .. Len(s) : s[i].func = f /\ s[i].kind \in Swapping
    BY <1>2, <2>1 DEF Home
  <2>3. PICK i \in 1 .. Len(s) : s[i].func = f /\ s[i].kind \in Swapping
    BY <2>2
  <2>4. i \in 1 .. Len(s) - 1
    BY <1>1, <2>1, <2>3
  <2>5. i \in 1 .. Len(t) /\ t[i] = s[i]
    BY <1>1, <2>4
  <2> QED BY <2>1, <2>2, <2>3, <2>5
<1> QED BY <1>2 DEF Home

-----------------------------------------------------------------------------
(* Windows *)

\* The window of a has all that the call writes, but for direct calls.
Covered(a) == a.kind \notin {"Self", "Direct"} => a.written <= a.window

\* WindowsApart of the calls s on a stack of that length
Apart(s, sp, len) ==
    /\ s # <<>> => sp = s[Len(s)].reg_base + s[Len(s)].window
    /\ \A i \in 1 .. Len(s) : \A j \in i + 1 .. Len(s) :
          s[i].reg_base + s[i].window <= s[j].reg_base
    /\ \A i \in 1 .. Len(s) :
          s[i].kind \in CodeKinds => s[i].reg_base + s[i].window <= Min2(len, STACK_SIZE)
    /\ \A i \in 1 .. Len(s) : Covered(s[i])

LEMMA WindowTypes ==
    ASSUME NEW s \in Seq(Activation), NEW i \in 1 .. Len(s)
    PROVE  s[i].reg_base \in Nat /\ s[i].window \in Nat
<1>1. s[i] \in Activation
  OBVIOUS
<1> QED BY <1>1, SizeAssumption DEF Activation

\* No window that is still in use reaches above sp.
LEMMA WindowsBelow ==
    ASSUME NEW s \in Seq(Activation), NEW sp, NEW len, Apart(s, sp, len),
           NEW i \in 1 .. Len(s)
    PROVE  s[i].reg_base + s[i].window <= sp
<1>1. Len(s) \in 1 .. Len(s) /\ s # <<>>
  OBVIOUS
<1>2. /\ s[i].reg_base \in Nat /\ s[i].window \in Nat
      /\ s[Len(s)].reg_base \in Nat /\ s[Len(s)].window \in Nat
  BY <1>1, WindowTypes
<1>3. CASE i = Len(s)
  BY <1>1, <1>2, <1>3 DEF Apart
<1>4. CASE i # Len(s)
  <2>1. Len(s) \in i + 1 .. Len(s)
    BY <1>4
  <2>2. s[i].reg_base + s[i].window <= s[Len(s)].reg_base
    BY <2>1 DEF Apart
  <2>3. sp = s[Len(s)].reg_base + s[Len(s)].window
    BY <1>1 DEF Apart
  <2> QED BY <1>2, <2>2, <2>3
<1> QED BY <1>3, <1>4

LEMMA ApartPushed ==
    ASSUME NEW s \in Seq(Activation), NEW t, NEW a \in Activation, IsPush(t, s, a),
           NEW sp \in Nat, NEW len \in Nat, Apart(s, sp, len), NEW len2 \in Nat, len <= len2,
           a.reg_base = sp, Covered(a),
           a.kind \in CodeKinds => sp + a.window <= Min2(len2, STACK_SIZE)
    PROVE  Apart(t, sp + a.window, len2)
<1> DEFINE n == Len(s)
<1>1. /\ t \in Seq(Activation) /\ Len(t) = n + 1 /\ t[n + 1] = a /\ t # <<>>
      /\ \A i \in 1 .. n : /\ t[i].reg_base = s[i].reg_base /\ t[i].window = s[i].window
                           /\ t[i].kind = s[i].kind /\ t[i].written = s[i].written
  BY DEF IsPush, SameCall
<1>2. n \in Nat
  OBVIOUS
<1>3. /\ \A i \in 1 .. n : \A j \in i + 1 .. n : s[i].reg_base + s[i].window <= s[j].reg_base
      /\ \A i \in 1 .. n :
            s[i].kind \in CodeKinds => s[i].reg_base + s[i].window <= Min2(len, STACK_SIZE)
      /\ \A i \in 1 .. n : Covered(s[i])
  BY DEF Apart
<1>4. \A i \in 1 .. n : /\ s[i].reg_base + s[i].window <= sp
                        /\ s[i].reg_base \in Nat /\ s[i].window \in Nat
  BY WindowsBelow, WindowTypes
<1> HIDE DEF n
<1>5. t[Len(t)] = a
  BY <1>1, <1>2
<1>6. ASSUME NEW i \in 1 .. n + 1, NEW j \in i + 1 .. n + 1
      PROVE  t[i].reg_base + t[i].window <= t[j].reg_base
  <2>1. i \in 1 .. n
    BY <1>2
  <2>2. CASE j = n + 1
    BY <1>1, <1>4, <2>1, <2>2
  <2>3. CASE j # n + 1
    <3>1. j \in i + 1 .. n /\ j \in 1 .. n
      BY <1>2, <2>3
    <3> QED BY <1>1, <1>3, <2>1, <3>1
  <2> QED BY <2>2, <2>3
<1>7. ASSUME NEW i \in 1 .. n + 1, t[i].kind \in CodeKinds
      PROVE  t[i].reg_base + t[i].window <= Min2(len2, STACK_SIZE)
  <2>1. CASE i = n + 1
    BY <1>1, <1>7, <2>1
  <2>2. CASE i # n + 1
    <3>1. i \in 1 .. n
      BY <1>2, <2>2
    <3>2. Min2(len, STACK_SIZE) <= Min2(len2, STACK_SIZE) /\ Min2(len, STACK_SIZE) \in Nat
          /\ Min2(len2, STACK_SIZE) \in Nat
      BY SizeAssumption DEF Min2
    <3>3. t[i].reg_base + t[i].window <= Min2(len, STACK_SIZE)
      BY <1>1, <1>3, <1>7, <3>1
    <3>4. t[i].reg_base + t[i].window \in Nat
      BY <1>1, <1>4, <3>1
    <3> QED BY <3>2, <3>3, <3>4
  <2> QED BY <2>1, <2>2
<1>8. ASSUME NEW i \in 1 .. n + 1 PROVE Covered(t[i])
  <2>1. i = n + 1 => t[i] = a
    BY <1>1
  <2>2. i # n + 1 => i \in 1 .. n
    BY <1>2
  <2> QED BY <1>1, <1>3, <2>1, <2>2 DEF Covered
<1> QED BY <1>1, <1>5, <1>6, <1>7, <1>8 DEF Apart

LEMMA ApartPopped ==
    ASSUME NEW s \in Seq(Activation), NEW t, IsPop(t, s),
           NEW sp \in Nat, NEW len \in Nat, Apart(s, sp, len), NEW len2 \in Nat,
           Min2(len, s[Len(s)].reg_base) <= len2,
           NEW sp2, t # <<>> => sp2 = t[Len(t)].reg_base + t[Len(t)].window
    PROVE  Apart(t, sp2, len2)
<1> DEFINE n == Len(s)
           base == s[Len(s)].reg_base
<1>1. n \in Nat \ {0} /\ Len(t) = n - 1 /\ \A i \in 1 .. n - 1 : t[i] = s[i]
  BY DEF IsPop
<1>2. /\ \A i \in 1 .. n : \A j \in i + 1 .. n : s[i].reg_base + s[i].window <= s[j].reg_base
      /\ \A i \in 1 .. n :
            s[i].kind \in CodeKinds => s[i].reg_base + s[i].window <= Min2(len, STACK_SIZE)
      /\ \A i \in 1 .. n : Covered(s[i])
  BY DEF Apart
<1>3. n \in 1 .. n
  BY <1>1
<1>4. \A i \in 1 .. n : s[i].reg_base \in Nat /\ s[i].window \in Nat
  BY WindowTypes
<1>5. base \in Nat
  BY <1>3, <1>4
<1>6. \A i \in 1 .. n - 1 : s[i].reg_base + s[i].window <= base
  <2> TAKE i \in 1 .. n - 1
  <2>1. i \in 1 .. n /\ n \in i + 1 .. n
    BY <1>1
  <2> QED BY <1>2, <2>1
<1>7. Min2(len, base) <= len2
  OBVIOUS
<1> HIDE DEF n, base
<1>8. ASSUME NEW i \in 1 .. n - 1, NEW j \in i + 1 .. n - 1
      PROVE  t[i].reg_base + t[i].window <= t[j].reg_base
  <2>1. i \in 1 .. n /\ j \in i + 1 .. n /\ j \in 1 .. n - 1
    BY <1>1
  <2> QED BY <1>1, <1>2, <2>1
<1>9. ASSUME NEW i \in 1 .. n - 1, t[i].kind \in CodeKinds
      PROVE  t[i].reg_base + t[i].window <= Min2(len2, STACK_SIZE)
  <2>1. i \in 1 .. n /\ t[i] = s[i]
    BY <1>1
  <2> DEFINE e == s[i].reg_base + s[i].window
  <2>2. e \in Nat /\ e <= base /\ e <= Min2(len, STACK_SIZE)
    BY <1>2, <1>4, <1>6, <1>9, <2>1
  <2> HIDE DEF e
  <2>3. e <= Min2(len2, STACK_SIZE)
    BY <1>5, <1>7, <2>2, SizeAssumption DEF Min2
  <2> QED BY <2>1, <2>3 DEF e
<1>10. ASSUME NEW i \in 1 .. n - 1 PROVE Covered(t[i])
  <2>1. i \in 1 .. n /\ t[i] = s[i]
    BY <1>1
  <2> QED BY <1>2, <2>1
<1> QED BY <1>1, <1>8, <1>9, <1>10 DEF Apart

LEMMA ApartStay ==
    ASSUME NEW s \in Seq(Activation), NEW sp \in Nat, NEW len \in Nat, Apart(s, sp, len),
           NEW len2 \in Nat, Min2(len, sp) <= len2
    PROVE  Apart(s, sp, len2)
<1>1. ASSUME NEW i \in 1 .. Len(s), s[i].kind \in CodeKinds
      PROVE  s[i].reg_base + s[i].window <= Min2(len2, STACK_SIZE)
  <2>1. s[i].reg_base \in Nat /\ s[i].window \in Nat
    BY WindowTypes
  <2>2. s[i].reg_base + s[i].window <= sp
    BY WindowsBelow
  <2>3. s[i].reg_base + s[i].window <= Min2(len, STACK_SIZE)
    BY <1>1 DEF Apart
  <2> QED BY <2>1, <2>2, <2>3, SizeAssumption DEF Min2
<1> QED BY <1>1 DEF Apart

-----------------------------------------------------------------------------
(* new.target *)

\* IsTarget among the calls s
IsTargetOf(s, t, n) ==
    /\ (\A i \in 1 .. n : s[i].kind # "New") => t = NoClass
    /\ \A i \in 1 .. n :
          (s[i].kind = "New" /\ \A j \in i + 1 .. n : s[j].kind # "New") => t = s[i].callee

\* What each of the calls s, and the innermost, knows of new.target
Targets(s, t, leak) ==
    /\ ~leak => IsTargetOf(s, t, Len(s))
    /\ \A i \in 1 .. Len(s) :
          (s[i].kind = "New" /\ ~s[i].was_leaked) =>
              IsTargetOf(s, s[i].saved.new_target, i - 1)

\* It depends on the first n calls only.
LEMMA TargetSame ==
    ASSUME NEW s, NEW u, NEW n \in Nat,
           \A i \in 1 .. n : u[i].kind = s[i].kind /\ u[i].callee = s[i].callee,
           NEW t, IsTargetOf(s, t, n)
    PROVE  IsTargetOf(u, t, n)
<1>1. (\A i \in 1 .. n : u[i].kind # "New") => t = NoClass
  BY DEF IsTargetOf
<1>2. ASSUME NEW i \in 1 .. n, u[i].kind = "New", \A j \in i + 1 .. n : u[j].kind # "New"
      PROVE  t = u[i].callee
  <2>1. \A j \in i + 1 .. n : j \in 1 .. n
    OBVIOUS
  <2>2. \A j \in i + 1 .. n : s[j].kind # "New"
    BY <1>2, <2>1
  <2> QED BY <1>2, <2>2 DEF IsTargetOf
<1> QED BY <1>1, <1>2 DEF IsTargetOf

\* A call that does not construct does not change what new.target should be.
LEMMA TargetOther ==
    ASSUME NEW s, NEW n \in Nat, s[n + 1].kind # "New", NEW t
    PROVE  IsTargetOf(s, t, n + 1) <=> IsTargetOf(s, t, n)
<1>1. 1 .. n + 1 = 1 .. n \union {n + 1}
  OBVIOUS
<1>2. \A i \in 1 .. n : i + 1 .. n + 1 = (i + 1 .. n) \union {n + 1}
  OBVIOUS
<1>3. (\A i \in 1 .. n + 1 : s[i].kind # "New") <=> (\A i \in 1 .. n : s[i].kind # "New")
  BY <1>1
<1>4. \A i \in 1 .. n : (\A j \in i + 1 .. n + 1 : s[j].kind # "New")
                           <=> (\A j \in i + 1 .. n : s[j].kind # "New")
  BY <1>2
<1>5. (\A i \in 1 .. n + 1 :
          (s[i].kind = "New" /\ \A j \in i + 1 .. n + 1 : s[j].kind # "New") => t = s[i].callee)
      <=> (\A i \in 1 .. n :
          (s[i].kind = "New" /\ \A j \in i + 1 .. n : s[j].kind # "New") => t = s[i].callee)
  BY <1>1, <1>4
<1> QED BY <1>3, <1>5 DEF IsTargetOf

LEMMA TargetNew ==
    ASSUME NEW s, NEW n \in Nat, s[n + 1].kind = "New"
    PROVE  IsTargetOf(s, s[n + 1].callee, n + 1)
<1>1. n + 1 \in 1 .. n + 1
  OBVIOUS
<1>2. ASSUME NEW i \in 1 .. n + 1, \A j \in i + 1 .. n + 1 : s[j].kind # "New"
      PROVE  i = n + 1
  <2>1. i # n + 1 => n + 1 \in i + 1 .. n + 1
    OBVIOUS
  <2> QED BY <1>2, <2>1
<1> QED BY <1>1, <1>2 DEF IsTargetOf

LEMMA TargetsPushed ==
    ASSUME NEW s \in Seq(Activation), NEW u, NEW a, IsPush(u, s, a),
           NEW t, NEW leak, Targets(s, t, leak), NEW t2, NEW leak2,
           a.kind # "New" => t2 = t /\ leak2 = leak,
           a.kind = "New" => t2 = a.callee /\ a.saved.new_target = t /\ a.was_leaked = leak
    PROVE  Targets(u, t2, leak2)
<1> DEFINE n == Len(s)
<1>1. /\ n \in Nat /\ Len(u) = n + 1 /\ u[n + 1] = a
      /\ \A i \in 1 .. n : /\ u[i].kind = s[i].kind /\ u[i].callee = s[i].callee
                           /\ u[i].saved = s[i].saved /\ u[i].was_leaked = s[i].was_leaked
  BY DEF IsPush, SameCall
<1>2. /\ ~leak => IsTargetOf(s, t, n)
      /\ \A i \in 1 .. n : (s[i].kind = "New" /\ ~s[i].was_leaked) =>
              IsTargetOf(s, s[i].saved.new_target, i - 1)
  BY DEF Targets
<1> HIDE DEF n
<1>3. ASSUME NEW i \in 0 .. n, NEW x, IsTargetOf(s, x, i) PROVE IsTargetOf(u, x, i)
  <2>1. i \in Nat /\ \A j \in 1 .. i : u[j].kind = s[j].kind /\ u[j].callee = s[j].callee
    BY <1>1
  <2> QED BY <1>3, <2>1, TargetSame
<1>4. ~leak2 => IsTargetOf(u, t2, n + 1)
  <2>1. CASE a.kind = "New"
    BY <1>1, <2>1, TargetNew
  <2>2. CASE a.kind # "New"
    <3>1. ~leak => IsTargetOf(u, t, n)
      BY <1>1, <1>2, <1>3
    <3> QED BY <1>1, <2>2, <3>1, TargetOther
  <2> QED BY <2>1, <2>2
<1>5. ASSUME NEW i \in 1 .. n + 1, u[i].kind = "New", ~u[i].was_leaked
      PROVE  IsTargetOf(u, u[i].saved.new_target, i - 1)
  <2>1. CASE i = n + 1
    <3>1. i - 1 = n /\ n \in 0 .. n
      BY <1>1, <2>1
    <3>2. IsTargetOf(u, t, n)
      BY <1>1, <1>2, <1>3, <1>5, <2>1, <3>1
    <3> QED BY <1>1, <1>5, <2>1, <3>1, <3>2
  <2>2. CASE i # n + 1
    <3>1. i \in 1 .. n /\ i - 1 \in 0 .. n
      BY <1>1, <2>2
    <3>2. IsTargetOf(s, s[i].saved.new_target, i - 1)
      BY <1>1, <1>2, <1>5, <3>1
    <3>3. IsTargetOf(u, s[i].saved.new_target, i - 1)
      BY <1>3, <3>1, <3>2
    <3> QED BY <1>1, <3>1, <3>3
  <2> QED BY <2>1, <2>2
<1> QED BY <1>1, <1>4, <1>5 DEF Targets

LEMMA TargetsPopped ==
    ASSUME NEW s \in Seq(Activation), NEW u, IsPop(u, s),
           NEW t, NEW leak, Targets(s, t, leak), NEW t2, NEW leak2,
           s[Len(s)].kind # "New" => t2 = t /\ leak2 = leak,
           s[Len(s)].kind = "New" =>
               \/ leak2
               \/ t2 = s[Len(s)].saved.new_target /\ leak2 = s[Len(s)].was_leaked
    PROVE  Targets(u, t2, leak2)
<1> DEFINE n == Len(s) - 1
           a == s[Len(s)]
<1>1. n \in Nat /\ Len(s) = n + 1 /\ Len(u) = n /\ \A i \in 1 .. n : u[i] = s[i]
  BY DEF IsPop
<1>2. /\ ~leak => IsTargetOf(s, t, n + 1)
      /\ \A i \in 1 .. n + 1 : (s[i].kind = "New" /\ ~s[i].was_leaked) =>
              IsTargetOf(s, s[i].saved.new_target, i - 1)
  BY <1>1 DEF Targets
<1>3. /\ a = s[n + 1] /\ a.kind # "New" => t2 = t /\ leak2 = leak
      /\ a.kind = "New" => leak2 \/ (t2 = a.saved.new_target /\ leak2 = a.was_leaked)
  BY <1>1
<1>a. a = s[n + 1]
  BY <1>1
<1> HIDE DEF n, a
<1>4. ASSUME NEW i \in 0 .. n, NEW x, IsTargetOf(s, x, i) PROVE IsTargetOf(u, x, i)
  <2>1. i \in Nat /\ \A j \in 1 .. i : u[j].kind = s[j].kind /\ u[j].callee = s[j].callee
    BY <1>1
  <2> QED BY <1>4, <2>1, TargetSame
<1>5. ASSUME ~leak2 PROVE IsTargetOf(u, t2, n)
  <2>1. CASE a.kind = "New"
    <3>1. t2 = s[n + 1].saved.new_target /\ ~s[n + 1].was_leaked /\ s[n + 1].kind = "New"
      BY <1>3, <1>a, <1>5, <2>1
    <3>2. n + 1 \in 1 .. n + 1 /\ (n + 1) - 1 = n /\ n \in 0 .. n
      BY <1>1
    <3>3. IsTargetOf(s, t2, n)
      BY <1>2, <3>1, <3>2
    <3> QED BY <1>4, <3>2, <3>3
  <2>2. CASE a.kind # "New"
    <3>1. t2 = t /\ ~leak /\ s[n + 1].kind # "New"
      BY <1>3, <1>a, <1>5, <2>2
    <3>2. IsTargetOf(s, t, n)
      BY <1>1, <1>2, <3>1, TargetOther
    <3> QED BY <1>1, <1>4, <3>1, <3>2
  <2> QED BY <2>1, <2>2
<1>6. ASSUME NEW i \in 1 .. n, u[i].kind = "New", ~u[i].was_leaked
      PROVE  IsTargetOf(u, u[i].saved.new_target, i - 1)
  <2>1. i \in 1 .. n + 1 /\ i - 1 \in 0 .. n /\ u[i] = s[i]
    BY <1>1
  <2> QED BY <1>2, <1>4, <1>6, <2>1
<1> QED BY <1>1, <1>5, <1>6 DEF Targets

-----------------------------------------------------------------------------
(* The parts of the invariant, of the state and of the next one *)

Types(m, len, c, s, r, k) ==
    /\ m \in Machine
    /\ len \in 0 .. MaxSp
    /\ c \in [Functions -> Seq(Entry)]
    /\ s \in Seq(Activation)
    /\ r \in BOOLEAN /\ k \in BOOLEAN

Holds(m, len, c, s, r, k) ==
    /\ Types(m, len, c, s, r, k)
    /\ Linked(s, m) /\ Home(s, c) /\ Apart(s, m.sp, len) /\ Targets(s, m.new_target, k)

LEMMA IInvHolds == IInv <=> Holds(vm, stack_len, cell, acts, raising, leaked)
<1>1. TypeOK <=> Types(vm, stack_len, cell, acts, raising, leaked)
  BY DEF TypeOK, Types
<1>2. CachesComeHome <=> Home(acts, cell)
  BY DEF CachesComeHome, Home, Swapping
<1>3. WindowsApart <=> Apart(acts, vm.sp, stack_len)
  BY DEF WindowsApart, Apart, Covered, Idle, Top
<1>4. TargetsInv <=> Targets(acts, vm.new_target, leaked)
  BY DEF TargetsInv, NewTargetIsOwn, Targets, IsTarget, IsTargetOf
<1> QED BY <1>1, <1>2, <1>3, <1>4 DEF IInv, Holds, ActsInv

LEMMA IInvHoldsNext == IInv' <=> Holds(vm', stack_len', cell', acts', raising', leaked')
<1>1. TypeOK' <=> Types(vm', stack_len', cell', acts', raising', leaked')
  BY DEF TypeOK, Types
<1>2. CachesComeHome' <=> Home(acts', cell')
  BY DEF CachesComeHome, Home, Swapping
<1>3. WindowsApart' <=> Apart(acts', vm'.sp, stack_len')
  BY DEF WindowsApart, Apart, Covered, Idle, Top
<1>4. TargetsInv' <=> Targets(acts', vm'.new_target, leaked')
  BY DEF TargetsInv, NewTargetIsOwn, Targets, IsTarget, IsTargetOf
<1>5. ActsInv' <=> Linked(acts', vm')
  BY DEF ActsInv
<1> QED BY <1>1, <1>2, <1>3, <1>4, <1>5 DEF IInv, Holds

-----------------------------------------------------------------------------
(* The machine that is given back *)

\* The machine m goes on for the code that saved it as s.
Resumed(m, s) ==
    /\ m.ip = s.ip /\ m.inst_ptr = s.inst_ptr /\ m.instructions = s.instructions
    /\ m.max_stack_depth = s.max_stack_depth /\ m.sp = s.sp
    /\ \/ m.inline_cache = s.inline_cache
       \/ /\ CacheSlots[s.inst_ptr] > 0 /\ IsCacheOf(m.inline_cache, s.inst_ptr)
          /\ Keeps(m.inline_cache, s.inline_cache)

LEMMA ResumedGood ==
    ASSUME NEW s \in Seq(Activation), NEW i \in 0 .. Len(s), NEW m, NEW n,
           Good(n, s, i), Resumed(m, n)
    PROVE  Good(m, s, i)
<1>1. CASE i = 0
  BY <1>1 DEF Good, Resumed, Suits
<1>2. CASE i # 0
  <2> DEFINE a == s[i]
  <2>1. a \in Activation /\ Belongs(n, a)
    BY <1>2 DEF Good
  <2>2. a.saved.inline_cache \in Seq(Entry)
    BY <2>1 DEF Activation, Machine
  <2> HIDE DEF a
  <2>3. Suits(m, a.func) /\ n.inst_ptr = a.func
    BY <2>1 DEF Belongs, Resumed, Suits
  <2>4. Leaves(a, m)
    <3>1. CASE m.inline_cache = n.inline_cache
      BY <2>1, <3>1 DEF Belongs, Resumed, Leaves
    <3>2. CASE m.inline_cache # n.inline_cache
      <4>1. CacheSlots[a.func] # 0 /\ Keeps(m.inline_cache, n.inline_cache)
        BY <2>3, <3>2 DEF Resumed
      <4>2. Keeps(n.inline_cache, a.saved.inline_cache)
               => Keeps(m.inline_cache, a.saved.inline_cache)
        BY <2>2, <4>1, KeepsOn
      <4> QED BY <2>1, <4>1, <4>2 DEF Belongs, Resumed, Leaves
    <3> QED BY <3>1, <3>2
  <2>5. Belongs(m, a)
    BY <2>1, <2>3, <2>4 DEF Belongs, Resumed
  <2> QED BY <1>2, <2>5 DEF Good, a
<1> QED BY <1>1, <1>2

\* Running code may jump.
LEMMA JumpGood ==
    ASSUME NEW s \in Seq(Activation), NEW m \in Machine, Good(m, s, Len(s)),
           NEW ip \in Positions,
           (s # <<>> /\ s[Len(s)].kind \notin CodeKinds) => ip = m.ip
    PROVE  Good([m EXCEPT !.ip = ip], s, Len(s))
<1> DEFINE n == [m EXCEPT !.ip = ip]
<1>1. /\ n.ip = ip /\ n.inst_ptr = m.inst_ptr /\ n.instructions = m.instructions
      /\ n.max_stack_depth = m.max_stack_depth /\ n.sp = m.sp
      /\ n.inline_cache = m.inline_cache
  BY DEF Machine
<1> HIDE DEF n
<1>2. CASE Len(s) = 0
  BY <1>1, <1>2 DEF Good, Suits
<1>3. CASE Len(s) # 0
  <2> DEFINE a == s[Len(s)]
  <2>1. Belongs(m, a) /\ s # <<>>
    BY <1>3 DEF Good
  <2>2. a.kind \notin CodeKinds => n.ip = m.ip
    BY <1>1, <2>1
  <2>3. a.kind \in {"New"} \union HostKinds => a.kind \notin CodeKinds
    BY DEF CodeKinds, HostKinds
  <2> HIDE DEF a
  <2>4. Belongs(n, a)
    BY <1>1, <2>1, <2>2, <2>3 DEF Belongs, Suits, Leaves
  <2> QED BY <1>3, <2>4 DEF Good, a, n
<1> QED BY <1>2, <1>3 DEF n

-----------------------------------------------------------------------------
(* Each kind of step keeps the invariant *)

LEMMA PushKeeps ==
    ASSUME IInv, NEW a \in Activation, acts' = Append(Counted, a),
           NEW ip \in Positions, Runs \/ ip = vm.ip,
           a.saved = [vm EXCEPT !.ip = ip], a.reg_base = vm.sp, a.was_leaked = leaked,
           Placed(a, Len(acts) + 1), Covered(a), a.kind = "New" => a.window = 0,
           vm' \in Machine, Suits(vm', a.func), Leaves(a, vm'), vm'.sp = vm.sp + a.window,
           stack_len' = IF a.kind = "New" THEN stack_len ELSE Max2(stack_len, vm'.sp),
           a.kind \in CodeKinds => vm'.sp <= STACK_SIZE,
           raising' \in BOOLEAN, leaked' \in BOOLEAN,
           IF a.kind = "New" THEN vm'.new_target = a.callee
           ELSE vm'.new_target = vm.new_target /\ leaked' = leaked,
           cell' \in [Functions -> Seq(Entry)],
           Lent(cell, cell', a)
    PROVE  IInv'
<1>1. Holds(vm, stack_len, cell, acts, raising, leaked)
  BY IInvHolds
<1>2. /\ vm \in Machine /\ stack_len \in 0 .. MaxSp /\ acts \in Seq(Activation)
      /\ Linked(acts, vm) /\ Home(acts, cell)
      /\ Apart(acts, vm.sp, stack_len) /\ Targets(acts, vm.new_target, leaked)
  BY <1>1 DEF Holds, Types
<1>3. IsPush(acts', acts, a)
  BY <1>2, Pushed
<1>4. vm.sp \in Nat /\ vm'.sp \in 0 .. MaxSp /\ stack_len \in Nat /\ a.window \in Nat
  BY <1>2, SizeAssumption DEF Machine, Activation
<1>5. stack_len' \in 0 .. MaxSp /\ stack_len <= stack_len' /\ stack_len' \in Nat
  BY <1>2, <1>4, SizeAssumption DEF Max2
<1>6. Types(vm', stack_len', cell', acts', raising', leaked')
  BY <1>3, <1>5 DEF Types, IsPush
<1>7. Good(a.saved, acts, Len(acts))
  <2>1. Good(vm, acts, Len(acts))
    BY <1>2, LinkedTop
  <2>2. (acts # <<>> /\ acts[Len(acts)].kind \notin CodeKinds) => ip = vm.ip
    BY DEF Runs, Top
  <2> QED BY <1>2, <2>1, <2>2, JumpGood
<1>8. Belongs(vm', a)
  BY <1>2 DEF Belongs, Machine
<1>9. Linked(acts', vm')
  BY <1>2, <1>3, <1>7, <1>8, LinkedPushed
<1>10. Home(acts', cell')
  BY <1>2, <1>3, HomePushed
<1>11. a.kind \in CodeKinds => vm.sp + a.window <= Min2(stack_len', STACK_SIZE)
  <2>1. a.kind \in CodeKinds => a.kind # "New"
    BY DEF CodeKinds
  <2> QED BY <1>4, <2>1, SizeAssumption DEF Max2, Min2
<1>12. Apart(acts', vm'.sp, stack_len')
  BY <1>2, <1>3, <1>4, <1>5, <1>11, ApartPushed
<1>13. a.kind = "New" => a.saved.new_target = vm.new_target
  BY <1>2 DEF Machine
<1>14. Targets(acts', vm'.new_target, leaked')
  <2>1. CASE a.kind = "New"
    BY <1>2, <1>3, <1>13, <2>1, TargetsPushed
  <2>2. CASE a.kind # "New"
    BY <1>2, <1>3, <2>2, TargetsPushed
  <2> QED BY <2>1, <2>2
<1> QED BY <1>6, <1>9, <1>10, <1>12, <1>14, IInvHoldsNext DEF Holds

\* What the host puts on top
LEMMA HostPushKeeps ==
    ASSUME IInv, NEW a \in Activation, acts' = Append(Counted, a),
           vm.ip \in Positions,
           a.saved = [vm EXCEPT !.ip = vm.ip], a.reg_base = vm.sp, a.was_leaked = leaked,
           Placed(a, Len(acts) + 1), a.kind # "New", Covered(a),
           vm' \in Machine, Suits(vm', a.func), Leaves(a, vm'), vm'.sp = vm.sp + a.window,
           stack_len' = Max2(stack_len, vm'.sp),
           a.kind \in CodeKinds => vm'.sp <= STACK_SIZE,
           vm'.new_target = vm.new_target, UNCHANGED <<raising, leaked, cell>>
    PROVE  IInv'
<1> DEFINE ip == vm.ip
<1>1. ip \in Positions /\ ip = vm.ip /\ a.saved = [vm EXCEPT !.ip = ip]
  OBVIOUS
<1> HIDE DEF ip
<1>2. /\ raising' \in BOOLEAN /\ leaked' \in BOOLEAN
      /\ cell' \in [Functions -> Seq(Entry)] /\ Lent(cell, cell', a)
  BY DEF IInv, TypeOK, Lent
<1>3. IF a.kind = "New" THEN vm'.new_target = a.callee
      ELSE vm'.new_target = vm.new_target /\ leaked' = leaked
  OBVIOUS
<1>4. stack_len' = IF a.kind = "New" THEN stack_len ELSE Max2(stack_len, vm'.sp)
  OBVIOUS
<1> QED BY <1>1, <1>2, <1>3, <1>4, PushKeeps

LEMMA PopKeeps ==
    ASSUME IInv, ~Idle, acts' = SubSeq(acts, 1, Len(acts) - 1),
           vm' \in Machine, Good(vm', acts, Len(acts) - 1),
           stack_len' \in 0 .. MaxSp, Min2(stack_len, Top.saved.sp) <= stack_len',
           raising' \in BOOLEAN, leaked' \in BOOLEAN,
           Top.kind # "New" => vm'.new_target = vm.new_target /\ leaked' = leaked,
           Top.kind = "New" =>
               \/ leaked'
               \/ vm'.new_target = Top.saved.new_target /\ leaked' = Top.was_leaked,
           cell' \in [Functions -> Seq(Entry)],
           Returned(cell, cell', Top)
    PROVE  IInv'
<1>1. Holds(vm, stack_len, cell, acts, raising, leaked)
  BY IInvHolds
<1>2. /\ vm \in Machine /\ stack_len \in 0 .. MaxSp /\ acts \in Seq(Activation)
      /\ Linked(acts, vm) /\ Home(acts, cell)
      /\ Apart(acts, vm.sp, stack_len) /\ Targets(acts, vm.new_target, leaked)
  BY <1>1 DEF Holds, Types
<1>3. IsPop(acts', acts) /\ Top = acts[Len(acts)]
  BY <1>2, Popped
<1>4. Types(vm', stack_len', cell', acts', raising', leaked')
  BY <1>3 DEF Types, IsPop
<1>5. Linked(acts', vm')
  BY <1>2, <1>3, LinkedPopped
<1>6. Home(acts', cell')
  BY <1>2, <1>3, HomePopped
<1>7. Top.saved.sp = acts[Len(acts)].reg_base
  BY <1>2, <1>3, LinkedTop DEF Idle, Belongs
<1>8. acts' # <<>> => vm'.sp = acts'[Len(acts')].reg_base + acts'[Len(acts')].window
  <2> SUFFICES ASSUME acts' # <<>>
               PROVE  vm'.sp = acts'[Len(acts')].reg_base + acts'[Len(acts')].window
    OBVIOUS
  <2>1. acts' \in Seq(Activation)
    BY <1>3 DEF IsPop
  <2>2. Belongs(vm', acts'[Len(acts')])
    BY <1>5, <2>1, LinkedTop
  <2> QED BY <2>2 DEF Belongs
<1>9. Apart(acts', vm'.sp, stack_len')
  <2>1. vm.sp \in Nat /\ stack_len \in Nat /\ stack_len' \in Nat
    BY <1>2, SizeAssumption DEF Machine
  <2> QED BY <1>2, <1>3, <1>7, <1>8, <2>1, ApartPopped
<1>10. Targets(acts', vm'.new_target, leaked')
  BY <1>2, <1>3, TargetsPopped
<1> QED BY <1>4, <1>5, <1>6, <1>9, <1>10, IInvHoldsNext DEF Holds

LEMMA StayKeeps ==
    ASSUME IInv, acts' = acts,
           vm' \in Machine, Good(vm', acts, Len(acts)),
           vm'.sp = vm.sp, vm'.new_target = vm.new_target, leaked' = leaked,
           stack_len' \in 0 .. MaxSp, Min2(stack_len, vm.sp) <= stack_len',
           raising' \in BOOLEAN,
           cell' \in [Functions -> Seq(Entry)],
           \A f \in Functions : cell'[f] = cell[f] \/ IsCacheOf(cell'[f], f)
    PROVE  IInv'
<1>1. Holds(vm, stack_len, cell, acts, raising, leaked)
  BY IInvHolds
<1>2. /\ vm \in Machine /\ stack_len \in 0 .. MaxSp /\ acts \in Seq(Activation)
      /\ Linked(acts, vm) /\ Home(acts, cell) /\ leaked \in BOOLEAN
      /\ Apart(acts, vm.sp, stack_len) /\ Targets(acts, vm.new_target, leaked)
  BY <1>1 DEF Holds, Types
<1>3. Types(vm', stack_len', cell', acts', raising', leaked')
  BY <1>2 DEF Types
<1>4. Linked(acts', vm')
  BY <1>2, LinkedStay
<1>5. Home(acts', cell')
  BY <1>2 DEF Home
<1>6. Apart(acts', vm'.sp, stack_len')
  <2>1. vm.sp \in Nat /\ stack_len \in Nat /\ stack_len' \in Nat
    BY <1>2, SizeAssumption DEF Machine
  <2> QED BY <1>2, <2>1, ApartStay
<1>7. Targets(acts', vm'.new_target, leaked')
  BY <1>2
<1> QED BY <1>3, <1>4, <1>5, <1>6, <1>7, IInvHoldsNext DEF Holds

-----------------------------------------------------------------------------
(* Into a function *)

\* The native call that Begin puts on top
Begun(kind, func, callee, window, written, ip) ==
    [kind |-> kind, func |-> func, callee |-> callee, begun |-> 0,
     reg_base |-> vm.sp, window |-> window, written |-> written,
     saved |-> [vm EXCEPT !.ip = ip], was_leaked |-> leaked]

LEMMA BegunType ==
    ASSUME TypeOK, NEW kind \in CodeKinds \union HostKinds \union {"New"},
           NEW func \in Code, NEW callee \in Functions \union Target,
           NEW window \in Nat, NEW written \in Nat, NEW ip \in Positions,
           NEW a, a = Begun(kind, func, callee, window, written, ip)
    PROVE  /\ a \in Activation
           /\ a.kind = kind /\ a.func = func /\ a.callee = callee
           /\ a.window = window /\ a.written = written
           /\ a.reg_base = vm.sp /\ a.was_leaked = leaked
           /\ a.saved = [vm EXCEPT !.ip = ip]
           /\ a.saved.ip = ip /\ a.saved.inst_ptr = vm.inst_ptr
           /\ a.saved.instructions = vm.instructions
           /\ a.saved.max_stack_depth = vm.max_stack_depth
           /\ a.saved.inline_cache = vm.inline_cache
           /\ a.saved.sp = vm.sp /\ a.saved.new_target = vm.new_target
<1>1. vm \in Machine /\ leaked \in BOOLEAN
  BY DEF TypeOK
<1> DEFINE saved == [vm EXCEPT !.ip = ip]
<1>2. saved \in Machine /\ vm.sp \in 0 .. MaxSp
  BY <1>1 DEF Machine
<1>3. /\ saved.ip = ip /\ saved.inst_ptr = vm.inst_ptr
      /\ saved.instructions = vm.instructions
      /\ saved.max_stack_depth = vm.max_stack_depth
      /\ saved.inline_cache = vm.inline_cache
      /\ saved.sp = vm.sp /\ saved.new_target = vm.new_target
  BY <1>1 DEF Machine
<1>4. a = [kind |-> kind, func |-> func, callee |-> callee, begun |-> 0,
           reg_base |-> vm.sp, window |-> window, written |-> written,
           saved |-> saved, was_leaked |-> leaked]
  BY DEF Begun
<1>5. saved = [vm EXCEPT !.ip = ip]
  OBVIOUS
<1> HIDE DEF saved
<1>6. a \in Activation
  BY <1>1, <1>2, <1>4 DEF Activation
<1>7. /\ a.kind = kind /\ a.func = func /\ a.callee = callee
      /\ a.window = window /\ a.written = written
      /\ a.reg_base = vm.sp /\ a.was_leaked = leaked /\ a.saved = saved
  BY <1>4
<1> QED BY <1>3, <1>5, <1>6, <1>7

LEMMA SavedFields ==
    ASSUME NEW m \in Machine, NEW ip
    PROVE  LET n == [m EXCEPT !.ip = ip]
           IN  /\ n.ip = ip /\ n.inst_ptr = m.inst_ptr /\ n.instructions = m.instructions
               /\ n.max_stack_depth = m.max_stack_depth /\ n.sp = m.sp
               /\ n.inline_cache = m.inline_cache /\ n.new_target = m.new_target
BY DEF Machine

\* The kinds are not each other's.
LEMMA Kinds ==
    /\ {"Self", "Direct", "Slice", "Body", "Expression"} \subseteq CodeKinds \ {"New"}
    /\ "New" \notin HostKinds /\ CodeKinds \intersect HostKinds = {}
    /\ NoClass \in Target /\ Classes \subseteq Target
BY DEF CodeKinds, HostKinds, Target

\* The machine suits the code that it reads.
LEMMA OwnCode ==
    ASSUME IInv
    PROVE  /\ vm \in Machine /\ Suits(vm, vm.inst_ptr)
           /\ Idle => vm.inst_ptr = Script /\ vm.instructions = Script
<1>1. acts \in Seq(Activation) /\ vm \in Machine
  BY DEF IInv, TypeOK
<1>2. Good(vm, acts, Len(acts))
  BY <1>1, LinkedTop DEF IInv, ActsInv
<1>3. Suits(vm, vm.inst_ptr)
  BY <1>2 DEF Good, Belongs, Suits
<1>4. Idle => Len(acts) = 0
  BY DEF Idle
<1> QED BY <1>1, <1>2, <1>3, <1>4 DEF Good, Suits

LEMMA Sizes ==
    ASSUME NEW c \in Code
    PROVE  CacheSlots[c] \in Nat /\ RegisterCount[c] \in Nat \ {0}
BY CodeAssumption

LEMMA DuringType ==
    ASSUME IInv, NEW f \in Functions
    PROVE  /\ CacheDuring(f) \in Seq(Entry)
           /\ CacheSlots[f] > 0 => IsCacheOf(CacheDuring(f), f)
           /\ CacheSlots[f] = 0 => CacheDuring(f) = vm.inline_cache
<1>1. Taken(f) \in Seq(Entry) /\ IsCacheOf(Taken(f), f)
  BY TakenIsCache DEF IInv
<1>2. vm.inline_cache \in Seq(Entry)
  BY DEF IInv, TypeOK, Machine
<1>3. CacheSlots[f] \in Nat
  BY Sizes DEF Code
<1> QED BY <1>1, <1>2, <1>3 DEF CacheDuring

\* What is copied takes a number of places.
LEMMA WrittenType ==
    ASSUME NEW f \in Functions, NEW args \in Nat
    PROVE  Written(f, args) \in Nat
BY Sizes DEF Written, Max2, Code

LEMMA SelfKeeps ==
    ASSUME IInv, NEW f \in Functions, NEW args \in Nat, NEW ip \in Positions,
           Runs \/ ip = vm.ip, Fits(RegisterCount[f]), IsSelfCall(f), CallSelf(f, args, ip),
           GrowTo(vm.sp + RegisterCount[f]), UNCHANGED <<raising, leaked>>
    PROVE  IInv'
<1> DEFINE a == Begun("Self", f, NoClass, RegisterCount[f], Written(f, args), ip)
<1>1. /\ f \in Code /\ RegisterCount[f] \in Nat /\ Written(f, args) \in Nat
      /\ TypeOK /\ raising \in BOOLEAN /\ leaked \in BOOLEAN
      /\ cell \in [Functions -> Seq(Entry)]
  BY Sizes, WrittenType DEF Code, IInv, TypeOK
<1>a. a = Begun("Self", f, NoClass, RegisterCount[f], Written(f, args), ip)
  OBVIOUS
<1>3. acts' = Append(Counted, a)
  BY DEF CallSelf, Begin, Begun
<1> HIDE DEF a
<1>2. /\ a \in Activation
      /\ a.kind = "Self" /\ a.func = f /\ a.window = RegisterCount[f]
      /\ a.reg_base = vm.sp /\ a.was_leaked = leaked
      /\ a.saved = [vm EXCEPT !.ip = ip]
      /\ a.saved.inst_ptr = vm.inst_ptr /\ a.saved.instructions = vm.instructions
      /\ a.saved.inline_cache = vm.inline_cache
  BY <1>1, <1>a, Kinds, BegunType
<1>4. vm \in Machine /\ Suits(vm, f) /\ vm.inst_ptr = f
  BY OwnCode DEF IsSelfCall
<1>5. /\ vm' \in Machine /\ vm'.inst_ptr = vm.inst_ptr
      /\ vm'.instructions = vm.instructions /\ vm'.max_stack_depth = vm.max_stack_depth
      /\ vm'.inline_cache = vm.inline_cache /\ vm'.new_target = vm.new_target
      /\ vm'.sp = vm.sp + RegisterCount[f] /\ vm'.sp <= STACK_SIZE
  <2> DEFINE sp == vm.sp + RegisterCount[f]
  <2>1. sp \in 0 .. MaxSp /\ sp <= STACK_SIZE /\ 0 \in Positions
    BY <1>1, <1>4, SizeAssumption DEF Fits, Machine, Positions
  <2>2. vm' = [vm EXCEPT !.ip = 0, !.sp = sp]
    BY DEF CallSelf
  <2> HIDE DEF sp
  <2>3. /\ vm' \in Machine /\ vm'.inst_ptr = vm.inst_ptr
        /\ vm'.instructions = vm.instructions /\ vm'.max_stack_depth = vm.max_stack_depth
        /\ vm'.inline_cache = vm.inline_cache /\ vm'.new_target = vm.new_target
        /\ vm'.sp = sp
    BY <1>4, <2>1, <2>2 DEF Machine
  <2> QED BY <2>1, <2>3 DEF sp
<1>7. Lent(cell, cell', a) /\ cell' = cell
  BY DEF CallSelf, Lent
<1>8. stack_len' = Max2(stack_len, vm'.sp)
  BY <1>5 DEF GrowTo
<1>9. Suits(vm', a.func)
  BY <1>2, <1>4, <1>5 DEF Suits
<1>10. Leaves(a, vm')
  BY <1>2, <1>4, <1>5, KeepsItself DEF Leaves, HostKinds
<1>11. Placed(a, Len(acts) + 1)
  BY <1>2 DEF Placed, HostKinds
<1>12. Covered(a)
  BY <1>2 DEF Covered
<1> QED BY <1>1, <1>2, <1>3, <1>5, <1>7, <1>8, <1>9, <1>10, <1>11, <1>12, PushKeeps

LEMMA OtherKeeps ==
    ASSUME IInv, NEW f \in Functions, NEW args \in Nat, NEW ip \in Positions,
           Runs \/ ip = vm.ip, Fits(RegisterCount[f]), CallOther(f, args, ip),
           GrowTo(vm.sp + RegisterCount[f]), UNCHANGED <<raising, leaked>>
    PROVE  IInv'
<1> DEFINE a == Begun("Direct", f, NoClass, RegisterCount[f], Written(f, args), ip)
<1>1. /\ f \in Code /\ RegisterCount[f] \in Nat /\ Written(f, args) \in Nat
      /\ TypeOK /\ raising \in BOOLEAN /\ leaked \in BOOLEAN
      /\ cell \in [Functions -> Seq(Entry)]
  BY Sizes, WrittenType DEF Code, IInv, TypeOK
<1>a. a = Begun("Direct", f, NoClass, RegisterCount[f], Written(f, args), ip)
  OBVIOUS
<1>3. acts' = Append(Counted, a)
  BY DEF CallOther, Begin, Begun
<1> HIDE DEF a
<1>2. /\ a \in Activation
      /\ a.kind = "Direct" /\ a.func = f /\ a.window = RegisterCount[f]
      /\ a.reg_base = vm.sp /\ a.was_leaked = leaked
      /\ a.saved = [vm EXCEPT !.ip = ip]
      /\ a.saved.instructions = vm.instructions /\ a.saved.inline_cache = vm.inline_cache
  BY <1>1, <1>a, Kinds, BegunType
<1>4. vm \in Machine
  BY OwnCode
<1>5. /\ CacheDuring(f) \in Seq(Entry)
      /\ CacheSlots[f] > 0 => IsCacheOf(CacheDuring(f), f)
      /\ CacheSlots[f] = 0 => CacheDuring(f) = vm.inline_cache
  BY DuringType
<1>6. /\ vm' \in Machine /\ vm'.inst_ptr = f
      /\ vm'.instructions = vm.instructions /\ vm'.max_stack_depth = f
      /\ vm'.inline_cache = CacheDuring(f) /\ vm'.new_target = vm.new_target
      /\ vm'.sp = vm.sp + RegisterCount[f] /\ vm'.sp <= STACK_SIZE
  <2> DEFINE sp == vm.sp + RegisterCount[f]
  <2>1. sp \in 0 .. MaxSp /\ sp <= STACK_SIZE /\ 0 \in Positions
    BY <1>1, <1>4, SizeAssumption DEF Fits, Machine, Positions
  <2>2. vm' = [vm EXCEPT !.ip = 0, !.inst_ptr = f, !.max_stack_depth = f,
                         !.inline_cache = CacheDuring(f), !.sp = sp]
    BY DEF CallOther
  <2> HIDE DEF sp
  <2>3. /\ vm' \in Machine /\ vm'.inst_ptr = f
        /\ vm'.instructions = vm.instructions /\ vm'.max_stack_depth = f
        /\ vm'.inline_cache = CacheDuring(f) /\ vm'.new_target = vm.new_target
        /\ vm'.sp = sp
    BY <1>1, <1>4, <1>5, <2>1, <2>2 DEF Machine
  <2> QED BY <2>1, <2>3 DEF sp
<1>8. Lent(cell, cell', a) /\ cell' \in [Functions -> Seq(Entry)]
  BY <1>1, <1>2 DEF CallOther, Lent, Swapping
<1>9. stack_len' = Max2(stack_len, vm'.sp)
  BY <1>6 DEF GrowTo
<1>10. Suits(vm', a.func)
  BY <1>2, <1>5, <1>6 DEF Suits
<1>11. Leaves(a, vm')
  BY <1>2, <1>5, <1>6 DEF Leaves, HostKinds
<1>12. Placed(a, Len(acts) + 1)
  BY <1>2 DEF Placed, HostKinds
<1>13. Covered(a)
  BY <1>2 DEF Covered
<1> QED BY <1>1, <1>2, <1>3, <1>6, <1>8, <1>9, <1>10, <1>11, <1>12, <1>13, PushKeeps

LEMMA JumpedType ==
    ASSUME IInv, NEW ip \in Positions, Runs \/ ip = vm.ip
    PROVE  /\ [vm EXCEPT !.ip = ip] \in Machine
           /\ Good([vm EXCEPT !.ip = ip], acts, Len(acts))
<1>1. vm \in Machine /\ acts \in Seq(Activation) /\ Linked(acts, vm)
  BY DEF IInv, TypeOK, ActsInv
<1>2. Good(vm, acts, Len(acts))
  BY <1>1, LinkedTop
<1>3. (acts # <<>> /\ acts[Len(acts)].kind \notin CodeKinds) => ip = vm.ip
  BY DEF Runs, Top
<1>4. [vm EXCEPT !.ip = ip] \in Machine
  BY <1>1 DEF Machine
<1> QED BY <1>1, <1>2, <1>3, <1>4, JumpGood

LEMMA OverflowKeeps ==
    ASSUME IInv, NEW ip \in Positions, Runs \/ ip = vm.ip, Overflow(ip),
           cell' \in [Functions -> Seq(Entry)],
           \A f \in Functions : cell'[f] = cell[f] \/ IsCacheOf(cell'[f], f)
    PROVE  IInv'
<1>1. vm \in Machine /\ stack_len \in 0 .. MaxSp /\ vm.sp \in Nat
  BY SizeAssumption DEF IInv, TypeOK, Machine
<1>2. /\ vm' = [vm EXCEPT !.ip = ip] /\ raising' \in BOOLEAN
      /\ UNCHANGED <<stack_len, acts, leaked>>
  BY DEF Overflow
<1>3. vm' \in Machine /\ Good(vm', acts, Len(acts))
  BY <1>2, JumpedType
<1>4. vm'.sp = vm.sp /\ vm'.new_target = vm.new_target
  BY <1>1, <1>2, SavedFields
<1>5. Min2(stack_len, vm.sp) <= stack_len'
  BY <1>1, <1>2, SizeAssumption DEF Min2
<1> QED BY <1>1, <1>2, <1>3, <1>4, <1>5, StayKeeps

LEMMA DirectKeeps ==
    ASSUME IInv, NEW f \in Functions, NEW ip \in Positions, Runs \/ ip = vm.ip,
           NEW args \in Nat, CallRegisterDirect(f, args, ip)
    PROVE  IInv'
<1>1. CASE Overflow(ip) /\ UNCHANGED cell
  <2>1. cell' \in [Functions -> Seq(Entry)] /\ cell' = cell
    BY <1>1 DEF IInv, TypeOK
  <2> QED BY <1>1, <2>1, OverflowKeeps
<1>2. CASE /\ Fits(RegisterCount[f])
           /\ IF IsSelfCall(f) THEN CallSelf(f, args, ip) ELSE CallOther(f, args, ip)
           /\ GrowTo(vm.sp + RegisterCount[f])
           /\ UNCHANGED <<raising, leaked>>
  BY <1>2, SelfKeeps, OtherKeeps
<1> QED BY <1>1, <1>2 DEF CallRegisterDirect

LEMMA SwappedKeeps ==
    ASSUME IInv, NEW kind \in {"Slice", "Body"}, NEW f \in Functions, NEW window \in Nat,
           NEW start \in Positions, NEW ip \in Positions, Runs \/ ip = vm.ip,
           CallSwapped(kind, f, window, start, ip)
    PROVE  IInv'
<1> DEFINE a == Begun(kind, f, NoClass, window, window, ip)
<1>1. /\ f \in Code
      /\ TypeOK /\ raising \in BOOLEAN /\ leaked \in BOOLEAN
      /\ cell \in [Functions -> Seq(Entry)]
  BY DEF Code, IInv, TypeOK
<1>2. CASE Overflow(ip) /\ cell' = [cell EXCEPT ![f] = Taken(f)]
  <2>1. Taken(f) \in Seq(Entry) /\ IsCacheOf(Taken(f), f)
    BY TakenIsCache DEF IInv
  <2>2. cell' \in [Functions -> Seq(Entry)]
    BY <1>1, <1>2, <2>1
  <2>3. \A g \in Functions : cell'[g] = cell[g] \/ IsCacheOf(cell'[g], g)
    BY <1>1, <1>2, <2>1
  <2> QED BY <1>2, <2>2, <2>3, OverflowKeeps
<1>3. CASE /\ Fits(window)
           /\ Begin(kind, f, NoClass, window, window, ip)
           /\ vm' = [vm EXCEPT !.ip = start, !.inst_ptr = f, !.instructions = f,
                               !.max_stack_depth = f, !.inline_cache = CacheDuring(f),
                               !.sp = @ + window]
           /\ cell' = [cell EXCEPT ![f] = <<>>]
           /\ GrowTo(vm.sp + window)
           /\ UNCHANGED <<raising, leaked>>
  <2>a. a = Begun(kind, f, NoClass, window, window, ip)
    OBVIOUS
  <2>2. acts' = Append(Counted, a)
    BY <1>3 DEF Begin, Begun
  <2> HIDE DEF a
  <2>b. kind \in CodeKinds \union HostKinds \union {"New"} /\ NoClass \in Functions \union Target
    BY Kinds
  <2>1. /\ a \in Activation
        /\ a.kind = kind /\ a.func = f /\ a.window = window /\ a.written = window
        /\ a.reg_base = vm.sp /\ a.was_leaked = leaked
        /\ a.saved = [vm EXCEPT !.ip = ip] /\ a.saved.inline_cache = vm.inline_cache
    BY <1>1, <2>a, <2>b, BegunType
  <2>3. vm \in Machine
    BY OwnCode
  <2>4. /\ CacheDuring(f) \in Seq(Entry)
        /\ CacheSlots[f] > 0 => IsCacheOf(CacheDuring(f), f)
        /\ CacheSlots[f] = 0 => CacheDuring(f) = vm.inline_cache
    BY DuringType
  <2>5. /\ vm' \in Machine /\ vm'.inst_ptr = f /\ vm'.max_stack_depth = f
        /\ vm'.inline_cache = CacheDuring(f) /\ vm'.new_target = vm.new_target
        /\ vm'.sp = vm.sp + window /\ vm'.sp <= STACK_SIZE
    <3> DEFINE sp == vm.sp + window
    <3>1. sp \in 0 .. MaxSp /\ sp <= STACK_SIZE
      BY <1>3, <2>3, SizeAssumption DEF Fits, Machine
    <3>2. vm' = [vm EXCEPT !.ip = start, !.inst_ptr = f, !.instructions = f,
                           !.max_stack_depth = f, !.inline_cache = CacheDuring(f), !.sp = sp]
      BY <1>3
    <3> HIDE DEF sp
    <3>3. /\ vm' \in Machine /\ vm'.inst_ptr = f /\ vm'.max_stack_depth = f
          /\ vm'.inline_cache = CacheDuring(f) /\ vm'.new_target = vm.new_target
          /\ vm'.sp = sp
      BY <1>1, <2>3, <2>4, <3>1, <3>2 DEF Machine
    <3> QED BY <3>1, <3>3 DEF sp
  <2>7. Lent(cell, cell', a) /\ cell' \in [Functions -> Seq(Entry)]
    BY <1>1, <1>3, <2>1 DEF Lent, Swapping
  <2>8. stack_len' = Max2(stack_len, vm'.sp)
    BY <1>3, <2>5 DEF GrowTo
  <2>9. Suits(vm', a.func)
    BY <2>1, <2>4, <2>5 DEF Suits
  <2>10. Leaves(a, vm')
    BY <2>1, <2>4, <2>5 DEF Leaves, HostKinds
  <2>11. Placed(a, Len(acts) + 1)
    BY <2>1 DEF Placed, HostKinds
  <2>12. a.kind # "New" /\ leaked' = leaked /\ raising' = raising
    BY <1>3, <2>1
  <2>13. Covered(a)
    BY <2>1 DEF Covered
  <2> QED BY <1>1, <2>1, <2>2, <2>5, <2>7, <2>8, <2>9, <2>10, <2>11, <2>12, <2>13, PushKeeps
<1> QED BY <1>2, <1>3 DEF CallSwapped

LEMMA SliceKeeps ==
    ASSUME IInv, NEW f \in Functions, NEW args \in Nat, NEW ip \in Positions,
           Runs \/ ip = vm.ip, ExecuteCompiledFunctionSlice(f, args, ip)
    PROVE  IInv'
<1>1. Written(f, args) \in Nat /\ 0 \in Positions
  BY WrittenType, SizeAssumption DEF Positions
<1> QED BY <1>1, SwappedKeeps DEF ExecuteCompiledFunctionSlice

-----------------------------------------------------------------------------
(* Out of a function *)

\* What the invariant says of the innermost call
LEMMA TopFacts ==
    ASSUME IInv, ~Idle
    PROVE  /\ Len(acts) \in Nat \ {0} /\ Top = acts[Len(acts)]
           /\ Top \in Activation /\ vm \in Machine
           /\ Belongs(vm, Top) /\ Placed(Top, Len(acts))
           /\ Good(Top.saved, acts, Len(acts) - 1)
           /\ Suits(Top.saved, Top.saved.inst_ptr)
<1>1. acts \in Seq(Activation) /\ vm \in Machine /\ Linked(acts, vm) /\ acts # <<>>
  BY DEF IInv, TypeOK, ActsInv, Idle
<1>2. Len(acts) \in Nat \ {0} /\ Top = acts[Len(acts)] /\ Top \in Activation
  BY <1>1 DEF Top
<1>3. /\ Belongs(vm, Top) /\ Placed(Top, Len(acts))
      /\ Good(Top.saved, acts, Len(acts) - 1)
  BY <1>1, <1>2, LinkedTop
<1>4. Suits(Top.saved, Top.saved.inst_ptr)
  BY <1>3 DEF Good, Belongs, Suits
<1> QED BY <1>1, <1>2, <1>3, <1>4

\* Code that ends gives back all that its caller needs.
LEMMA RestoredResumes ==
    ASSUME vm \in Machine, NEW a \in Activation, a.kind \in CodeKinds \ {"Run"},
           Belongs(vm, a), Suits(a.saved, a.saved.inst_ptr)
    PROVE  /\ Restored(a) \in Machine /\ Restored(a).new_target = vm.new_target
           /\ Resumed(Restored(a), a.saved)
<1> DEFINE s == a.saved
<1>1. s \in Machine /\ a.func \in Code
  BY DEF Activation
<1>2. /\ Suits(vm, a.func) /\ Leaves(a, vm) /\ Suits(s, s.inst_ptr)
  BY DEF Belongs
<1>3. CacheSlots[a.func] \in Nat
  BY <1>1, Sizes
<1>4. CASE a.kind = "Self"
  <2>1. Restored(a) = [vm EXCEPT !.ip = s.ip, !.sp = s.sp]
    BY <1>4 DEF Restored
  <2> HIDE DEF s
  <2> DEFINE m == [vm EXCEPT !.ip = s.ip, !.sp = s.sp]
  <2>2. /\ m \in Machine /\ m.new_target = vm.new_target
        /\ m.ip = s.ip /\ m.sp = s.sp /\ m.inst_ptr = vm.inst_ptr
        /\ m.instructions = vm.instructions /\ m.max_stack_depth = vm.max_stack_depth
        /\ m.inline_cache = vm.inline_cache
    BY <1>1 DEF Machine
  <2> HIDE DEF m
  <2>3. /\ a.func = s.inst_ptr /\ vm.instructions = s.instructions
        /\ Keeps(vm.inline_cache, s.inline_cache)
        /\ CacheSlots[a.func] = 0 => vm.inline_cache = s.inline_cache
    BY <1>2, <1>4 DEF Leaves, s
  <2>4. Resumed(m, s)
    BY <1>2, <1>3, <2>2, <2>3 DEF Resumed, Suits
  <2> QED BY <2>1, <2>2, <2>4 DEF m, s
<1>5. CASE a.kind = "Direct"
  <2> DEFINE c == IF CacheSlots[a.func] > 0 THEN s.inline_cache ELSE vm.inline_cache
             m == [vm EXCEPT !.ip = s.ip, !.inst_ptr = s.inst_ptr,
                             !.max_stack_depth = s.max_stack_depth,
                             !.inline_cache = c, !.sp = s.sp]
  <2>1. Restored(a) = m
    BY <1>5 DEF Restored
  <2>2. c = s.inline_cache /\ vm.instructions = s.instructions
    BY <1>2, <1>3, <1>5 DEF Leaves, HostKinds
  <2> HIDE DEF s, c
  <2>3. /\ m \in Machine /\ m.new_target = vm.new_target
        /\ m.ip = s.ip /\ m.sp = s.sp /\ m.inst_ptr = s.inst_ptr
        /\ m.instructions = vm.instructions /\ m.max_stack_depth = s.max_stack_depth
        /\ m.inline_cache = s.inline_cache
    BY <1>1, <2>2 DEF Machine
  <2> HIDE DEF m
  <2>4. Resumed(m, s)
    BY <2>2, <2>3 DEF Resumed
  <2> QED BY <2>1, <2>3, <2>4 DEF s
<1>6. CASE a.kind \in {"Slice", "Body"}
  <2> DEFINE c == IF CacheSlots[a.func] > 0 THEN s.inline_cache ELSE vm.inline_cache
             m == [vm EXCEPT !.ip = s.ip, !.instructions = s.instructions,
                             !.inst_ptr = s.inst_ptr, !.max_stack_depth = s.max_stack_depth,
                             !.inline_cache = c, !.sp = s.sp]
  <2>1. Restored(a) = m
    BY <1>6 DEF Restored, SwappedBack
  <2>2. c = s.inline_cache
    BY <1>2, <1>3, <1>6 DEF Leaves
  <2> HIDE DEF s, c
  <2>3. /\ m \in Machine /\ m.new_target = vm.new_target
        /\ m.ip = s.ip /\ m.sp = s.sp /\ m.inst_ptr = s.inst_ptr
        /\ m.instructions = s.instructions /\ m.max_stack_depth = s.max_stack_depth
        /\ m.inline_cache = s.inline_cache
    BY <1>1, <2>2 DEF Machine
  <2> HIDE DEF m
  <2>4. Resumed(m, s)
    BY <2>3 DEF Resumed
  <2> QED BY <2>1, <2>3, <2>4 DEF s
<1>7. CASE a.kind = "Expression"
  <2> DEFINE m == [vm EXCEPT !.ip = s.ip, !.instructions = s.instructions,
                             !.inst_ptr = s.instructions, !.max_stack_depth = s.max_stack_depth,
                             !.inline_cache = s.inline_cache, !.sp = s.sp]
  <2>1. Restored(a) = m
    BY <1>7 DEF Restored
  <2>2. s.instructions = s.inst_ptr
    BY <1>2, <1>7 DEF Leaves
  <2> HIDE DEF s
  <2>3. /\ m \in Machine /\ m.new_target = vm.new_target
        /\ m.ip = s.ip /\ m.sp = s.sp /\ m.inst_ptr = s.inst_ptr
        /\ m.instructions = s.instructions /\ m.max_stack_depth = s.max_stack_depth
        /\ m.inline_cache = s.inline_cache
    BY <1>1, <2>2 DEF Machine
  <2> HIDE DEF m
  <2>4. Resumed(m, s)
    BY <2>3 DEF Resumed
  <2> QED BY <2>1, <2>3, <2>4 DEF s
<1> QED BY <1>4, <1>5, <1>6, <1>7 DEF CodeKinds

\* A constructor that ends leaves the machine to its caller as it found it.
LEMMA NewResumes ==
    ASSUME vm \in Machine, NEW a \in Activation, a.kind = "New",
           Belongs(vm, a), Suits(a.saved, a.saved.inst_ptr), NEW t \in Target
    PROVE  /\ Resumed(vm, a.saved)
           /\ [vm EXCEPT !.new_target = t] \in Machine
           /\ [vm EXCEPT !.new_target = t].new_target = t
           /\ Resumed([vm EXCEPT !.new_target = t], a.saved)
<1> DEFINE s == a.saved
           m == [vm EXCEPT !.new_target = t]
<1>1. /\ a.func = s.inst_ptr /\ vm.instructions = s.instructions /\ vm.ip = s.ip
      /\ Keeps(vm.inline_cache, s.inline_cache)
      /\ CacheSlots[a.func] = 0 => vm.inline_cache = s.inline_cache
  BY DEF Belongs, Leaves
<1>2. Suits(vm, a.func) /\ Suits(s, s.inst_ptr)
  BY DEF Belongs
<1>3. s \in Machine /\ a.func \in Code
  BY DEF Activation
<1>4. vm.sp = s.sp
  BY <1>3 DEF Belongs, Machine
<1>5. CacheSlots[a.func] \in Nat
  BY <1>3, Sizes
<1>6. /\ m \in Machine /\ m.new_target = t
      /\ m.ip = vm.ip /\ m.sp = vm.sp /\ m.inst_ptr = vm.inst_ptr
      /\ m.instructions = vm.instructions /\ m.max_stack_depth = vm.max_stack_depth
      /\ m.inline_cache = vm.inline_cache
  BY DEF Machine
<1> HIDE DEF m, s
<1>7. Resumed(vm, s)
  BY <1>1, <1>2, <1>4, <1>5 DEF Resumed, Suits
<1>8. Resumed(m, s)
  BY <1>6, <1>7 DEF Resumed
<1> QED BY <1>6, <1>7, <1>8 DEF m, s

LEMMA GivenBackReturns ==
    ASSUME IInv, ~Idle
    PROVE  /\ GivenBack(Top) \in [Functions -> Seq(Entry)]
           /\ Returned(cell, GivenBack(Top), Top)
<1> DEFINE f == Top.func
<1>1. cell \in [Functions -> Seq(Entry)] /\ vm.inline_cache \in Seq(Entry)
  BY DEF IInv, TypeOK, Machine
<1>2. CASE Top.kind \notin Swapping
  BY <1>1, <1>2 DEF GivenBack, Returned, Swapping
<1>3. CASE Top.kind \in Swapping
  <2>1. f \in Functions
    BY <1>3, TopFacts DEF Placed, Swapping
  <2>2. CacheSlots[f] \in Nat
    BY <2>1, Sizes DEF Code
  <2>3. CacheSlots[f] > 0 => IsCacheOf(vm.inline_cache, f)
    BY TopFacts DEF Belongs, Suits
  <2>4. IsCacheOf(cell[f], f) \/ cell[f] = <<>>
    BY <2>1 DEF IInv, CachesComeHome
  <2>5. CacheSlots[f] = 0 => IsCacheOf(<<>>, f)
    BY DEF IsCacheOf
  <2>6. CASE CacheSlots[f] = 0 \/ (Top.kind = "Direct" /\ cell[f] # <<>>)
    <3>1. GivenBack(Top) = cell
      BY <2>6 DEF GivenBack
    <3>2. IsCacheOf(cell[f], f)
      BY <2>4, <2>5, <2>6
    <3> QED BY <1>1, <3>1, <3>2 DEF Returned
  <2>7. CASE ~(CacheSlots[f] = 0 \/ (Top.kind = "Direct" /\ cell[f] # <<>>))
    <3>1. GivenBack(Top) = [cell EXCEPT ![f] = vm.inline_cache]
      BY <1>3, <2>7 DEF GivenBack, Swapping
    <3>2. IsCacheOf(vm.inline_cache, f)
      BY <2>2, <2>3, <2>7
    <3> HIDE DEF f
    <3>3. \A g \in Functions : GivenBack(Top)[g] = IF g = f THEN vm.inline_cache ELSE cell[g]
      BY <1>1, <2>1, <3>1
    <3>4. GivenBack(Top) \in [Functions -> Seq(Entry)]
      BY <1>1, <2>1, <3>1
    <3> QED BY <3>2, <3>3, <3>4 DEF Returned, f
  <2> QED BY <2>6, <2>7
<1> QED BY <1>2, <1>3

LEMMA LeaveKeeps ==
    ASSUME IInv, Leave
    PROVE  IInv'
<1>1. /\ ~Idle /\ Top.kind \in CodeKinds
      /\ acts' = SubSeq(acts, 1, Len(acts) - 1)
      /\ vm' = Restored(Top) /\ cell' = GivenBack(Top) /\ leaked' = leaked
      /\ stack_len' = IF Top.kind \in {"Slice", "Body"} THEN Min2(stack_len, Top.saved.sp)
                      ELSE stack_len
  BY DEF Leave
<1>2. raising' \in BOOLEAN
  BY DEF Leave, IInv, TypeOK
<1>3. /\ Len(acts) \in Nat \ {0} /\ Top = acts[Len(acts)]
      /\ Top \in Activation /\ vm \in Machine
      /\ Belongs(vm, Top) /\ Placed(Top, Len(acts))
      /\ Good(Top.saved, acts, Len(acts) - 1)
      /\ Suits(Top.saved, Top.saved.inst_ptr)
  BY <1>1, TopFacts
<1>4. Top.saved.sp \in Nat /\ stack_len \in 0 .. MaxSp /\ acts \in Seq(Activation)
  BY <1>3, SizeAssumption DEF Activation, Machine, IInv, TypeOK
<1>5. stack_len' \in 0 .. MaxSp /\ Min2(stack_len, Top.saved.sp) <= stack_len'
  BY <1>1, <1>4, SizeAssumption DEF Min2
<1>6. cell' \in [Functions -> Seq(Entry)] /\ Returned(cell, cell', Top)
  BY <1>1, GivenBackReturns
<1>7. Top.kind # "New"
  BY <1>1, Kinds DEF CodeKinds
<1>8. /\ vm' \in Machine /\ vm'.new_target = vm.new_target
      /\ Good(vm', acts, Len(acts) - 1)
  <2>1. CASE Top.kind = "Run"
    <3>1. Len(acts) = 1
      BY <1>3, <2>1 DEF Placed
    <3>2. vm' = vm
      BY <1>1, <2>1 DEF Restored
    <3>3. Top.saved.inst_ptr = Script /\ Top.saved.instructions = Script
      BY <1>3, <3>1 DEF Good, Suits
    <3>4. Suits(vm, Script) /\ vm.instructions = Script
      BY <1>3, <2>1, <3>3 DEF Belongs, Leaves
    <3> QED BY <1>3, <3>1, <3>2, <3>4 DEF Good
  <2>2. CASE Top.kind # "Run"
    <3>1. /\ vm' \in Machine /\ vm'.new_target = vm.new_target
          /\ Resumed(vm', Top.saved)
      BY <1>1, <1>3, <2>2, RestoredResumes
    <3>2. Len(acts) - 1 \in 0 .. Len(acts)
      BY <1>3
    <3> QED BY <1>3, <1>4, <3>1, <3>2, ResumedGood
  <2> QED BY <2>1, <2>2
<1>9. leaked' \in BOOLEAN
  BY <1>1 DEF IInv, TypeOK
<1> QED BY <1>1, <1>2, <1>5, <1>6, <1>7, <1>8, <1>9, PopKeeps

LEMMA SameCells ==
    ASSUME IInv, UNCHANGED cell
    PROVE  /\ cell' \in [Functions -> Seq(Entry)]
           /\ \A f \in Functions : cell'[f] = cell[f] \/ IsCacheOf(cell'[f], f)
           /\ Lent(cell, cell', Top)
           /\ Top.kind \notin Swapping => Returned(cell, cell', Top)
BY DEF IInv, TypeOK, Lent, Returned

LEMMA EndNewKeeps ==
    ASSUME IInv, EndNew
    PROVE  IInv'
<1>1. /\ ~Idle /\ Top.kind = "New" /\ acts' = SubSeq(acts, 1, Len(acts) - 1)
      /\ UNCHANGED cell
  BY DEF EndNew, Constructing
<1>2. /\ Len(acts) \in Nat \ {0} /\ Top = acts[Len(acts)]
      /\ Top \in Activation /\ vm \in Machine
      /\ Belongs(vm, Top) /\ Placed(Top, Len(acts))
      /\ Good(Top.saved, acts, Len(acts) - 1)
      /\ Suits(Top.saved, Top.saved.inst_ptr)
  BY <1>1, TopFacts
<1>a. Top.saved \in Machine /\ Top.was_leaked \in BOOLEAN
  BY <1>2 DEF Activation
<1>b. Top.saved.sp \in Nat /\ Top.saved.new_target \in Target /\ vm.sp \in 0 .. MaxSp
  BY <1>2, <1>a, SizeAssumption DEF Machine
<1>3. /\ Top.saved.sp \in Nat /\ Top.saved.new_target \in Target /\ Top.was_leaked \in BOOLEAN
      /\ stack_len \in 0 .. MaxSp /\ acts \in Seq(Activation) /\ raising \in BOOLEAN
      /\ vm.sp \in 0 .. MaxSp
  BY <1>a, <1>b DEF IInv, TypeOK
<1>4. Top.saved.sp = vm.sp
  BY <1>1, <1>2, <1>3 DEF Belongs
<1>5. /\ cell' \in [Functions -> Seq(Entry)] /\ Returned(cell, cell', Top)
      /\ Top.kind \notin Swapping
  BY <1>1, SameCells DEF Swapping
<1>6. Len(acts) - 1 \in 0 .. Len(acts)
  BY <1>2
<1>7. CASE FailNew
  <2>1. vm' = vm /\ raising' = TRUE /\ leaked' = TRUE /\ stack_len' = stack_len
    BY <1>7 DEF FailNew
  <2>2. Resumed(vm', Top.saved)
    BY <1>1, <1>2, <1>3, <2>1, NewResumes
  <2>3. Good(vm', acts, Len(acts) - 1)
    BY <1>2, <1>3, <1>6, <2>2, ResumedGood
  <2>4. Min2(stack_len, Top.saved.sp) <= stack_len'
    BY <1>3, <2>1, SizeAssumption DEF Min2
  <2> QED BY <1>1, <1>2, <1>3, <1>5, <2>1, <2>3, <2>4, PopKeeps
<1>8. CASE /\ vm' = [vm EXCEPT !.new_target = Top.saved.new_target]
           /\ stack_len' = vm.sp
           /\ leaked' = Top.was_leaked
           /\ UNCHANGED raising
  <2>1. /\ vm' \in Machine /\ vm'.new_target = Top.saved.new_target
        /\ Resumed(vm', Top.saved)
    BY <1>1, <1>2, <1>3, <1>8, NewResumes
  <2>2. Good(vm', acts, Len(acts) - 1)
    BY <1>2, <1>3, <1>6, <2>1, ResumedGood
  <2>3. Min2(stack_len, Top.saved.sp) <= stack_len'
    BY <1>3, <1>4, <1>8, SizeAssumption DEF Min2
  <2> QED BY <1>1, <1>2, <1>3, <1>5, <1>8, <2>1, <2>2, <2>3, PopKeeps
<1> QED BY <1>7, <1>8 DEF EndNew

LEMMA HostCallEndsKeeps ==
    ASSUME IInv, HostCallEnds
    PROVE  IInv'
<1>1. /\ ~Idle /\ Top.kind \in HostKinds /\ acts' = SubSeq(acts, 1, Len(acts) - 1)
      /\ raising' = FALSE /\ UNCHANGED <<stack_len, cell, leaked>>
      /\ vm' = vm \/ vm' = [vm EXCEPT !.sp = Top.saved.sp]
  BY DEF HostCallEnds
<1>2. /\ Len(acts) \in Nat \ {0} /\ Top = acts[Len(acts)]
      /\ Top \in Activation /\ vm \in Machine
      /\ Belongs(vm, Top) /\ Placed(Top, Len(acts))
      /\ Good(Top.saved, acts, Len(acts) - 1)
  BY <1>1, TopFacts
<1>3. /\ Top.saved.sp \in 0 .. MaxSp /\ stack_len \in 0 .. MaxSp /\ leaked \in BOOLEAN
  BY <1>2 DEF Activation, Machine, IInv, TypeOK
<1>4. Len(acts) = 1
  BY <1>1, <1>2 DEF Placed
<1>5. Suits(vm, Script) /\ vm.instructions = Script
  <2>1. Top.saved.inst_ptr = Script /\ Top.saved.instructions = Script
    BY <1>2, <1>4 DEF Good, Suits
  <2> QED BY <1>1, <1>2, <2>1 DEF Belongs, Leaves
<1>6. /\ vm' \in Machine /\ vm'.new_target = vm.new_target
      /\ vm'.inst_ptr = vm.inst_ptr /\ vm'.instructions = vm.instructions
      /\ vm'.max_stack_depth = vm.max_stack_depth /\ vm'.inline_cache = vm.inline_cache
  <2> DEFINE sp == Top.saved.sp
  <2>1. sp \in 0 .. MaxSp /\ (vm' = vm \/ vm' = [vm EXCEPT !.sp = sp])
    BY <1>1, <1>3
  <2> HIDE DEF sp
  <2> QED BY <1>2, <2>1 DEF Machine
<1>7. Good(vm', acts, Len(acts) - 1)
  BY <1>4, <1>5, <1>6 DEF Good, Suits
<1>8. Min2(stack_len, Top.saved.sp) <= stack_len'
  BY <1>1, <1>3, SizeAssumption DEF Min2
<1>9. Top.kind # "New" /\ Top.kind \notin Swapping
  BY <1>1, Kinds DEF HostKinds, Swapping
<1>10. cell' \in [Functions -> Seq(Entry)] /\ Returned(cell, cell', Top)
  BY <1>1, <1>9, SameCells
<1> QED BY <1>1, <1>3, <1>6, <1>7, <1>8, <1>9, <1>10, PopKeeps

-----------------------------------------------------------------------------
(* What running code does *)

LEMMA RememberKeeps ==
    ASSUME IInv, NEW k \in 1 .. CacheSlots[vm.inst_ptr], Remember(k)
    PROVE  IInv'
<1> DEFINE c == vm.inline_cache
           f == vm.inst_ptr
           d == [c EXCEPT ![k] = f]
<1>1. /\ ~Idle /\ Top.kind \in CodeKinds
      /\ vm' = [vm EXCEPT !.inline_cache[k] = vm.inst_ptr]
      /\ UNCHANGED <<stack_len, cell, acts, raising, leaked>>
  BY DEF Remember, Runs
<1>2. /\ Len(acts) \in Nat \ {0} /\ Top = acts[Len(acts)]
      /\ Top \in Activation /\ vm \in Machine
      /\ Belongs(vm, Top)
  BY <1>1, TopFacts
<1>3. /\ c \in Seq(Entry) /\ f \in Code /\ Top.func = f
      /\ stack_len \in 0 .. MaxSp /\ vm.sp \in Nat
      /\ raising \in BOOLEAN
  BY <1>2, SizeAssumption DEF Machine, Belongs, Suits, IInv, TypeOK
<1>4. CacheSlots[f] \in Nat /\ k \in 1 .. CacheSlots[f]
  BY <1>3, Sizes
<1>5. IsCacheOf(c, f)
  BY <1>2, <1>3, <1>4 DEF Belongs, Suits
<1>6. f \in Entry /\ Unused \notin Code
  BY <1>3, CodeAssumption DEF Entry
<1>7. vm' = [vm EXCEPT !.inline_cache = d]
  BY <1>1
<1> HIDE DEF c, d, f
<1>8. k \in 1 .. Len(c) /\ Len(c) = CacheSlots[f]
  BY <1>4, <1>5 DEF IsCacheOf
<1>9. /\ d \in Seq(Entry) /\ Len(d) = Len(c)
      /\ \A j \in 1 .. Len(c) : d[j] = IF j = k THEN f ELSE c[j]
  BY <1>3, <1>6, <1>8 DEF d
<1>10. IsCacheOf(d, f)
  BY <1>5, <1>9 DEF IsCacheOf
<1>11. Keeps(d, c)
  <2>1. \A j \in 1 .. Len(c) : c[j] \in {f, Unused}
    BY <1>5 DEF IsCacheOf
  <2> QED BY <1>9, <2>1 DEF Keeps
<1>12. /\ vm' \in Machine /\ vm'.ip = vm.ip /\ vm'.inst_ptr = vm.inst_ptr
       /\ vm'.instructions = vm.instructions /\ vm'.max_stack_depth = vm.max_stack_depth
       /\ vm'.sp = vm.sp /\ vm'.new_target = vm.new_target /\ vm'.inline_cache = d
  BY <1>2, <1>7, <1>9 DEF Machine
<1>13. Resumed(vm', vm)
  <2>1. CacheSlots[f] > 0
    BY <1>4
  <2> QED BY <1>10, <1>11, <1>12, <2>1 DEF Resumed, c, f
<1>14. Good(vm, acts, Len(acts)) /\ acts \in Seq(Activation)
  BY LinkedTop DEF IInv, TypeOK, ActsInv
<1>15. Good(vm', acts, Len(acts))
  <2>1. Len(acts) \in 0 .. Len(acts)
    BY <1>2
  <2> QED BY <1>13, <1>14, <2>1, ResumedGood
<1>16. /\ cell' \in [Functions -> Seq(Entry)]
       /\ \A g \in Functions : cell'[g] = cell[g] \/ IsCacheOf(cell'[g], g)
  BY <1>1, SameCells
<1>17. stack_len' \in 0 .. MaxSp /\ Min2(stack_len, vm.sp) <= stack_len'
  BY <1>1, <1>3, SizeAssumption DEF Min2
<1> QED BY <1>1, <1>3, <1>12, <1>15, <1>16, <1>17, StayKeeps

LEMMA MachineStays ==
    ASSUME IInv, UNCHANGED <<vm, cell, acts, leaked>>,
           stack_len' = stack_len \/ stack_len' = vm.sp, raising' \in BOOLEAN
    PROVE  IInv'
<1>1. /\ vm' \in Machine /\ vm.sp \in 0 .. MaxSp /\ stack_len \in 0 .. MaxSp
      /\ acts \in Seq(Activation)
  BY DEF IInv, TypeOK, Machine
<1>2. Good(vm', acts, Len(acts))
  BY <1>1, LinkedTop DEF IInv, ActsInv
<1>3. stack_len' \in 0 .. MaxSp /\ Min2(stack_len, vm.sp) <= stack_len'
  BY <1>1, SizeAssumption DEF Min2
<1>4. /\ cell' \in [Functions -> Seq(Entry)]
      /\ \A g \in Functions : cell'[g] = cell[g] \/ IsCacheOf(cell'[g], g)
  BY SameCells
<1> QED BY <1>1, <1>2, <1>3, <1>4, StayKeeps

LEMMA NewKeeps ==
    ASSUME IInv, NEW c \in Classes, NEW ip \in Positions, New(c, ip)
    PROVE  IInv'
<1> DEFINE a == Begun("New", vm.inst_ptr, c, 0, 0, ip)
<1>1. /\ Runs /\ vm' = [vm EXCEPT !.ip = ip, !.new_target = c] /\ leaked' = FALSE
      /\ UNCHANGED <<stack_len, cell, raising>>
  BY DEF New
<1>2. a = Begun("New", vm.inst_ptr, c, 0, 0, ip)
  OBVIOUS
<1>3. acts' = Append(Counted, a)
  BY DEF New, Begin, Begun
<1> HIDE DEF a
<1>4. vm \in Machine /\ Suits(vm, vm.inst_ptr)
  BY OwnCode
<1>5. /\ TypeOK /\ vm.inst_ptr \in Code /\ raising \in BOOLEAN /\ c \in Target
      /\ vm.sp \in 0 .. MaxSp /\ vm.sp \in Nat
  BY <1>4, SizeAssumption DEF IInv, TypeOK, Machine, Target
<1>6. /\ a \in Activation
      /\ a.kind = "New" /\ a.func = vm.inst_ptr /\ a.callee = c
      /\ a.window = 0 /\ a.written = 0
      /\ a.reg_base = vm.sp /\ a.was_leaked = leaked
      /\ a.saved = [vm EXCEPT !.ip = ip]
      /\ a.saved.ip = ip /\ a.saved.inst_ptr = vm.inst_ptr
      /\ a.saved.instructions = vm.instructions
      /\ a.saved.inline_cache = vm.inline_cache
  BY <1>2, <1>5, BegunType
<1>7. /\ vm' \in Machine /\ vm'.ip = ip /\ vm'.inst_ptr = vm.inst_ptr
      /\ vm'.instructions = vm.instructions /\ vm'.max_stack_depth = vm.max_stack_depth
      /\ vm'.inline_cache = vm.inline_cache /\ vm'.new_target = c
      /\ vm'.sp = vm.sp
  BY <1>1, <1>4, <1>5 DEF Machine
<1>8. vm'.sp = vm.sp + a.window
  BY <1>5, <1>6, <1>7
<1>9. cell' \in [Functions -> Seq(Entry)] /\ Lent(cell, cell', a)
  BY <1>1 DEF Lent, IInv, TypeOK
<1>10. Suits(vm', a.func)
  BY <1>4, <1>6, <1>7 DEF Suits
<1>11. Leaves(a, vm')
  BY <1>6, <1>7, KeepsItself DEF Leaves
<1>12. a.kind \notin CodeKinds /\ a.kind \notin HostKinds
  BY <1>6, Kinds DEF CodeKinds
<1>13. Placed(a, Len(acts) + 1)
  BY <1>6, <1>12 DEF Placed
<1>14. Covered(a)
  BY <1>6 DEF Covered
<1> QED BY <1>1, <1>3, <1>5, <1>6, <1>7, <1>8, <1>9, <1>10, <1>11, <1>12, <1>13, <1>14, PushKeeps

LEMMA NextPartKeeps ==
    ASSUME IInv, NEW args \in 0 .. MaxArgs, NextPart(args)
    PROVE  IInv'
<1> DEFINE f == Parts[Top.callee][Top.begun + 1]
<1>1. /\ ~Idle /\ Top.kind = "New" /\ Top.begun < Len(Parts[Top.callee])
      /\ ExecuteCompiledFunctionSlice(f, args, vm.ip)
  BY DEF NextPart, Constructing
<1>2. Top.callee \in Classes /\ Top.begun \in Nat
  BY <1>1, TopFacts DEF Placed, Activation
<1>3. f \in Functions
  <2>1. Parts[Top.callee] \in Seq(Functions \ GeneratorFunctions)
    BY <1>2, CodeAssumption
  <2>2. Top.begun + 1 \in 1 .. Len(Parts[Top.callee])
    BY <1>1, <1>2, <2>1
  <2>3. f \in Functions \ GeneratorFunctions
    BY <2>1, <2>2
  <2> QED BY <2>3
<1>4. vm.ip \in Positions
  BY DEF IInv, TypeOK, Machine
<1> HIDE DEF f
<1> QED BY <1>1, <1>3, <1>4, SliceKeeps

-----------------------------------------------------------------------------
(* What the host does *)

LEMMA HostCallKeeps ==
    ASSUME IInv, NEW kind \in HostKinds, NEW f \in Functions, NEW args \in 0 .. MaxArgs,
           HostCall(kind, f, args)
    PROVE  IInv'
<1> DEFINE a == Begun(kind, vm.inst_ptr, f, args, args, vm.ip)
<1>1. /\ Idle /\ vm.sp + args <= MaxSp
      /\ vm' = [vm EXCEPT !.sp = @ + args]
      /\ GrowTo(vm.sp + args)
      /\ UNCHANGED <<cell, raising, leaked>>
  BY DEF HostCall
<1>2. a = Begun(kind, vm.inst_ptr, f, args, args, vm.ip)
  OBVIOUS
<1>3. acts' = Append(Counted, a)
  BY DEF HostCall, Begin, Begun
<1> HIDE DEF a
<1>4. vm \in Machine /\ Suits(vm, vm.inst_ptr)
  BY OwnCode
<1>5. /\ TypeOK /\ vm.inst_ptr \in Code /\ raising \in BOOLEAN /\ leaked \in BOOLEAN
      /\ vm.sp \in 0 .. MaxSp /\ vm.sp \in Nat /\ vm.ip \in Positions /\ args \in Nat
  BY <1>4, SizeAssumption DEF IInv, TypeOK, Machine
<1>6. /\ a \in Activation
      /\ a.kind = kind /\ a.func = vm.inst_ptr /\ a.callee = f
      /\ a.window = args /\ a.written = args
      /\ a.reg_base = vm.sp /\ a.was_leaked = leaked
      /\ a.saved = [vm EXCEPT !.ip = vm.ip]
      /\ a.saved.ip = vm.ip /\ a.saved.inst_ptr = vm.inst_ptr
      /\ a.saved.instructions = vm.instructions
      /\ a.saved.inline_cache = vm.inline_cache
  BY <1>2, <1>5, BegunType
<1>7. /\ vm' \in Machine /\ vm'.ip = vm.ip /\ vm'.inst_ptr = vm.inst_ptr
      /\ vm'.instructions = vm.instructions /\ vm'.max_stack_depth = vm.max_stack_depth
      /\ vm'.inline_cache = vm.inline_cache /\ vm'.new_target = vm.new_target
      /\ vm'.sp = vm.sp + args
  <2> DEFINE sp == vm.sp + args
  <2>1. sp \in 0 .. MaxSp /\ vm' = [vm EXCEPT !.sp = sp]
    BY <1>1, <1>5, SizeAssumption
  <2> HIDE DEF sp
  <2>2. /\ vm' \in Machine /\ vm'.ip = vm.ip /\ vm'.inst_ptr = vm.inst_ptr
        /\ vm'.instructions = vm.instructions /\ vm'.max_stack_depth = vm.max_stack_depth
        /\ vm'.inline_cache = vm.inline_cache /\ vm'.new_target = vm.new_target
        /\ vm'.sp = sp
    BY <1>4, <2>1 DEF Machine
  <2> QED BY <2>2 DEF sp
<1>8. stack_len' = Max2(stack_len, vm'.sp)
  BY <1>1, <1>7 DEF GrowTo
<1>9. vm'.sp = vm.sp + a.window
  BY <1>6, <1>7
<1>10. Suits(vm', a.func)
  BY <1>4, <1>6, <1>7 DEF Suits
<1>11. a.kind # "New" /\ a.kind \notin CodeKinds
  BY <1>6, Kinds
<1>12. Leaves(a, vm')
  BY <1>6, <1>7, <1>11, KeepsItself DEF Leaves, CodeKinds
<1>13. Placed(a, Len(acts) + 1)
  <2>1. Len(acts) + 1 = 1
    BY <1>1 DEF Idle
  <2> QED BY <1>6, <1>11, <2>1 DEF Placed, CodeKinds
<1>14. Covered(a)
  BY <1>5, <1>6 DEF Covered
<1> QED BY <1>1, <1>3, <1>5, <1>6, <1>7, <1>8, <1>9, <1>10, <1>11, <1>12, <1>13, <1>14, HostPushKeeps

LEMMA HostEntersKeeps ==
    ASSUME IInv, HostEnters
    PROVE  IInv'
<1>1. PICK args \in {Top.window, Top.window + 1} :
          /\ ~Idle /\ Top.kind \in HostKinds
          /\ \/ CallRegisterDirect(Top.callee, args, vm.ip)
             \/ ExecuteCompiledFunctionSlice(Top.callee, args, vm.ip)
  BY DEF HostEnters, Calling, HostKinds
<1>4. args \in Nat
  BY <1>1, TopFacts DEF Activation
<1>2. Top.callee \in Functions
  BY <1>1, TopFacts DEF Placed
<1>3. vm.ip \in Positions
  BY DEF IInv, TypeOK, Machine
<1> QED BY <1>1, <1>2, <1>3, <1>4, DirectKeeps, SliceKeeps

LEMMA EvalKeeps ==
    ASSUME IInv, EvalInContext
    PROVE  IInv'
<1> DEFINE n == RegisterCount[Expression]
           a == Begun("Expression", Expression, NoClass, n, n, vm.ip)
<1>1. /\ Idle /\ Fits(n) /\ GrowTo(vm.sp + n)
      /\ vm' = [vm EXCEPT !.ip = 0, !.inst_ptr = Expression, !.instructions = Expression,
                          !.max_stack_depth = Expression, !.inline_cache = Fresh(Expression),
                          !.sp = @ + n]
      /\ UNCHANGED <<cell, raising, leaked>>
  BY DEF EvalInContext
<1>2. a = Begun("Expression", Expression, NoClass, n, n, vm.ip)
  OBVIOUS
<1>3. acts' = Append(Counted, a)
  BY DEF EvalInContext, Begin, Begun
<1>4. Expression \in Code
  BY DEF Code
<1>5. n \in Nat
  BY <1>4, Sizes
<1> HIDE DEF a, n
<1>6. vm \in Machine /\ vm.inst_ptr = Script /\ vm.instructions = Script
  BY <1>1, OwnCode
<1>7. /\ TypeOK /\ raising \in BOOLEAN /\ leaked \in BOOLEAN
      /\ vm.sp \in 0 .. MaxSp /\ vm.sp \in Nat /\ vm.ip \in Positions
  BY <1>6, SizeAssumption DEF IInv, TypeOK, Machine
<1>8. /\ a \in Activation
      /\ a.kind = "Expression" /\ a.func = Expression /\ a.callee = NoClass
      /\ a.window = n /\ a.written = n
      /\ a.reg_base = vm.sp /\ a.was_leaked = leaked
      /\ a.saved = [vm EXCEPT !.ip = vm.ip]
      /\ a.saved.inst_ptr = vm.inst_ptr /\ a.saved.instructions = vm.instructions
  BY <1>2, <1>4, <1>5, <1>7, Kinds, BegunType
<1>9. Fresh(Expression) \in Seq(Entry) /\ IsCacheOf(Fresh(Expression), Expression)
  BY <1>4, FreshIsCache
<1>10. /\ vm' \in Machine /\ vm'.inst_ptr = Expression /\ vm'.max_stack_depth = Expression
       /\ vm'.inline_cache = Fresh(Expression) /\ vm'.new_target = vm.new_target
       /\ vm'.sp = vm.sp + n /\ vm'.sp <= STACK_SIZE
  <2> DEFINE sp == vm.sp + n
             e == Fresh(Expression)
  <2>1. sp \in 0 .. MaxSp /\ sp <= STACK_SIZE /\ 0 \in Positions
    BY <1>1, <1>5, <1>7, SizeAssumption DEF Fits, Positions
  <2>2. vm' = [vm EXCEPT !.ip = 0, !.inst_ptr = Expression, !.instructions = Expression,
                         !.max_stack_depth = Expression, !.inline_cache = e, !.sp = sp]
    BY <1>1
  <2>3. e \in Seq(Entry)
    BY <1>9
  <2> HIDE DEF sp, e
  <2>4. /\ vm' \in Machine /\ vm'.inst_ptr = Expression /\ vm'.max_stack_depth = Expression
        /\ vm'.inline_cache = e /\ vm'.new_target = vm.new_target
        /\ vm'.sp = sp
    BY <1>4, <1>6, <2>1, <2>2, <2>3 DEF Machine
  <2> QED BY <2>1, <2>4 DEF sp, e
<1>11. stack_len' = Max2(stack_len, vm'.sp)
  BY <1>1, <1>10 DEF GrowTo
<1>12. vm'.sp = vm.sp + a.window
  BY <1>8, <1>10
<1>13. Suits(vm', a.func)
  BY <1>8, <1>9, <1>10 DEF Suits
<1>14. Leaves(a, vm')
  BY <1>6, <1>8 DEF Leaves, HostKinds
<1>15. Placed(a, Len(acts) + 1)
  BY <1>8 DEF Placed, HostKinds
<1>16. a.kind # "New"
  BY <1>8
<1>17. Covered(a)
  BY <1>5, <1>8 DEF Covered
<1> QED BY <1>1, <1>3, <1>7, <1>8, <1>10, <1>11, <1>12, <1>13, <1>14, <1>15, <1>16, <1>17, HostPushKeeps

-----------------------------------------------------------------------------
(* Every step *)

LEMMA NextKeeps ==
    ASSUME IInv, [Next]_vars
    PROVE  IInv'
<1>1. ASSUME NEW k \in 1 .. CacheSlots[vm.inst_ptr], Remember(k) PROVE IInv'
  BY <1>1, RememberKeeps
<1>2. ASSUME PushAndPop PROVE IInv'
  <2>1. raising' \in BOOLEAN
    BY <1>2 DEF PushAndPop, IInv, TypeOK
  <2> QED BY <1>2, <2>1, MachineStays DEF PushAndPop
<1>3. ASSUME Throw PROVE IInv'
  <2>1. raising' \in BOOLEAN
    BY <1>3 DEF Throw
  <2> QED BY <1>3, <2>1, MachineStays DEF Throw
<1>4. ASSUME NEW f \in Functions, NEW args \in 0 .. MaxArgs, NEW ip \in Positions \ {0},
             Call(f, args, ip)
      PROVE  IInv'
  BY <1>4, DirectKeeps DEF Call
<1>5. ASSUME NEW f \in Functions, NEW args \in 0 .. MaxArgs, NEW ip \in Positions \ {0},
             CallBack(f, args, ip)
      PROVE  IInv'
  BY <1>5, SliceKeeps DEF CallBack
<1>6. ASSUME NEW f \in Functions, NEW start \in Positions, NEW ip \in Positions \ {0},
             GeneratorNext(f, start, ip)
      PROVE  IInv'
  <2>1. RegisterCount[f] \in Nat
    BY Sizes DEF Code
  <2>2. Runs /\ CallSwapped("Body", f, RegisterCount[f], start, ip)
    BY <1>6 DEF GeneratorNext, ExecuteGeneratorBody
  <2> QED BY <2>1, <2>2, SwappedKeeps
<1>7. ASSUME NEW c \in Classes, NEW ip \in Positions \ {0}, New(c, ip) PROVE IInv'
  BY <1>7, NewKeeps
<1>8. ASSUME NEW args \in 0 .. MaxArgs, NextPart(args) PROVE IInv'
  BY <1>8, NextPartKeeps
<1>9. ASSUME EndNew PROVE IInv'
  BY <1>9, EndNewKeeps
<1>10. ASSUME Leave PROVE IInv'
  BY <1>10, LeaveKeeps
<1>11. ASSUME NEW f \in Functions, NEW args \in 0 .. MaxArgs,
              HostCall("CallFunction", f, args) \/ HostCall("CallValue", f, args)
       PROVE  IInv'
  BY <1>11, HostCallKeeps DEF HostKinds
<1>12. ASSUME HostEnters PROVE IInv'
  BY <1>12, HostEntersKeeps
<1>13. ASSUME HostCallEnds PROVE IInv'
  BY <1>13, HostCallEndsKeeps
<1>14. ASSUME EvalInContext PROVE IInv'
  BY <1>14, EvalKeeps
<1>15. ASSUME UNCHANGED vars PROVE IInv'
  <2>1. UNCHANGED <<vm, stack_len, cell, acts, raising, leaked>>
    BY <1>15 DEF vars
  <2>2. raising' \in BOOLEAN
    BY <2>1 DEF IInv, TypeOK
  <2> QED BY <2>1, <2>2, MachineStays
<1> QED
  BY <1>1, <1>2, <1>3, <1>4, <1>5, <1>6, <1>7, <1>8, <1>9, <1>10, <1>11, <1>12, <1>13,
     <1>14, <1>15 DEF Next

LEMMA InitIInv ==
    ASSUME Init
    PROVE  IInv
<1> DEFINE n == RegisterCount[Script]
           m == [vm EXCEPT !.sp = 0]
           r == [kind |-> "Run", func |-> Script, callee |-> NoClass, begun |-> 0,
                 reg_base |-> 0, window |-> n, written |-> n, saved |-> m, was_leaked |-> FALSE]
<1>1. Script \in Code /\ n \in Nat \ {0} /\ n <= STACK_SIZE /\ n \in 0 .. MaxSp
  BY Sizes, SizeAssumption DEF Code
<1>2. Fresh(Script) \in Seq(Entry) /\ IsCacheOf(Fresh(Script), Script)
  BY <1>1, FreshIsCache
<1>3. 0 \in Positions /\ 0 \in 0 .. MaxSp
  BY SizeAssumption DEF Positions
<1>4. /\ vm \in Machine /\ vm.ip = 0 /\ vm.inst_ptr = Script /\ vm.instructions = Script
      /\ vm.max_stack_depth = Script /\ vm.inline_cache = Fresh(Script)
      /\ vm.sp = n /\ vm.new_target = NoClass
  <2> DEFINE e == Fresh(Script)
  <2>1. vm = [ip |-> 0, inst_ptr |-> Script, instructions |-> Script,
              max_stack_depth |-> Script, inline_cache |-> e,
              sp |-> n, new_target |-> NoClass]
    BY DEF Init
  <2>2. e \in Seq(Entry)
    BY <1>2
  <2> HIDE DEF e, n
  <2>3. /\ vm \in Machine /\ vm.ip = 0 /\ vm.inst_ptr = Script /\ vm.instructions = Script
        /\ vm.max_stack_depth = Script /\ vm.inline_cache = e
        /\ vm.sp = n /\ vm.new_target = NoClass
    BY <1>1, <1>3, <2>1, <2>2 DEF Machine, Target
  <2> QED BY <2>3 DEF e
<1>5. /\ acts = <<r>> /\ stack_len = n /\ raising = FALSE /\ leaked = FALSE
      /\ cell = [f \in Functions |-> Fresh(f)]
  BY DEF Init
<1> HIDE DEF n
<1>6. /\ m \in Machine /\ m.ip = 0 /\ m.inst_ptr = Script /\ m.instructions = Script
      /\ m.max_stack_depth = Script /\ m.inline_cache = Fresh(Script) /\ m.sp = 0
  BY <1>3, <1>4 DEF Machine
<1> HIDE DEF m
<1>7. /\ r \in Activation /\ r.kind = "Run" /\ r.func = Script /\ r.saved = m
      /\ r.reg_base = 0 /\ r.window = n /\ r.written = n
  BY <1>1, <1>3, <1>6 DEF Activation, CodeKinds, Target
<1> HIDE DEF r
<1>8. acts \in Seq(Activation) /\ Len(acts) = 1 /\ acts[1] = r
  BY <1>5, <1>7
<1>9. \A f \in Functions : Fresh(f) \in Seq(Entry) /\ IsCacheOf(Fresh(f), f)
  BY FreshIsCache DEF Code
<1>10. Types(vm, stack_len, cell, acts, raising, leaked)
  BY <1>1, <1>4, <1>5, <1>8, <1>9 DEF Types
<1>11. Suits(vm, Script) /\ Suits(m, Script)
  BY <1>2, <1>4, <1>6 DEF Suits
<1>12. Leaves(r, vm)
  BY <1>4, <1>6, <1>7 DEF Leaves, HostKinds
<1>13. Linked(acts, vm)
  <2>1. Belongs(vm, r)
    BY <1>1, <1>4, <1>6, <1>7, <1>11, <1>12 DEF Belongs
  <2>2. Good(At(acts, vm, 1), acts, 1)
    BY <1>8, <2>1 DEF At, Good
  <2>3. Good(At(acts, vm, 0), acts, 0)
    BY <1>6, <1>7, <1>8, <1>11 DEF At, Good
  <2>4. Placed(acts[1], 1)
    BY <1>7, <1>8 DEF Placed, HostKinds
  <2>5. 0 .. Len(acts) = {0, 1} /\ 1 .. Len(acts) = {1}
    BY <1>8
  <2> QED BY <2>2, <2>3, <2>4, <2>5 DEF Linked
<1>14. Home(acts, cell)
  BY <1>5, <1>9 DEF Home
<1>15. Apart(acts, vm.sp, stack_len)
  BY <1>1, <1>4, <1>5, <1>7, <1>8, SizeAssumption DEF Apart, Covered, Min2
<1>16. Targets(acts, vm.new_target, leaked)
  <2>1. \A i \in 1 .. Len(acts) : acts[i].kind # "New"
    BY <1>7, <1>8
  <2> QED BY <1>4, <2>1 DEF Targets, IsTargetOf
<1> QED BY <1>10, <1>13, <1>14, <1>15, <1>16, IInvHolds DEF Holds

LEMMA Soundness == Spec => []IInv
<1>1. Init => IInv
  BY InitIInv
<1>2. IInv /\ [Next]_vars => IInv'
  BY NextKeeps
<1> QED BY <1>1, <1>2, PTL DEF Spec

\* What each part of the invariant gives the properties
LEMMA RunsOwn == IInv => RunsWithItsOwn
<1> SUFFICES ASSUME IInv PROVE RunsWithItsOwn
  OBVIOUS
<1>1. CASE Idle
  BY <1>1, OwnCode DEF RunsWithItsOwn, Current, Suits
<1>2. CASE ~Idle
  BY <1>2, TopFacts DEF RunsWithItsOwn, Current, Belongs, Suits
<1> QED BY <1>1, <1>2

\* A call that ends lets its caller go on.
LEMMA EndsGoOn ==
    ASSUME IInv, Next, Len(acts') < Len(acts)
    PROVE  GoesOn
<1>1. Leave \/ EndNew \/ HostCallEnds
  <2>1. acts \in Seq(Activation) /\ Len(acts) \in Nat
    BY DEF IInv, TypeOK
  <2>2. acts' # acts
    OBVIOUS
  <2>3. \A kind, func, callee, window, written, ip :
            ~Begin(kind, func, callee, window, written, ip)
    <3> SUFFICES ASSUME NEW kind, NEW func, NEW callee, NEW window,
                        NEW written, NEW ip,
                        Begin(kind, func, callee, window, written, ip)
                 PROVE  FALSE
      OBVIOUS
    <3> DEFINE a == Begun(kind, func, callee, window, written, ip)
    <3>1. acts' = Append(Counted, a)
      BY DEF Begin, Begun
    <3>2. Counted \in Seq(Activation) /\ Len(Counted) = Len(acts)
      BY <2>1, CountedSame
    <3> HIDE DEF a
    <3>3. Len(acts') = Len(acts) + 1
      <4> DEFINE S == Activation \union {a}
      <4>1. Counted \in Seq(S) /\ a \in S
        BY <3>2
      <4> HIDE DEF S
      <4>2. Len(Append(Counted, a)) = Len(Counted) + 1
        BY <4>1
      <4> QED BY <3>1, <3>2, <4>2
    <3> QED BY <2>1, <3>3
  <2>4. \A ip : ~Overflow(ip)
    BY <2>2 DEF Overflow
  <2>5. \A f, args, ip : ~CallRegisterDirect(f, args, ip)
    BY <2>3, <2>4 DEF CallRegisterDirect, CallSelf, CallOther
  <2>6. \A kind, f, window, start, ip : ~CallSwapped(kind, f, window, start, ip)
    BY <2>3, <2>4 DEF CallSwapped
  <2>7. \A f, args, ip : ~ExecuteCompiledFunctionSlice(f, args, ip)
    BY <2>6 DEF ExecuteCompiledFunctionSlice
  <2>8. /\ \A f, args, ip : ~Call(f, args, ip)
        /\ \A f, args, ip : ~CallBack(f, args, ip)
        /\ \A f, start, ip : ~GeneratorNext(f, start, ip)
        /\ \A c, ip : ~New(c, ip)
        /\ \A args : ~NextPart(args)
        /\ \A kind, f, args : ~HostCall(kind, f, args)
        /\ ~HostEnters /\ ~EvalInContext
    BY <2>3, <2>5, <2>6, <2>7
       DEF Call, CallBack, GeneratorNext, ExecuteGeneratorBody, New, NextPart, HostEnters,
           HostCall, EvalInContext
  <2>9. (\A k : ~Remember(k)) /\ ~PushAndPop /\ ~Throw
    BY <2>2 DEF Remember, PushAndPop, Throw
  <2> QED BY <2>8, <2>9 DEF Next
<1>2. ~Idle
  BY <1>1 DEF Leave, EndNew, Constructing, HostCallEnds
<1>3. /\ Top \in Activation /\ vm \in Machine /\ Belongs(vm, Top)
      /\ Suits(Top.saved, Top.saved.inst_ptr)
  BY <1>2, TopFacts
<1>4. Top.saved \in Machine
  BY <1>3 DEF Activation
<1>5. ASSUME Resumed(vm', Top.saved),
             (Top.kind = "New" /\ ~raising') => vm'.new_target = Top.saved.new_target
      PROVE  GoesOn
  <2>1. Keeps(vm'.inline_cache, Top.saved.inline_cache)
    BY <1>5, KeepsItself DEF Resumed
  <2> QED BY <1>5, <2>1 DEF Resumed, GoesOn
<1>6. CASE Leave
  <2>1. vm' = Restored(Top) /\ Top.kind \in CodeKinds /\ Top.kind # "New"
    BY <1>6, Kinds DEF Leave, CodeKinds
  <2>2. CASE Top.kind = "Run"
    BY <2>2 DEF GoesOn
  <2>3. CASE Top.kind # "Run"
    <3>1. Resumed(vm', Top.saved)
      BY <1>3, <2>1, <2>3, RestoredResumes
    <3> QED BY <1>5, <2>1, <3>1
  <2> QED BY <2>2, <2>3
<1>7. CASE EndNew
  <2>1. Top.kind = "New" /\ Top.saved.new_target \in Target
    BY <1>4, <1>7 DEF EndNew, Constructing, Machine
  <2>2. \/ vm' = vm /\ raising'
        \/ vm' = [vm EXCEPT !.new_target = Top.saved.new_target]
    BY <1>7 DEF EndNew, FailNew
  <2>3. /\ Resumed(vm', Top.saved)
        /\ ~raising' => vm'.new_target = Top.saved.new_target
    BY <1>3, <2>1, <2>2, NewResumes
  <2> QED BY <1>5, <2>3
<1>8. CASE HostCallEnds
  <2>1. Top.kind \in HostKinds /\ Top.kind # "New"
    BY <1>8, Kinds DEF HostCallEnds
  <2>2. CASE raising /\ vm' = vm
    BY <1>3, <2>1, <2>2 DEF GoesOn, Belongs
  <2>3. CASE vm' = [vm EXCEPT !.sp = Top.saved.sp]
    <3> DEFINE s == Top.saved
    <3>1. vm' = [vm EXCEPT !.sp = s.sp] /\ s \in Machine
      BY <1>4, <2>3
    <3>2. /\ vm.ip = s.ip /\ vm.instructions = s.instructions
          /\ Top.func = s.inst_ptr /\ Suits(vm, s.inst_ptr) /\ Suits(s, s.inst_ptr)
          /\ Keeps(vm.inline_cache, s.inline_cache)
      BY <1>3, <2>1 DEF Belongs, Leaves
    <3> HIDE DEF s
    <3>3. /\ vm'.ip = vm.ip /\ vm'.inst_ptr = vm.inst_ptr
          /\ vm'.instructions = vm.instructions
          /\ vm'.max_stack_depth = vm.max_stack_depth
          /\ vm'.inline_cache = vm.inline_cache /\ vm'.sp = s.sp
      BY <1>3, <3>1 DEF Machine
    <3>4. /\ vm'.ip = s.ip /\ vm'.inst_ptr = s.inst_ptr
          /\ vm'.instructions = s.instructions
          /\ vm'.max_stack_depth = s.max_stack_depth
          /\ vm'.sp = s.sp /\ Keeps(vm'.inline_cache, s.inline_cache)
      BY <3>2, <3>3 DEF Suits
    <3> QED BY <2>1, <3>4 DEF GoesOn, s
  <2> QED BY <1>8, <2>2, <2>3 DEF HostCallEnds
<1> QED BY <1>1, <1>6, <1>7, <1>8

-----------------------------------------------------------------------------
(* The theorems *)

(* The whole state has its type; sp in particular stays within the stack   *)
(* while code runs (the checks of the windows in call_register_direct,     *)
(* execute_compiled_function_slice and execute_generator_body).            *)
THEOREM StateHasItsType == Spec => []TypeOK
<1>1. IInv => TypeOK
  BY DEF IInv
<1> QED BY <1>1, Soundness, PTL

(* The machine has the code, the bound and the inline cache of the code    *)
(* that runs, however deep calls are nested, however often a function is   *)
(* active at a time, and whichever of them fail.                           *)
THEOREM CodeRunsWithItsOwn == Spec => []RunsWithItsOwn
BY Soundness, RunsOwn, PTL

(* The inline cache that a call takes out of its function is away only     *)
(* while an activation of the function is, and comes back with a slot for  *)
(* each access, from whichever of them, and when a call fails, too.        *)
THEOREM EveryCacheComesHome == Spec => []CachesComeHome
<1>1. IInv => CachesComeHome
  BY DEF IInv
<1> QED BY <1>1, Soundness, PTL

(* No window that is in use overlaps another or reaches behind the stack,  *)
(* whatever the ends of calls and the slow paths truncate.                 *)
THEOREM WindowsStayApart == Spec => []WindowsApart
<1>1. IInv => WindowsApart
  BY DEF IInv
<1> QED BY <1>1, Soundness, PTL

(* new.target is the class that is being constructed, and undefined where  *)
(* none is, unless a constructor failed and left it (construct_value in    *)
(* vm.rs).                                                                 *)
THEOREM EachNewTargetIsOwn == Spec => []NewTargetIsOwn
<1>1. IInv => NewTargetIsOwn
  BY DEF IInv, TargetsInv
<1> QED BY <1>1, Soundness, PTL

(* A call that ends, by return, yield or error, gives its caller back what *)
(* it goes on with.                                                        *)
THEOREM CallersGoOn == Spec => CallerGoesOn
<1>1. Init => IInv
  BY InitIInv
<1>2. IInv /\ [Next]_vars => IInv'
  BY NextKeeps
<1>3. IInv /\ [Next]_vars => [Len(acts') < Len(acts) => GoesOn]_vars
  BY EndsGoOn
<1> QED BY <1>1, <1>2, <1>3, PTL DEF Spec, CallerGoesOn
=============================================================================
