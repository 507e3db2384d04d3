---------------------------- MODULE RegisterProofs ----------------------------
(***************************************************************************)
(* The register machine stays in the code and in the registers it was      *)
(* given, whatever sound program it runs.                                  *)
(***************************************************************************)
EXTENDS RegisterProperties, WellFoundedInduction, SequenceTheorems, TLAPS

-----------------------------------------------------------------------------
(* Induction on the natural numbers *)

\* A set of natural numbers that is not empty has a least element.
LEMMA LeastNumber ==
    ASSUME NEW T, T \subseteq Nat, T # {}
    PROVE  \E x \in T : \A y \in T : ~(y < x)
<1>1. IsWellFoundedOn(OpToRel(<, Nat), Nat)
  BY NatLessThanWellFounded
<1>2. \E x \in T : \A y \in T : ~(<<y, x>> \in OpToRel(<, Nat))
  BY <1>1, WFMin
<1>3. \A x, y \in T : y < x => <<y, x>> \in OpToRel(<, Nat)
  BY DEF OpToRel
<1>4. QED
  BY <1>2, <1>3

\* Induction: what holds of 0 and passes from n to n + 1 holds of every number.
LEMMA Induction ==
    ASSUME NEW S, 0 \in S, \A n \in Nat : n \in S => n + 1 \in S
    PROVE  Nat \subseteq S
<1> DEFINE T == Nat \ S
<1>1. ASSUME T # {} PROVE FALSE
  <2>1. PICK x \in T : \A y \in T : ~(y < x)
    BY <1>1, LeastNumber
  <2>2. x # 0 /\ x \in Nat
    BY <2>1
  <2>3. x - 1 \in Nat /\ x - 1 < x
    BY <2>2
  <2>4. x - 1 \in S
    BY <2>1, <2>3
  <2>5. QED
    BY <2>1, <2>2, <2>3, <2>4
<1>2. QED
  BY <1>1

-----------------------------------------------------------------------------
(* Without *)

\* f[i] are the first i items of s that are not excluded.
SelectionStep(f, s, excluded, i) ==
    IF i = 0 THEN << >>
    ELSE IF s[i] \in excluded THEN f[i - 1]
    ELSE Append(f[i - 1], s[i])
IsSelection(f, s, excluded, n) == f = [i \in 0 .. n |-> SelectionStep(f, s, excluded, i)]

\* The recursive function that Without is defined by exists.
LEMMA SelectionExists ==
    ASSUME NEW s, NEW excluded
    PROVE  \A n \in Nat : \E f : IsSelection(f, s, excluded, n)
<1> DEFINE S == {n \in Nat : \E f : IsSelection(f, s, excluded, n)}
<1>1. 0 \in S
  <2>1. IsSelection([i \in 0 .. 0 |-> << >>], s, excluded, 0)
    BY DEF IsSelection, SelectionStep
  <2>2. QED BY <2>1
<1>2. ASSUME NEW n \in Nat, n \in S PROVE n + 1 \in S
  <2>1. PICK f : IsSelection(f, s, excluded, n)
    BY <1>2
  <2> DEFINE g == [i \in 0 .. n + 1 |-> SelectionStep(f, s, excluded, i)]
  <2>2. \A i \in 0 .. n : g[i] = f[i]
    BY <2>1 DEF IsSelection
  <2>3. \A i \in 1 .. n + 1 : i - 1 \in 0 .. n /\ g[i - 1] = f[i - 1]
    <3>1. \A i \in 1 .. n + 1 : i - 1 \in 0 .. n
      OBVIOUS
    <3>2. QED BY <2>2, <3>1
  <2> HIDE DEF g
  <2>4. \A i \in 0 .. n + 1 : SelectionStep(f, s, excluded, i) = SelectionStep(g, s, excluded, i)
    BY <2>3 DEF SelectionStep
  <2>5. IsSelection(g, s, excluded, n + 1)
    BY <2>4 DEF IsSelection, g
  <2>6. QED BY <2>5
<1> HIDE DEF S
<1>3. Nat \subseteq S
  BY <1>1, <1>2, Induction
<1>4. QED
  BY <1>3 DEF S

\* Every prefix of the selection is a sequence of items that are not excluded.
LEMMA SelectionType ==
    ASSUME NEW S, NEW s \in Seq(S), NEW excluded, NEW f,
           IsSelection(f, s, excluded, Len(s))
    PROVE  \A i \in 0 .. Len(s) : f[i] \in Seq(S \ excluded)
<1> DEFINE T == {n \in Nat : n <= Len(s) => f[n] \in Seq(S \ excluded)}
<1> \A n \in 0 .. Len(s) : f[n] = SelectionStep(f, s, excluded, n)
  BY DEF IsSelection
<1>1. 0 \in T
  <2>1. Len(s) \in Nat /\ << >> \in Seq(S \ excluded)
    OBVIOUS
  <2>2. f[0] = << >>
    BY <2>1 DEF SelectionStep
  <2>3. QED
    BY <2>1, <2>2
<1>2. ASSUME NEW n \in Nat, n \in T PROVE n + 1 \in T
  <2> SUFFICES ASSUME n + 1 <= Len(s) PROVE f[n + 1] \in Seq(S \ excluded)
    OBVIOUS
  <2>1. f[n] \in Seq(S \ excluded)
    BY <1>2
  <2>2. f[n + 1] = IF s[n + 1] \in excluded THEN f[n] ELSE Append(f[n], s[n + 1])
    BY DEF SelectionStep
  <2>3. s[n + 1] \in S
    OBVIOUS
  <2>4. QED
    BY <2>1, <2>2, <2>3
<1> HIDE DEF T
<1>3. Nat \subseteq T
  BY <1>1, <1>2, Induction
<1>4. QED
  BY <1>3 DEF T

\* What Without keeps: items of the sequence that are not excluded.
LEMMA SelectedItems ==
    ASSUME NEW S, NEW s \in Seq(S), NEW excluded
    PROVE  Without(s, excluded) \in Seq(S \ excluded)
<1> DEFINE f == CHOOSE f : IsSelection(f, s, excluded, Len(s))
<1>1. Without(s, excluded) = f[Len(s)]
  BY DEF Without, IsSelection, SelectionStep
<1>2. IsSelection(f, s, excluded, Len(s))
  <2>1. Len(s) \in Nat
    OBVIOUS
  <2>2. QED BY <2>1, SelectionExists
<1> HIDE DEF f
<1>3. f[Len(s)] \in Seq(S \ excluded)
  <2>1. Len(s) \in 0 .. Len(s)
    OBVIOUS
  <2>2. QED BY <1>2, <2>1, SelectionType
<1>4. QED
  BY <1>1, <1>3

-----------------------------------------------------------------------------
(* Sequences whatever their elements are *)

ElementsOf(s) == {s[i] : i \in DOMAIN s}
IsSeq(s) == s \in Seq(ElementsOf(s))

\* A sequence over any set is one over its own elements.
LEMMA SeqIsSeq ==
    ASSUME NEW S, NEW s \in Seq(S)
    PROVE  IsSeq(s)
BY DEF IsSeq, ElementsOf

\* The positions of a sequence
LEMMA SeqDomain ==
    ASSUME NEW s, IsSeq(s)
    PROVE  Len(s) \in Nat /\ DOMAIN s = 1 .. Len(s)
BY DEF IsSeq

\* A function on 1 .. n is a sequence.
LEMMA FunctionIsSeq ==
    ASSUME NEW n \in Nat, NEW s, s = [i \in 1 .. n |-> s[i]]
    PROVE  IsSeq(s) /\ Len(s) = n
<1>1. s \in [1 .. n -> ElementsOf(s)]
  BY DEF ElementsOf
<1>2. s \in Seq(ElementsOf(s))
  BY <1>1
<1>3. QED
  BY <1>1, <1>2 DEF IsSeq

LEMMA AppendIsSeq ==
    ASSUME NEW s, NEW v, IsSeq(s)
    PROVE  /\ IsSeq(Append(s, v)) /\ Len(Append(s, v)) = Len(s) + 1
           /\ \A i \in 1 .. Len(s) : Append(s, v)[i] = s[i]
           /\ Append(s, v)[Len(s) + 1] = v
<1> DEFINE S == ElementsOf(s) \cup {v}
<1>1. s \in Seq(S)
  BY DEF IsSeq
<1> HIDE DEF S
<1>2. v \in S
  BY DEF S
<1>3. Append(s, v) \in Seq(S)
  BY <1>1, <1>2
<1>4. IsSeq(Append(s, v))
  BY <1>3, SeqIsSeq
<1>5. QED
  BY <1>1, <1>2, <1>4

LEMMA ConcatIsSeq ==
    ASSUME NEW s, NEW t, IsSeq(s), IsSeq(t)
    PROVE  /\ IsSeq(s \o t) /\ Len(s \o t) = Len(s) + Len(t)
           /\ \A i \in 1 .. Len(s) + Len(t) :
                (s \o t)[i] = IF i <= Len(s) THEN s[i] ELSE t[i - Len(s)]
<1> DEFINE S == ElementsOf(s) \cup ElementsOf(t)
<1>1. s \in Seq(S) /\ t \in Seq(S)
  BY DEF IsSeq
<1> HIDE DEF S
<1>2. s \o t \in Seq(S)
  BY <1>1
<1>3. IsSeq(s \o t)
  BY <1>2, SeqIsSeq
<1>4. QED
  BY <1>1, <1>3

LEMMA SubSeqIsSeq ==
    ASSUME NEW s, IsSeq(s), NEW m \in Nat, m # 0, NEW n \in Int, n <= Len(s)
    PROVE  /\ IsSeq(SubSeq(s, m, n))
           /\ Len(SubSeq(s, m, n)) = IF n < m THEN 0 ELSE n - m + 1
           /\ \A i \in DOMAIN SubSeq(s, m, n) :
                m + i - 1 \in DOMAIN s /\ SubSeq(s, m, n)[i] = s[m + i - 1]
<1> DEFINE len == IF n < m THEN 0 ELSE n - m + 1
           t == [i \in 1 .. len |-> s[m + i - 1]]
<1>1. Len(s) \in Nat /\ DOMAIN s = 1 .. Len(s)
  BY SeqDomain
<1>2. SubSeq(s, m, n) = [i \in 1 .. n - m + 1 |-> s[i + m - 1]]
  BY <1>1 DEF IsSeq
<1>3. 1 .. n - m + 1 = 1 .. len
  OBVIOUS
<1>4. SubSeq(s, m, n) = t
  BY <1>2, <1>3
<1>5. len \in Nat
  OBVIOUS
<1>6. t = [i \in 1 .. len |-> t[i]]
  OBVIOUS
<1>7. IsSeq(t) /\ Len(t) = len
  BY <1>5, <1>6, FunctionIsSeq
<1>8. \A i \in 1 .. len : m + i - 1 \in 1 .. Len(s)
  BY <1>1
<1>9. QED
  BY <1>1, <1>4, <1>7, <1>8

-----------------------------------------------------------------------------
(* What is sound *)

\* A value is no reference but to a cell, no function but of the program, and
\* the number of a number is one.
SoundValue(p, h, v) ==
    /\ v.k = "fn" => v.v \in DOMAIN p.funcs
    /\ v.k = "obj" => v.v \in DOMAIN h
    /\ v.k \in {"num", "bool"} => v.v \in Int

SoundList(p, h, s) == IsSeq(s) /\ \A i \in DOMAIN s : SoundValue(p, h, s[i])

SoundSlots(p, h, f) ==
    /\ DOMAIN f \subseteq 0 .. p.globals - 1
    /\ \A g \in DOMAIN f : SoundValue(p, h, f[g])

IsArrayCell(p, h, c) == c.t = "array" /\ c = ArrayCell(c.items) /\ SoundList(p, h, c.items)

IsHashCell(p, h, c) ==
    /\ c.t = "hash" /\ c = HashCell(c.keys, c.vals)
    /\ c.keys \in Seq(DOMAIN c.vals)
    /\ \A k \in DOMAIN c.vals : SoundValue(p, h, c.vals[k])

IsClosureCell(p, h, c) ==
    /\ c.t = "closure"
    /\ c.fn \in DOMAIN p.funcs
    /\ SoundSlots(p, h, c.captured)

SoundCell(p, h, c) == IsArrayCell(p, h, c) \/ IsHashCell(p, h, c) \/ IsClosureCell(p, h, c)

SoundHeap(p, h) == IsSeq(h) /\ \A a \in DOMAIN h : SoundCell(p, h, h[a])

FrameFields ==
    {"kind", "fn", "pc", "regs", "dst", "saved", "items", "i", "out", "callee", "more", "keep"}

CodeIn(p, fn) == IF fn = 0 THEN p.code ELSE p.funcs[fn].code
RegistersIn(p, fn) == IF fn = 0 THEN p.registers ELSE p.funcs[fn].registers

\* An activation of a function: its next instruction is in the function's code,
\* and all of the function's registers have been written.
CodeFrame(p, h, f) ==
    /\ DOMAIN f = FrameFields
    /\ f.kind = "code"
    /\ f.fn \in {0} \cup DOMAIN p.funcs
    /\ f.pc \in DOMAIN CodeIn(p, f.fn)
    /\ 0 .. RegistersIn(p, f.fn) - 1 \subseteq DOMAIN f.regs
    /\ \A r \in DOMAIN f.regs : SoundValue(p, h, f.regs[r])
    /\ SoundSlots(p, h, f.saved)

\* A builtin that is waiting for its callback.
BuiltinFrame(p, h, f) ==
    /\ DOMAIN f = FrameFields
    /\ f.kind = "native"
    /\ SoundList(p, h, f.items) /\ SoundList(p, h, f.out) /\ SoundList(p, h, f.more)
    /\ f.i \in Nat
    /\ SoundValue(p, h, f.callee) /\ IsCallable(h, f.callee)

\* A builtin is between the activation that called it and its callback's.
SoundStack(p, h, fs) ==
    /\ IsSeq(fs) /\ Len(fs) > 0
    /\ \A j \in 1 .. Len(fs) :
        \/ CodeFrame(p, h, fs[j])
        \/ BuiltinFrame(p, h, fs[j]) /\ 1 < j /\ j < Len(fs) /\ CodeFrame(p, h, fs[j - 1])

SoundState(p, h, g, fs) ==
    /\ SoundHeap(p, h)
    /\ SoundSlots(p, h, g) /\ DOMAIN g = 0 .. p.globals - 1
    /\ SoundStack(p, h, fs)

\* The inductive invariant. A call goes to what a register, a global or a
\* property holds and a return to the activation below, so that every value of
\* the heap and every activation must be sound.
IInv ==
    /\ CodeIsSound
    /\ outcome = "running" => SoundState(program, heap, globals, frames)

-----------------------------------------------------------------------------
(***************************************************************************)
(* Values.                                                                 *)
(***************************************************************************)

LEMMA PlainValues ==
    ASSUME NEW p, NEW h
    PROVE  /\ SoundValue(p, h, UNDEFINED) /\ SoundValue(p, h, NULL) /\ SoundValue(p, h, NaN)
           /\ SoundValue(p, h, TRUE_VALUE) /\ SoundValue(p, h, FALSE_VALUE)
           /\ \A s : SoundValue(p, h, Text(s))
           /\ \A b : SoundValue(p, h, Boolean(b))
           /\ \A n \in Int : SoundValue(p, h, Number(n))
BY DEF SoundValue, UNDEFINED, NULL, NaN, TRUE_VALUE, FALSE_VALUE, Text, Boolean, Number, Value

\* A heap that only grew has every cell, of the kind it was.
Grown(h, g) ==
    /\ IsSeq(h) /\ IsSeq(g) /\ DOMAIN h \subseteq DOMAIN g
    /\ \A a \in DOMAIN h : g[a].t = h[a].t

LEMMA ValueGrown ==
    ASSUME NEW p, NEW h, NEW g, NEW v, Grown(h, g), SoundValue(p, h, v)
    PROVE  /\ SoundValue(p, g, v)
           /\ IsCallable(h, v) => IsCallable(g, v)
BY DEF Grown, SoundValue, IsCallable, IsObject

LEMMA ListGrown ==
    ASSUME NEW p, NEW h, NEW g, NEW s, Grown(h, g), SoundList(p, h, s)
    PROVE  SoundList(p, g, s)
BY ValueGrown DEF SoundList

LEMMA SlotsGrown ==
    ASSUME NEW p, NEW h, NEW g, NEW f, Grown(h, g), SoundSlots(p, h, f)
    PROVE  SoundSlots(p, g, f)
BY ValueGrown DEF SoundSlots

LEMMA CellGrown ==
    ASSUME NEW p, NEW h, NEW g, NEW c, Grown(h, g), SoundCell(p, h, c)
    PROVE  SoundCell(p, g, c)
BY ValueGrown, ListGrown, SlotsGrown DEF SoundCell, IsArrayCell, IsHashCell, IsClosureCell

LEMMA CodeFrameGrown ==
    ASSUME NEW p, NEW h, NEW g, NEW f, Grown(h, g), CodeFrame(p, h, f)
    PROVE  CodeFrame(p, g, f)
BY ValueGrown, SlotsGrown DEF CodeFrame

LEMMA BuiltinFrameGrown ==
    ASSUME NEW p, NEW h, NEW g, NEW f, Grown(h, g), BuiltinFrame(p, h, f)
    PROVE  BuiltinFrame(p, g, f)
BY ValueGrown, ListGrown DEF BuiltinFrame

LEMMA StackGrown ==
    ASSUME NEW p, NEW h, NEW g, NEW fs, Grown(h, g), SoundStack(p, h, fs)
    PROVE  SoundStack(p, g, fs)
BY CodeFrameGrown, BuiltinFrameGrown DEF SoundStack

\* What arithmetic makes of two values is never a function or a reference.
LEMMA NumberOf ==
    ASSUME NEW p, NEW h, NEW v, SoundValue(p, h, v)
    PROVE  \/ ToNumber(v) = NaN
           \/ \E n \in Int : ToNumber(v) = Number(n) /\ ToNumber(v).v = n
<1>1. \A n : Number(n).v = n
  BY DEF Number, Value
<1>2. CASE v.k \in {"num", "bool"}
  <2>1. v.v \in Int
    BY <1>2 DEF SoundValue
  <2>2. v # NULL
    <3>1. NULL.k = "null"
      BY DEF NULL, Value
    <3>2. ASSUME v = NULL PROVE FALSE
      <4>1. v.k = "null"
        BY <3>1, <3>2
      <4>. QED  BY <1>2, <4>1
    <3>. QED  BY <3>2
  <2>3. ToNumber(v) = Number(v.v)
    BY <1>2, <2>2 DEF ToNumber
  <2>. QED  BY <1>1, <2>1, <2>3
<1>3. CASE v.k \notin {"num", "bool"}
  <2>1. ToNumber(v) = Number(0) \/ ToNumber(v) = NaN
    BY <1>3, Zenon DEF ToNumber
  <2>. QED  BY <1>1, <2>1
<1>. QED  BY <1>2, <1>3

LEMMA AddSound ==
    ASSUME NEW p, NEW h, NEW x, NEW y, SoundValue(p, h, x), SoundValue(p, h, y)
    PROVE  SoundValue(p, h, Add(x, y))
<1>1. CASE "str" \in {x.k, y.k}
  BY <1>1, PlainValues DEF Add
<1>2. CASE NaN \in {ToNumber(x), ToNumber(y)}
  BY <1>2, PlainValues DEF Add
<1>3. CASE NaN \notin {ToNumber(x), ToNumber(y)}
  <2>1. ToNumber(x).v + ToNumber(y).v \in Int
    BY <1>3, NumberOf
  <2>. QED  BY <1>1, <1>3, <2>1, PlainValues DEF Add
<1>. QED  BY <1>1, <1>2, <1>3

LEMMA RemainderSound ==
    ASSUME NEW m \in Int, NEW n \in Int, n # 0
    PROVE  Remainder(m, n) \in Int
BY DEF Remainder

LEMMA ArithmeticSound ==
    ASSUME NEW p, NEW h, NEW op \in ArithmeticOps, NEW x, NEW y,
           SoundValue(p, h, x), SoundValue(p, h, y)
    PROVE  SoundValue(p, h, Arithmetic(op, x, y))
<1>. DEFINE a == ToNumber(x)
            b == ToNumber(y)
<1>1. CASE op = "Add"
  BY <1>1, AddSound DEF Arithmetic
<1>2. CASE op # "Add" /\ (NaN \in {a, b} \/ (op = "Mod" /\ b.v = 0))
  BY <1>2, PlainValues DEF Arithmetic
<1>3. CASE op # "Add" /\ ~(NaN \in {a, b} \/ (op = "Mod" /\ b.v = 0))
  <2>1. a.v \in Int /\ b.v \in Int
    BY <1>3, NumberOf
  <2>2. op = "Mod" => Remainder(a.v, b.v) \in Int
    BY <1>3, <2>1, RemainderSound
  <2>3. a.v - b.v \in Int /\ a.v * b.v \in Int
    BY <2>1
  <2>4. op \in {"Sub", "Mul", "Mod"}
    BY <1>3 DEF ArithmeticOps
  <2>. QED  BY <1>3, <2>2, <2>3, <2>4, PlainValues DEF Arithmetic
<1>. QED  BY <1>1, <1>2, <1>3

LEMMA NegateSound ==
    ASSUME NEW p, NEW h, NEW v, SoundValue(p, h, v)
    PROVE  SoundValue(p, h, Negate(v))
<1>1. ToNumber(v) # NaN => -ToNumber(v).v \in Int
  BY NumberOf
<1>. QED  BY <1>1, PlainValues DEF Negate
-----------------------------------------------------------------------------
(***************************************************************************)
(* Cells and the heap.                                                     *)
(***************************************************************************)

LEMMA ListOf ==
    ASSUME NEW p, NEW h, NEW n \in Nat, NEW s, s = [i \in 1 .. n |-> s[i]],
           \A i \in 1 .. n : SoundValue(p, h, s[i])
    PROVE  SoundList(p, h, s) /\ Len(s) = n
BY FunctionIsSeq DEF SoundList

LEMMA EmptyListSound ==
    ASSUME NEW p, NEW h
    PROVE  SoundList(p, h, << >>) /\ Len(<< >>) = 0
<1>1. << >> \in Seq({}) /\ Len(<< >>) = 0 /\ DOMAIN << >> = {}
  OBVIOUS
<1>2. IsSeq(<< >>)
  BY <1>1, SeqIsSeq
<1>. QED  BY <1>1, <1>2 DEF SoundList

LEMMA AppendSound ==
    ASSUME NEW p, NEW h, NEW s, NEW v, SoundList(p, h, s), SoundValue(p, h, v)
    PROVE  SoundList(p, h, Append(s, v))
<1>1. /\ IsSeq(Append(s, v)) /\ Len(Append(s, v)) = Len(s) + 1
      /\ \A i \in 1 .. Len(s) : Append(s, v)[i] = s[i]
      /\ Append(s, v)[Len(s) + 1] = v
  BY AppendIsSeq DEF SoundList
<1>2. DOMAIN Append(s, v) = 1 .. Len(s) + 1 /\ DOMAIN s = 1 .. Len(s) /\ Len(s) \in Nat
  BY <1>1, SeqDomain DEF SoundList
<1>3. ASSUME NEW i \in DOMAIN Append(s, v) PROVE SoundValue(p, h, Append(s, v)[i])
  <2>1. i \in 1 .. Len(s) \/ i = Len(s) + 1
    BY <1>2
  <2>. QED  BY <1>1, <1>2, <2>1 DEF SoundList
<1>. QED  BY <1>1, <1>3 DEF SoundList

LEMMA ConcatSound ==
    ASSUME NEW p, NEW h, NEW s, NEW t, SoundList(p, h, s), SoundList(p, h, t)
    PROVE  SoundList(p, h, s \o t)
<1>1. /\ IsSeq(s \o t) /\ Len(s \o t) = Len(s) + Len(t)
      /\ \A i \in 1 .. Len(s) + Len(t) :
            (s \o t)[i] = IF i <= Len(s) THEN s[i] ELSE t[i - Len(s)]
  BY ConcatIsSeq DEF SoundList
<1>2. /\ DOMAIN (s \o t) = 1 .. Len(s) + Len(t)
      /\ DOMAIN s = 1 .. Len(s) /\ Len(s) \in Nat
      /\ DOMAIN t = 1 .. Len(t) /\ Len(t) \in Nat
  BY <1>1, SeqDomain DEF SoundList
<1>3. ASSUME NEW i \in 1 .. Len(s) + Len(t) PROVE SoundValue(p, h, (s \o t)[i])
  <2>1. CASE i <= Len(s)
    BY <1>1, <1>2, <2>1 DEF SoundList
  <2>2. CASE ~(i <= Len(s))
    <3>1. i - Len(s) \in DOMAIN t
      BY <1>2, <2>2
    <3>. QED  BY <1>1, <2>2, <3>1 DEF SoundList
  <2>. QED  BY <2>1, <2>2
<1>. QED  BY <1>1, <1>2, <1>3 DEF SoundList

LEMMA SubSeqSound ==
    ASSUME NEW p, NEW h, NEW s, SoundList(p, h, s), NEW m \in Nat, m # 0
    PROVE  SoundList(p, h, SubSeq(s, m, Len(s)))
<1>1. Len(s) \in Int /\ Len(s) <= Len(s)
  BY SeqDomain DEF SoundList
<1>2. /\ IsSeq(SubSeq(s, m, Len(s)))
      /\ \A i \in DOMAIN SubSeq(s, m, Len(s)) :
            m + i - 1 \in DOMAIN s /\ SubSeq(s, m, Len(s))[i] = s[m + i - 1]
  BY <1>1, SubSeqIsSeq DEF SoundList
<1>. QED  BY <1>2 DEF SoundList

LEMMA ArrayCellSound ==
    ASSUME NEW p, NEW h, NEW s, SoundList(p, h, s)
    PROVE  SoundCell(p, h, ArrayCell(s))
BY DEF SoundCell, IsArrayCell, ArrayCell

LEMMA HashCellSound ==
    ASSUME NEW p, NEW h, NEW keys, NEW vals, keys \in Seq(DOMAIN vals),
           \A k \in DOMAIN vals : SoundValue(p, h, vals[k])
    PROVE  IsHashCell(p, h, HashCell(keys, vals)) /\ SoundCell(p, h, HashCell(keys, vals))
BY DEF SoundCell, IsHashCell, HashCell

LEMMA EmptyHashSound ==
    ASSUME NEW p, NEW h
    PROVE  IsHashCell(p, h, EmptyHash) /\ SoundCell(p, h, EmptyHash)
<1>1. << >> \in Seq(DOMAIN << >>) /\ DOMAIN << >> = {}
  OBVIOUS
<1>. QED  BY <1>1, HashCellSound DEF EmptyHash

\* A heap of sound cells with a new one at its end.
LEMMA AllocatedSound ==
    ASSUME NEW p, NEW h, NEW c, SoundHeap(p, h), SoundCell(p, h, c)
    PROVE  /\ Grown(h, Allocated(h, c))
           /\ SoundHeap(p, Allocated(h, c))
           /\ SoundValue(p, Allocated(h, c), NewReference(h))
<1>. DEFINE g == Allocated(h, c)
<1>1. /\ IsSeq(g) /\ Len(g) = Len(h) + 1
      /\ \A i \in 1 .. Len(h) : g[i] = h[i]
      /\ g[Len(h) + 1] = c
  BY AppendIsSeq DEF SoundHeap, Allocated
<1>. HIDE DEF g
<1>2. DOMAIN g = 1 .. Len(h) + 1 /\ DOMAIN h = 1 .. Len(h) /\ Len(h) \in Nat /\ IsSeq(h)
  BY <1>1, SeqDomain DEF SoundHeap
<1>3. Grown(h, g)
  BY <1>1, <1>2 DEF Grown
<1>4. ASSUME NEW a \in DOMAIN g PROVE SoundCell(p, g, g[a])
  <2>1. a \in 1 .. Len(h) \/ a = Len(h) + 1
    BY <1>2
  <2>2. SoundCell(p, h, g[a])
    BY <1>1, <1>2, <2>1 DEF SoundHeap
  <2>. QED  BY <1>3, <2>2, CellGrown
<1>5. SoundValue(p, g, NewReference(h))
  <2>1. Len(h) + 1 \in DOMAIN g
    BY <1>2
  <2>. QED  BY <2>1 DEF SoundValue, NewReference, Reference, Value
<1>. QED  BY <1>1, <1>3, <1>4, <1>5 DEF SoundHeap, g

\* A cell replaced by a sound one of its kind.
LEMMA ReplacedSound ==
    ASSUME NEW p, NEW h, NEW a \in DOMAIN h, NEW c, SoundHeap(p, h), SoundCell(p, h, c),
           c.t = h[a].t
    PROVE  Grown(h, [h EXCEPT ![a] = c]) /\ SoundHeap(p, [h EXCEPT ![a] = c])
<1>. DEFINE g == [h EXCEPT ![a] = c]
<1>1. IsSeq(h) /\ Len(h) \in Nat /\ DOMAIN h = 1 .. Len(h)
  BY SeqDomain DEF SoundHeap
<1>2. DOMAIN g = DOMAIN h /\ \A b \in DOMAIN h : g[b] = IF b = a THEN c ELSE h[b]
  OBVIOUS
<1>3. IsSeq(g)
  <2>1. g = [i \in 1 .. Len(h) |-> g[i]]
    BY <1>1
  <2>. HIDE DEF g
  <2>. QED  BY <1>1, <2>1, FunctionIsSeq
<1>. HIDE DEF g
<1>4. Grown(h, g)
  BY <1>1, <1>2, <1>3 DEF Grown
<1>5. ASSUME NEW b \in DOMAIN g PROVE SoundCell(p, g, g[b])
  <2>1. SoundCell(p, h, g[b])
    BY <1>2 DEF SoundHeap
  <2>. QED  BY <1>4, <2>1, CellGrown
<1>. QED  BY <1>3, <1>4, <1>5 DEF SoundHeap, g

\* What a reference to an array or to a hash refers to.
LEMMA ArrayAt ==
    ASSUME NEW p, NEW h, NEW v, SoundHeap(p, h), SoundValue(p, h, v), IsArray(h, v)
    PROVE  /\ v.v \in DOMAIN h /\ IsArrayCell(p, h, h[v.v])
           /\ Items(h, v) = h[v.v].items /\ SoundList(p, h, Items(h, v))
BY DEF SoundHeap, SoundValue, IsArray, IsObject, Items, SoundCell, IsArrayCell, IsHashCell,
       IsClosureCell

LEMMA HashAt ==
    ASSUME NEW p, NEW h, NEW v, SoundHeap(p, h), SoundValue(p, h, v), IsHash(h, v)
    PROVE  v.v \in DOMAIN h /\ IsHashCell(p, h, h[v.v])
BY DEF SoundHeap, SoundValue, IsHash, IsObject, SoundCell, IsArrayCell, IsHashCell,
       IsClosureCell

\* An array with other items.
LEMMA ItemsReplaced ==
    ASSUME NEW p, NEW h, NEW v, SoundHeap(p, h), SoundValue(p, h, v), IsArray(h, v),
           NEW items, SoundList(p, h, items)
    PROVE  /\ Grown(h, [h EXCEPT ![v.v].items = items])
           /\ SoundHeap(p, [h EXCEPT ![v.v].items = items])
<1>1. v.v \in DOMAIN h /\ h[v.v] = ArrayCell(h[v.v].items) /\ h[v.v].t = "array"
  BY ArrayAt DEF IsArrayCell
<1>2. [h EXCEPT ![v.v].items = items] = [h EXCEPT ![v.v] = [h[v.v] EXCEPT !.items = items]]
  OBVIOUS
<1>3. [h[v.v] EXCEPT !.items = items] = ArrayCell(items)
  BY <1>1 DEF ArrayCell
<1>4. SoundCell(p, h, ArrayCell(items)) /\ ArrayCell(items).t = "array"
  BY ArrayCellSound DEF ArrayCell
<1>. QED  BY <1>1, <1>2, <1>3, <1>4, ReplacedSound

-----------------------------------------------------------------------------
(***************************************************************************)
(* Properties.                                                             *)
(***************************************************************************)

LEMMA ReadSound ==
    ASSUME NEW p, NEW h, NEW obj, NEW key, SoundHeap(p, h), SoundValue(p, h, obj)
    PROVE  SoundValue(p, h, ReadProperty(h, obj, key))
<1>1. CASE IsArray(h, obj)
  <2>1. SoundList(p, h, Items(h, obj))
    BY <1>1, ArrayAt
  <2>2. Len(Items(h, obj)) \in Int
    BY <2>1, SeqDomain DEF SoundList
  <2>. QED  BY <1>1, <2>1, <2>2, PlainValues DEF ReadProperty, SoundList
<1>2. CASE ~IsArray(h, obj) /\ IsHash(h, obj)
  <2>1. IsHashCell(p, h, h[obj.v])
    BY <1>2, HashAt
  <2>. QED  BY <1>2, <2>1, PlainValues DEF ReadProperty, IsHashCell
<1>3. CASE ~IsArray(h, obj) /\ ~IsHash(h, obj)
  BY <1>3, PlainValues DEF ReadProperty
<1>. QED  BY <1>1, <1>2, <1>3

\* An array that grows to an index holds what it held, the new value and
\* undefined.
LEMMA ExtendedSound ==
    ASSUME NEW p, NEW h, NEW s, NEW i \in Int, NEW v, SoundList(p, h, s), SoundValue(p, h, v)
    PROVE  SoundList(p, h, Extended(s, i, v))
<1>. DEFINE n == IF i > Len(s) THEN i ELSE Len(s)
            t == Extended(s, i, v)
<1>1. Len(s) \in Nat /\ DOMAIN s = 1 .. Len(s)
  BY SeqDomain DEF SoundList
<1>2. n \in Nat
  BY <1>1
<1>3. t = [j \in 1 .. n |-> IF j = i THEN v ELSE IF j > Len(s) THEN UNDEFINED ELSE s[j]]
  BY DEF Extended
<1>. HIDE DEF n, t
<1>4. t = [j \in 1 .. n |-> t[j]]
  BY <1>3
<1>5. ASSUME NEW j \in 1 .. n PROVE SoundValue(p, h, t[j])
  <2>1. CASE j = i
    BY <1>3, <2>1
  <2>2. CASE j # i /\ j > Len(s)
    BY <1>3, <2>2, PlainValues
  <2>3. CASE j # i /\ ~(j > Len(s))
    <3>1. j \in DOMAIN s
      BY <1>1, <1>2, <2>3
    <3>. QED  BY <1>3, <2>3, <3>1 DEF SoundList
  <2>. QED  BY <2>1, <2>2, <2>3
<1>6. SoundList(p, h, t)
  BY <1>2, <1>4, <1>5, ListOf
<1>. QED  BY <1>6 DEF t

LEMMA HashPutSound ==
    ASSUME NEW p, NEW h, NEW c, NEW key, NEW v, IsHashCell(p, h, c), SoundValue(p, h, v)
    PROVE  IsHashCell(p, h, HashPut(c, key, v)) /\ SoundCell(p, h, HashPut(c, key, v))
<1>1. /\ c = [t |-> "hash", keys |-> c.keys, vals |-> c.vals]
      /\ c.keys \in Seq(DOMAIN c.vals)
      /\ \A k \in DOMAIN c.vals : SoundValue(p, h, c.vals[k])
  BY DEF IsHashCell, HashCell
<1>2. CASE key \in DOMAIN c.vals
  <2>. DEFINE w == [c.vals EXCEPT ![key] = v]
  <2>1. HashPut(c, key, v) = HashCell(c.keys, w)
    BY <1>1, <1>2 DEF HashPut, HashCell
  <2>2. DOMAIN w = DOMAIN c.vals /\ \A k \in DOMAIN w : SoundValue(p, h, w[k])
    BY <1>1
  <2>. HIDE DEF w
  <2>. QED  BY <1>1, <2>1, <2>2, HashCellSound
<1>3. CASE key \notin DOMAIN c.vals
  <2>. DEFINE w == Over([k \in {key} |-> v], c.vals)
              ks == Append(c.keys, key)
  <2>1. HashPut(c, key, v) = HashCell(ks, w)
    BY <1>3 DEF HashPut
  <2>2. /\ DOMAIN w = DOMAIN c.vals \cup {key}
        /\ \A k \in DOMAIN w : w[k] = v \/ (k \in DOMAIN c.vals /\ w[k] = c.vals[k])
    BY DEF Over
  <2>3. c.keys \in Seq(DOMAIN c.vals \cup {key})
    BY <1>1
  <2>4. ks \in Seq(DOMAIN c.vals \cup {key})
    BY <2>3
  <2>5. \A k \in DOMAIN w : SoundValue(p, h, w[k])
    BY <1>1, <2>2
  <2>. HIDE DEF w, ks
  <2>. QED  BY <2>1, <2>2, <2>4, <2>5, HashCellSound
<1>. QED  BY <1>2, <1>3

LEMMA HashRemoveSound ==
    ASSUME NEW p, NEW h, NEW c, NEW key, IsHashCell(p, h, c)
    PROVE  IsHashCell(p, h, HashRemove(c, key)) /\ SoundCell(p, h, HashRemove(c, key))
<1>. DEFINE w == [k \in DOMAIN c.vals \ {key} |-> c.vals[k]]
            ks == Without(c.keys, {key})
<1>1. c.keys \in Seq(DOMAIN c.vals) /\ \A k \in DOMAIN c.vals : SoundValue(p, h, c.vals[k])
  BY DEF IsHashCell
<1>2. ks \in Seq(DOMAIN c.vals \ {key})
  BY <1>1, SelectedItems
<1>3. DOMAIN w = DOMAIN c.vals \ {key} /\ \A k \in DOMAIN w : SoundValue(p, h, w[k])
  BY <1>1
<1>4. HashRemove(c, key) = HashCell(ks, w)
  BY DEF HashRemove
<1>. HIDE DEF w, ks
<1>. QED  BY <1>2, <1>3, <1>4, HashCellSound

LEMMA WriteSound ==
    ASSUME NEW p, NEW h, NEW obj, NEW key, NEW v, SoundHeap(p, h),
           SoundValue(p, h, obj), SoundValue(p, h, key), SoundValue(p, h, v)
    PROVE  /\ Grown(h, WriteProperty(h, obj, key, v))
           /\ SoundHeap(p, WriteProperty(h, obj, key, v))
<1>1. CASE IsArray(h, obj) /\ IsNumber(key)
  <2>. DEFINE s == Extended(Items(h, obj), key.v + 1, v)
  <2>1. key.v + 1 \in Int
    BY <1>1 DEF IsNumber, SoundValue
  <2>2. SoundList(p, h, s)
    BY <1>1, <2>1, ArrayAt, ExtendedSound
  <2>3. WriteProperty(h, obj, key, v) = [h EXCEPT ![obj.v].items = s]
    BY <1>1 DEF WriteProperty, Items
  <2>. HIDE DEF s
  <2>4. /\ Grown(h, [h EXCEPT ![obj.v].items = s])
        /\ SoundHeap(p, [h EXCEPT ![obj.v].items = s])
    BY <1>1, <2>2, ItemsReplaced
  <2>. QED  BY <2>3, <2>4, Zenon
<1>2. CASE ~(IsArray(h, obj) /\ IsNumber(key)) /\ IsHash(h, obj)
  <2>. DEFINE c == HashPut(h[obj.v], KeyOf(key), v)
  <2>1. obj.v \in DOMAIN h /\ IsHashCell(p, h, h[obj.v])
    BY <1>2, HashAt
  <2>2. IsHashCell(p, h, c) /\ SoundCell(p, h, c)
    BY <2>1, HashPutSound
  <2>3. WriteProperty(h, obj, key, v) = [h EXCEPT ![obj.v] = c]
    BY <1>2 DEF WriteProperty
  <2>. HIDE DEF c
  <2>4. c.t = h[obj.v].t
    BY <2>1, <2>2 DEF IsHashCell
  <2>5. Grown(h, [h EXCEPT ![obj.v] = c]) /\ SoundHeap(p, [h EXCEPT ![obj.v] = c])
    BY <2>1, <2>2, <2>4, ReplacedSound
  <2>. QED  BY <2>3, <2>5, Zenon
<1>3. CASE ~(IsArray(h, obj) /\ IsNumber(key)) /\ ~IsHash(h, obj)
  BY <1>3 DEF WriteProperty, Grown, SoundHeap
<1>. QED  BY <1>1, <1>2, <1>3

LEMMA DeleteSound ==
    ASSUME NEW p, NEW h, NEW obj, NEW key, SoundHeap(p, h), SoundValue(p, h, obj)
    PROVE  /\ Grown(h, DeleteProperty(h, obj, key))
           /\ SoundHeap(p, DeleteProperty(h, obj, key))
<1>1. CASE IsHash(h, obj)
  <2>. DEFINE c == HashRemove(h[obj.v], KeyOf(key))
  <2>1. obj.v \in DOMAIN h /\ IsHashCell(p, h, h[obj.v])
    BY <1>1, HashAt
  <2>2. IsHashCell(p, h, c) /\ SoundCell(p, h, c)
    BY <2>1, HashRemoveSound
  <2>3. DeleteProperty(h, obj, key) = [h EXCEPT ![obj.v] = c]
    BY <1>1 DEF DeleteProperty
  <2>. HIDE DEF c
  <2>4. c.t = h[obj.v].t
    BY <2>1, <2>2 DEF IsHashCell
  <2>5. Grown(h, [h EXCEPT ![obj.v] = c]) /\ SoundHeap(p, [h EXCEPT ![obj.v] = c])
    BY <2>1, <2>2, <2>4, ReplacedSound
  <2>. QED  BY <2>3, <2>5, Zenon
<1>2. CASE ~IsHash(h, obj)
  BY <1>2 DEF DeleteProperty, Grown, SoundHeap
<1>. QED  BY <1>1, <1>2

LEMMA RestOfSound ==
    ASSUME NEW p, NEW h, NEW v, NEW skip \in Nat, SoundHeap(p, h), SoundValue(p, h, v)
    PROVE  SoundList(p, h, RestOf(h, v, skip))
<1>1. CASE IsArray(h, v)
  <2>1. SoundList(p, h, Items(h, v)) /\ skip + 1 \in Nat /\ skip + 1 # 0
    BY <1>1, ArrayAt
  <2>. QED  BY <1>1, <2>1, SubSeqSound DEF RestOf
<1>2. CASE ~IsArray(h, v)
  BY <1>2, EmptyListSound DEF RestOf
<1>. QED  BY <1>1, <1>2

LEMMA PropertyNamesSound ==
    ASSUME NEW p, NEW h, NEW obj, SoundHeap(p, h), SoundValue(p, h, obj)
    PROVE  SoundList(p, h, PropertyNames(h, obj))
<1>. DEFINE names == PropertyNames(h, obj)
<1>1. CASE IsHash(h, obj)
  <2>. DEFINE keys == h[obj.v].keys
  <2>1. keys \in Seq(DOMAIN h[obj.v].vals)
    BY <1>1, HashAt DEF IsHashCell
  <2>2. Len(keys) \in Nat /\ DOMAIN keys = 1 .. Len(keys)
    BY <2>1
  <2>3. names = [i \in 1 .. Len(keys) |-> Text(keys[i])]
    BY <1>1, <2>2 DEF PropertyNames
  <2>4. names = [i \in 1 .. Len(keys) |-> names[i]]
    BY <2>3
  <2>5. \A i \in 1 .. Len(keys) : SoundValue(p, h, names[i])
    BY <2>3, PlainValues
  <2>. HIDE DEF names, keys
  <2>. QED  BY <2>2, <2>4, <2>5, ListOf DEF names
<1>2. CASE ~IsHash(h, obj) /\ IsArray(h, obj)
  <2>. DEFINE s == Items(h, obj)
  <2>1. SoundList(p, h, s)
    BY <1>2, ArrayAt
  <2>2. Len(s) \in Nat /\ DOMAIN s = 1 .. Len(s)
    BY <2>1, SeqDomain DEF SoundList
  <2>3. names = [i \in 1 .. Len(s) |-> Text(ToString(i - 1))]
    BY <1>2, <2>2 DEF PropertyNames
  <2>4. names = [i \in 1 .. Len(s) |-> names[i]]
    BY <2>3
  <2>5. \A i \in 1 .. Len(s) : SoundValue(p, h, names[i])
    BY <2>3, PlainValues
  <2>. HIDE DEF names, s
  <2>. QED  BY <2>2, <2>4, <2>5, ListOf DEF names
<1>3. CASE ~IsHash(h, obj) /\ ~IsArray(h, obj)
  BY <1>3, EmptyListSound DEF PropertyNames
<1>. QED  BY <1>1, <1>2, <1>3

LEMMA WithoutKeysSound ==
    ASSUME NEW p, NEW h, NEW v, NEW excluded, SoundHeap(p, h), SoundValue(p, h, v)
    PROVE  SoundCell(p, h, WithoutKeys(h, v, excluded))
<1>1. CASE ~IsHash(h, v)
  BY <1>1, EmptyHashSound DEF WithoutKeys
<1>2. CASE IsHash(h, v)
  <2>. DEFINE c == h[v.v]
              kept == Without(c.keys, excluded)
              w == [k \in {kept[i] : i \in DOMAIN kept} |-> c.vals[k]]
  <2>1. c.keys \in Seq(DOMAIN c.vals) /\ \A k \in DOMAIN c.vals : SoundValue(p, h, c.vals[k])
    BY <1>2, HashAt DEF IsHashCell
  <2>2. kept \in Seq(DOMAIN c.vals \ excluded)
    BY <2>1, SelectedItems
  <2>3. WithoutKeys(h, v, excluded) = HashCell(kept, w)
    BY <1>2 DEF WithoutKeys
  <2>. HIDE DEF kept
  <2>4. \A i \in DOMAIN kept : kept[i] \in DOMAIN c.vals
    BY <2>2
  <2>5. kept \in Seq(DOMAIN w)
    <3>1. DOMAIN w = {kept[i] : i \in DOMAIN kept}
      OBVIOUS
    <3>2. IsSeq(kept)
      BY <2>2, SeqIsSeq
    <3>. QED  BY <3>1, <3>2 DEF IsSeq, ElementsOf
  <2>6. \A k \in DOMAIN w : SoundValue(p, h, w[k])
    BY <2>1, <2>4
  <2>. HIDE DEF w
  <2>. QED  BY <2>3, <2>5, <2>6, HashCellSound
<1>. QED  BY <1>1, <1>2

-----------------------------------------------------------------------------
(***************************************************************************)
(* Hashes made property by property. Each definition is a recursive        *)
(* function: it exists, and each of its values is a sound hash.            *)
(***************************************************************************)

PutStep(f, cell, from, n) ==
    IF n = 0 THEN cell ELSE HashPut(f[n - 1], from.keys[n], from.vals[from.keys[n]])
IsCopy(f, cell, from, n) == f = [i \in 0 .. n |-> PutStep(f, cell, from, i)]

LEMMA CopyExists ==
    ASSUME NEW cell, NEW from
    PROVE  \A n \in Nat : \E f : IsCopy(f, cell, from, n)
<1>. DEFINE S == {n \in Nat : \E f : IsCopy(f, cell, from, n)}
<1>1. 0 \in S
  <2>1. IsCopy([i \in 0 .. 0 |-> cell], cell, from, 0)
    BY DEF IsCopy, PutStep
  <2>. QED  BY <2>1
<1>2. ASSUME NEW n \in Nat, n \in S PROVE n + 1 \in S
  <2>1. PICK f : IsCopy(f, cell, from, n)
    BY <1>2
  <2>. DEFINE g == [i \in 0 .. n + 1 |-> PutStep(f, cell, from, i)]
  <2>2. \A i \in 0 .. n : g[i] = f[i]
    BY <2>1 DEF IsCopy
  <2>3. \A i \in 1 .. n + 1 : i - 1 \in 0 .. n /\ g[i - 1] = f[i - 1]
    <3>1. \A i \in 1 .. n + 1 : i - 1 \in 0 .. n
      OBVIOUS
    <3>. QED  BY <2>2, <3>1
  <2>. HIDE DEF g
  <2>4. \A i \in 0 .. n + 1 : PutStep(f, cell, from, i) = PutStep(g, cell, from, i)
    BY <2>3 DEF PutStep
  <2>5. IsCopy(g, cell, from, n + 1)
    BY <2>4 DEF IsCopy, g
  <2>. QED  BY <2>5
<1>. HIDE DEF S
<1>3. Nat \subseteq S
  BY <1>1, <1>2, Induction
<1>. QED  BY <1>3 DEF S

LEMMA HashOfKeysSound ==
    ASSUME NEW p, NEW h, NEW cell, NEW from, IsHashCell(p, h, cell), IsHashCell(p, h, from)
    PROVE  IsHashCell(p, h, HashOfKeys(cell, from))
<1>. DEFINE f == CHOOSE f : IsCopy(f, cell, from, Len(from.keys))
            last == Len(from.keys)
<1>1. HashOfKeys(cell, from) = f[last]
  BY DEF HashOfKeys, IsCopy, PutStep
<1>2. from.keys \in Seq(DOMAIN from.vals) /\ \A k \in DOMAIN from.vals : SoundValue(p, h, from.vals[k])
  BY DEF IsHashCell
<1>3. last \in Nat /\ \A n \in 1 .. last : from.keys[n] \in DOMAIN from.vals
  BY <1>2
<1>4. IsCopy(f, cell, from, last)
  BY <1>3, CopyExists
<1>. HIDE DEF f, last
<1>5. \A n \in 0 .. last : f[n] = PutStep(f, cell, from, n)
  BY <1>4 DEF IsCopy
<1>. DEFINE T == {n \in Nat : n <= last => IsHashCell(p, h, f[n])}
<1>6. 0 \in T
  BY <1>3, <1>5 DEF PutStep
<1>7. ASSUME NEW n \in Nat, n \in T PROVE n + 1 \in T
  <2>. SUFFICES ASSUME n + 1 <= last PROVE IsHashCell(p, h, f[n + 1])
    OBVIOUS
  <2>1. n + 1 \in 1 .. last /\ n + 1 \in 0 .. last /\ n + 1 # 0 /\ (n + 1) - 1 = n
    BY <1>3
  <2>2. f[n + 1] = HashPut(f[n], from.keys[n + 1], from.vals[from.keys[n + 1]])
    BY <1>5, <2>1 DEF PutStep
  <2>3. IsHashCell(p, h, f[n])
    BY <1>3, <1>7
  <2>4. SoundValue(p, h, from.vals[from.keys[n + 1]])
    BY <1>2, <1>3, <2>1
  <2>. QED  BY <2>2, <2>3, <2>4, HashPutSound
<1>. HIDE DEF T
<1>8. last \in T
  BY <1>3, <1>6, <1>7, Induction
<1>. QED  BY <1>1, <1>3, <1>8 DEF T

PairStep(f, h, parts, n) ==
    LET key == parts[2 * n - 1]
        value == parts[2 * n]
    IN  IF n = 0 THEN EmptyHash
        ELSE IF key # SpreadKey THEN HashPut(f[n - 1], KeyOf(key), value)
        ELSE IF IsHash(h, value) THEN HashOfKeys(f[n - 1], h[value.v])
        ELSE f[n - 1]
IsPairing(f, h, parts, n) == f = [i \in 0 .. n |-> PairStep(f, h, parts, i)]

LEMMA PairingExists ==
    ASSUME NEW h, NEW parts
    PROVE  \A n \in Nat : \E f : IsPairing(f, h, parts, n)
<1>. DEFINE S == {n \in Nat : \E f : IsPairing(f, h, parts, n)}
<1>1. 0 \in S
  <2>1. IsPairing([i \in 0 .. 0 |-> EmptyHash], h, parts, 0)
    BY DEF IsPairing, PairStep
  <2>. QED  BY <2>1
<1>2. ASSUME NEW n \in Nat, n \in S PROVE n + 1 \in S
  <2>1. PICK f : IsPairing(f, h, parts, n)
    BY <1>2
  <2>. DEFINE g == [i \in 0 .. n + 1 |-> PairStep(f, h, parts, i)]
  <2>2. \A i \in 0 .. n : g[i] = f[i]
    BY <2>1 DEF IsPairing
  <2>3. \A i \in 1 .. n + 1 : i - 1 \in 0 .. n /\ g[i - 1] = f[i - 1]
    <3>1. \A i \in 1 .. n + 1 : i - 1 \in 0 .. n
      OBVIOUS
    <3>. QED  BY <2>2, <3>1
  <2>. HIDE DEF g
  <2>4. ASSUME NEW i \in 0 .. n + 1 PROVE PairStep(f, h, parts, i) = PairStep(g, h, parts, i)
    <3>1. CASE i = 0
      BY <3>1 DEF PairStep
    <3>2. CASE i # 0
      <4>1. g[i - 1] = f[i - 1]
        BY <2>3, <3>2
      <4>. QED  BY <3>2, <4>1 DEF PairStep
    <3>. QED  BY <3>1, <3>2
  <2>5. IsPairing(g, h, parts, n + 1)
    BY <2>4 DEF IsPairing, g
  <2>. QED  BY <2>5
<1>. HIDE DEF S
<1>3. Nat \subseteq S
  BY <1>1, <1>2, Induction
<1>. QED  BY <1>3 DEF S

LEMMA HashOfPairsSound ==
    ASSUME NEW p, NEW h, NEW parts, SoundHeap(p, h), SoundList(p, h, parts)
    PROVE  SoundCell(p, h, HashOfPairs(h, parts))
<1>. DEFINE last == Len(parts) \div 2
            f == CHOOSE f : IsPairing(f, h, parts, last)
<1>1. HashOfPairs(h, parts) = f[last]
  BY DEF HashOfPairs, IsPairing, PairStep
<1>2. Len(parts) \in Nat /\ DOMAIN parts = 1 .. Len(parts)
  BY SeqDomain DEF SoundList
<1>3. last \in Nat /\ 2 * last <= Len(parts)
  BY <1>2
<1>4. IsPairing(f, h, parts, last)
  BY <1>3, PairingExists
<1>. HIDE DEF f, last
<1>5. \A n \in 0 .. last : f[n] = PairStep(f, h, parts, n)
  BY <1>4 DEF IsPairing
<1>. DEFINE T == {n \in Nat : n <= last => IsHashCell(p, h, f[n])}
<1>6. 0 \in T
  <2>1. f[0] = EmptyHash
    BY <1>3, <1>5 DEF PairStep
  <2>. QED  BY <2>1, EmptyHashSound
<1>7. ASSUME NEW n \in Nat, n \in T PROVE n + 1 \in T
  <2>. SUFFICES ASSUME n + 1 <= last PROVE IsHashCell(p, h, f[n + 1])
    OBVIOUS
  <2>. DEFINE key == parts[2 * (n + 1) - 1]
              value == parts[2 * (n + 1)]
  <2>1. n + 1 \in 0 .. last /\ n + 1 # 0 /\ (n + 1) - 1 = n
    BY <1>3
  <2>2. IsHashCell(p, h, f[n])
    BY <1>3, <1>7
  <2>3. SoundValue(p, h, value)
    <3>1. 2 * (n + 1) \in 1 .. Len(parts)
      BY <1>2, <1>3
    <3>. QED  BY <1>2, <3>1 DEF SoundList
  <2>4. f[n + 1] = IF key # SpreadKey THEN HashPut(f[n], KeyOf(key), value)
                   ELSE IF IsHash(h, value) THEN HashOfKeys(f[n], h[value.v])
                   ELSE f[n]
    BY <1>5, <2>1 DEF PairStep
  <2>. HIDE DEF key, value
  <2>5. CASE key # SpreadKey
    BY <2>2, <2>3, <2>4, <2>5, HashPutSound
  <2>6. CASE key = SpreadKey /\ IsHash(h, value)
    <3>1. IsHashCell(p, h, h[value.v])
      BY <2>3, <2>6, HashAt
    <3>. QED  BY <2>2, <2>4, <2>6, <3>1, HashOfKeysSound
  <2>7. CASE key = SpreadKey /\ ~IsHash(h, value)
    BY <2>2, <2>4, <2>7
  <2>. QED  BY <2>5, <2>6, <2>7
<1>. HIDE DEF T
<1>8. last \in T
  BY <1>3, <1>6, <1>7, Induction
<1>9. IsHashCell(p, h, f[last])
  BY <1>3, <1>8 DEF T
<1>. QED  BY <1>1, <1>9 DEF SoundCell

-----------------------------------------------------------------------------
(***************************************************************************)
(* The activations.                                                        *)
(***************************************************************************)

LEMMA StackFacts ==
    ASSUME NEW p, NEW h, NEW fs, SoundStack(p, h, fs)
    PROVE  /\ IsSeq(fs) /\ Len(fs) \in Nat \ {0} /\ DOMAIN fs = 1 .. Len(fs)
           /\ LastOf(fs) = fs[Len(fs)]
           /\ CodeFrame(p, h, LastOf(fs))
BY SeqDomain DEF SoundStack, LastOf

\* The running activation, replaced by one of the same kind.
LEMMA LastReplaced ==
    ASSUME NEW p, NEW h, NEW fs, NEW f, SoundStack(p, h, fs), CodeFrame(p, h, f)
    PROVE  /\ SoundStack(p, h, [fs EXCEPT ![Len(fs)] = f])
           /\ LastOf([fs EXCEPT ![Len(fs)] = f]) = f
           /\ Len([fs EXCEPT ![Len(fs)] = f]) = Len(fs)
<1>. DEFINE gs == [fs EXCEPT ![Len(fs)] = f]
            n == Len(fs)
<1>1. IsSeq(fs) /\ n \in Nat \ {0} /\ DOMAIN fs = 1 .. n
  BY StackFacts
<1>2. gs = [i \in 1 .. n |-> IF i = n THEN f ELSE fs[i]]
  BY <1>1
<1>3. gs = [i \in 1 .. n |-> gs[i]]
  BY <1>2
<1>. HIDE DEF gs, n
<1>4. IsSeq(gs) /\ Len(gs) = n
  BY <1>1, <1>3, FunctionIsSeq
<1>5. gs[n] = f /\ \A i \in 1 .. n : i # n => gs[i] = fs[i]
  BY <1>1, <1>2
<1>6. ASSUME NEW j \in 1 .. n
      PROVE  \/ CodeFrame(p, h, gs[j])
             \/ BuiltinFrame(p, h, gs[j]) /\ 1 < j /\ j < n /\ CodeFrame(p, h, gs[j - 1])
  <2>1. CASE j = n
    BY <1>5, <2>1
  <2>2. CASE j # n /\ CodeFrame(p, h, fs[j])
    BY <1>5, <2>2
  <2>3. CASE j # n /\ ~CodeFrame(p, h, fs[j])
    <3>1. BuiltinFrame(p, h, fs[j]) /\ 1 < j /\ j < n /\ CodeFrame(p, h, fs[j - 1])
      BY <2>3 DEF SoundStack, n
    <3>2. j - 1 \in 1 .. n /\ j - 1 # n
      BY <1>1, <3>1
    <3>. QED  BY <1>5, <2>3, <3>1, <3>2
  <2>. QED  BY <2>1, <2>2, <2>3
<1>7. SoundStack(p, h, gs)
  BY <1>1, <1>4, <1>6 DEF SoundStack
<1>8. LastOf(gs) = f
  BY <1>4, <1>5 DEF LastOf
<1>. QED  BY <1>4, <1>7, <1>8 DEF gs, n

LEMMA GotoSound ==
    ASSUME NEW p, NEW h, NEW fs, NEW pc, SoundStack(p, h, fs),
           pc \in DOMAIN CodeIn(p, LastOf(fs).fn)
    PROVE  /\ SoundStack(p, h, Goto(fs, pc))
           /\ LastOf(Goto(fs, pc)).fn = LastOf(fs).fn
           /\ LastOf(Goto(fs, pc)).regs = LastOf(fs).regs
           /\ LastOf(Goto(fs, pc)).pc = pc
           /\ Len(Goto(fs, pc)) = Len(fs)
<1>. DEFINE f == LastOf(fs)
            g == [f EXCEPT !.pc = pc]
<1>1. CodeFrame(p, h, f) /\ f = fs[Len(fs)] /\ Len(fs) \in DOMAIN fs
  BY StackFacts
<1>2. Goto(fs, pc) = [fs EXCEPT ![Len(fs)] = g]
  BY <1>1 DEF Goto
<1>. HIDE DEF f
<1>3. DOMAIN f = FrameFields
  BY <1>1 DEF CodeFrame
<1>4. /\ DOMAIN g = FrameFields /\ g.pc = pc /\ g.kind = f.kind /\ g.fn = f.fn
      /\ g.regs = f.regs /\ g.saved = f.saved
  BY <1>3 DEF FrameFields
<1>. HIDE DEF g
<1>5. CodeFrame(p, h, g)
  BY <1>1, <1>4 DEF CodeFrame, f
<1>6. /\ SoundStack(p, h, [fs EXCEPT ![Len(fs)] = g])
      /\ LastOf([fs EXCEPT ![Len(fs)] = g]) = g
      /\ Len([fs EXCEPT ![Len(fs)] = g]) = Len(fs)
  BY <1>5, LastReplaced
<1>. QED  BY <1>2, <1>4, <1>6 DEF f

LEMMA WithRegSound ==
    ASSUME NEW p, NEW h, NEW fs, NEW r, NEW v, SoundStack(p, h, fs), SoundValue(p, h, v)
    PROVE  /\ SoundStack(p, h, WithReg(fs, r, v))
           /\ LastOf(WithReg(fs, r, v)).fn = LastOf(fs).fn
           /\ LastOf(WithReg(fs, r, v)).pc = LastOf(fs).pc
           /\ Len(WithReg(fs, r, v)) = Len(fs)
<1>. DEFINE f == LastOf(fs)
            regs == [f.regs EXCEPT ![r] = v]
            g == [f EXCEPT !.regs = regs]
<1>1. CodeFrame(p, h, f) /\ f = fs[Len(fs)] /\ Len(fs) \in DOMAIN fs
  BY StackFacts
<1>2. WithReg(fs, r, v) = [fs EXCEPT ![Len(fs)] = g]
  BY <1>1 DEF WithReg
<1>. HIDE DEF f
<1>3. DOMAIN regs = DOMAIN f.regs /\ \A x \in DOMAIN regs : regs[x] = v \/ regs[x] = f.regs[x]
  OBVIOUS
<1>. HIDE DEF regs
<1>4. DOMAIN f = FrameFields
  BY <1>1 DEF CodeFrame
<1>5. /\ DOMAIN g = FrameFields /\ g.regs = regs /\ g.kind = f.kind /\ g.fn = f.fn
      /\ g.pc = f.pc /\ g.saved = f.saved
  BY <1>4 DEF FrameFields
<1>. HIDE DEF g
<1>6. CodeFrame(p, h, g)
  BY <1>1, <1>3, <1>5 DEF CodeFrame
<1>7. /\ SoundStack(p, h, [fs EXCEPT ![Len(fs)] = g])
      /\ LastOf([fs EXCEPT ![Len(fs)] = g]) = g
      /\ Len([fs EXCEPT ![Len(fs)] = g]) = Len(fs)
  BY <1>6, LastReplaced
<1>. QED  BY <1>2, <1>5, <1>7 DEF f

\* A new activation on top.
LEMMA PushSound ==
    ASSUME NEW p, NEW h, NEW fs, NEW f, SoundStack(p, h, fs), CodeFrame(p, h, f)
    PROVE  SoundStack(p, h, Append(fs, f))
<1>. DEFINE gs == Append(fs, f)
            n == Len(fs)
<1>1. IsSeq(fs) /\ n \in Nat \ {0}
  BY StackFacts
<1>2. /\ IsSeq(gs) /\ Len(gs) = n + 1
      /\ \A i \in 1 .. n : gs[i] = fs[i]
      /\ gs[n + 1] = f
  BY <1>1, AppendIsSeq
<1>. HIDE DEF gs
<1>3. ASSUME NEW j \in 1 .. n + 1
      PROVE  \/ CodeFrame(p, h, gs[j])
             \/ BuiltinFrame(p, h, gs[j]) /\ 1 < j /\ j < n + 1 /\ CodeFrame(p, h, gs[j - 1])
  <2>1. CASE j = n + 1
    BY <1>2, <2>1
  <2>2. CASE j # n + 1
    <3>1. j \in 1 .. n
      BY <1>1, <2>2
    <3>2. \/ CodeFrame(p, h, fs[j])
          \/ BuiltinFrame(p, h, fs[j]) /\ 1 < j /\ j < n /\ CodeFrame(p, h, fs[j - 1])
      BY <3>1 DEF SoundStack
    <3>3. 1 < j => j - 1 \in 1 .. n
      BY <3>1
    <3>. QED  BY <1>1, <1>2, <3>1, <3>2, <3>3
  <2>. QED  BY <2>1, <2>2
<1>. QED  BY <1>1, <1>2, <1>3 DEF SoundStack, gs

\* A builtin on top, and the activation of its callback on top of it.
LEMMA PushCallbackSound ==
    ASSUME NEW p, NEW h, NEW fs, NEW b, NEW f, SoundStack(p, h, fs),
           BuiltinFrame(p, h, b), CodeFrame(p, h, f)
    PROVE  SoundStack(p, h, Append(Append(fs, b), f))
<1>. DEFINE gs == Append(fs, b)
            hs == Append(gs, f)
            n == Len(fs)
<1>1. IsSeq(fs) /\ n \in Nat \ {0} /\ CodeFrame(p, h, fs[n])
  BY StackFacts
<1>2. /\ IsSeq(gs) /\ Len(gs) = n + 1
      /\ \A i \in 1 .. n : gs[i] = fs[i]
      /\ gs[n + 1] = b
  BY <1>1, AppendIsSeq
<1>. HIDE DEF gs
<1>3. /\ IsSeq(hs) /\ Len(hs) = Len(gs) + 1
      /\ \A i \in 1 .. Len(gs) : hs[i] = gs[i]
      /\ hs[Len(gs) + 1] = f
  BY <1>2, AppendIsSeq
<1>. HIDE DEF hs
<1>4. /\ Len(hs) = n + 2 /\ hs[n + 2] = f /\ hs[n + 1] = b
      /\ \A i \in 1 .. n : hs[i] = fs[i]
  <2>1. n + 1 \in 1 .. Len(gs) /\ \A i \in 1 .. n : i \in 1 .. Len(gs)
    BY <1>1, <1>2
  <2>2. Len(hs) = n + 2 /\ Len(gs) + 1 = n + 2
    BY <1>1, <1>2, <1>3
  <2>. QED  BY <1>2, <1>3, <2>1, <2>2
<1>5. ASSUME NEW j \in 1 .. n + 2
      PROVE  \/ CodeFrame(p, h, hs[j])
             \/ BuiltinFrame(p, h, hs[j]) /\ 1 < j /\ j < n + 2 /\ CodeFrame(p, h, hs[j - 1])
  <2>1. CASE j = n + 2
    BY <1>4, <2>1
  <2>2. CASE j = n + 1
    <3>1. j - 1 = n /\ n \in 1 .. n /\ 1 < j /\ j < n + 2
      BY <1>1, <2>2
    <3>. QED  BY <1>1, <1>4, <2>2, <3>1
  <2>3. CASE j # n + 1 /\ j # n + 2
    <3>1. j \in 1 .. n
      BY <1>1, <2>3
    <3>2. \/ CodeFrame(p, h, fs[j])
          \/ BuiltinFrame(p, h, fs[j]) /\ 1 < j /\ j < n /\ CodeFrame(p, h, fs[j - 1])
      BY <3>1 DEF SoundStack
    <3>3. 1 < j => j - 1 \in 1 .. n
      BY <3>1
    <3>. QED  BY <1>1, <1>4, <3>1, <3>2, <3>3
  <2>. QED  BY <2>1, <2>2, <2>3
<1>6. Len(hs) > 0
  BY <1>1, <1>4
<1>7. SoundStack(p, h, hs)
  BY <1>3, <1>4, <1>5, <1>6 DEF SoundStack
<1>. QED  BY <1>7 DEF hs, gs

\* The activations below the running one: none, those of a caller, or those
\* of a caller under a builtin that is waiting.
LEMMA PopSound ==
    ASSUME NEW p, NEW h, NEW fs, SoundStack(p, h, fs), Front1(fs) # << >>
    PROVE  LET gs == Front1(fs)
               caller == LastOf(gs)
           IN  /\ caller.kind = "code" => SoundStack(p, h, gs)
               /\ caller.kind # "code" =>
                    BuiltinFrame(p, h, caller) /\ SoundStack(p, h, Front1(gs))
               /\ IsSeq(gs) /\ Len(gs) \in Nat \ {0} /\ caller = gs[Len(gs)]
<1>. DEFINE gs == Front1(fs)
            hs == Front1(gs)
            n == Len(fs)
            caller == LastOf(gs)
<1>1. IsSeq(fs) /\ n \in Nat \ {0}
  BY StackFacts
<1>2. IsSeq(gs) /\ Len(gs) = n - 1 /\ \A i \in 1 .. n - 1 : gs[i] = fs[i]
  <2>. HIDE DEF n
  <2>1. n - 1 \in Int /\ n - 1 <= n /\ (IF n - 1 < 1 THEN 0 ELSE n - 1 - 1 + 1) = n - 1
    BY <1>1
  <2>2. /\ IsSeq(gs) /\ Len(gs) = n - 1
        /\ \A i \in DOMAIN gs : gs[i] = fs[1 + i - 1]
    BY <1>1, <2>1, SubSeqIsSeq DEF Front1, n
  <2>3. DOMAIN gs = 1 .. n - 1
    BY <2>2, SeqDomain
  <2>4. \A i \in 1 .. n - 1 : 1 + i - 1 = i
    BY <1>1
  <2>. QED  BY <2>2, <2>3, <2>4
<1>3. Front1(fs) = gs
  OBVIOUS
<1>. HIDE DEF gs, n
<1>4. n - 1 \in Nat \ {0}
  <2>1. ASSUME n - 1 = 0 PROVE FALSE
    <3>1. gs = << >>
      BY <1>2, <2>1, EmptySeq DEF IsSeq
    <3>. QED  BY <1>3, <3>1
  <2>. QED  BY <1>1, <2>1
<1>5. caller = gs[n - 1] /\ caller = fs[n - 1] /\ n - 1 \in 1 .. n
  BY <1>1, <1>2, <1>4 DEF LastOf
<1>6. \A j \in 1 .. n : \/ CodeFrame(p, h, fs[j])
                        \/ /\ BuiltinFrame(p, h, fs[j]) /\ 1 < j /\ j < n
                           /\ CodeFrame(p, h, fs[j - 1])
  BY DEF SoundStack, n
<1>7. \A f : CodeFrame(p, h, f) => f.kind = "code"
  BY DEF CodeFrame
<1>8. \A f : BuiltinFrame(p, h, f) => f.kind # "code"
  BY DEF BuiltinFrame
<1>. HIDE DEF caller
\* The first activations, as many as the last of them is one of a function.
<1>9. ASSUME NEW ks, NEW m \in Nat \ {0}, m <= n, IsSeq(ks), Len(ks) = m,
             \A i \in 1 .. m : ks[i] = fs[i], CodeFrame(p, h, fs[m])
      PROVE  SoundStack(p, h, ks)
  <2>1. ASSUME NEW j \in 1 .. m
        PROVE  \/ CodeFrame(p, h, ks[j])
               \/ BuiltinFrame(p, h, ks[j]) /\ 1 < j /\ j < m /\ CodeFrame(p, h, ks[j - 1])
    <3>1. CASE j = m
      BY <1>9, <3>1
    <3>2. CASE j # m
      <4>1. j \in 1 .. n /\ j < m /\ (1 < j => j - 1 \in 1 .. m)
        BY <1>1, <1>9, <3>2
      <4>. QED  BY <1>6, <1>9, <4>1
    <3>. QED  BY <3>1, <3>2
  <2>. QED  BY <1>9, <2>1 DEF SoundStack
<1>10. ASSUME caller.kind = "code" PROVE SoundStack(p, h, gs)
  <2>1. CodeFrame(p, h, fs[n - 1])
    BY <1>5, <1>6, <1>8, <1>10
  <2>2. n - 1 <= n
    BY <1>1
  <2>. QED  BY <1>2, <1>4, <1>9, <2>1, <2>2
<1>11. ASSUME caller.kind # "code"
       PROVE  BuiltinFrame(p, h, caller) /\ SoundStack(p, h, hs)
  <2>1. BuiltinFrame(p, h, fs[n - 1]) /\ 1 < n - 1 /\ CodeFrame(p, h, fs[n - 1 - 1])
    BY <1>5, <1>6, <1>7, <1>11
  <2>2. n - 2 \in Nat \ {0} /\ n - 1 - 1 = n - 2 /\ n - 2 <= n /\ n - 2 <= n - 1
    BY <1>1, <2>1
  <2>3. IsSeq(hs) /\ Len(hs) = n - 2 /\ \A i \in 1 .. n - 2 : hs[i] = fs[i]
    <3>1. /\ n - 2 \in Int /\ n - 2 <= Len(gs) /\ Len(gs) - 1 = n - 2
          /\ (IF n - 2 < 1 THEN 0 ELSE n - 2 - 1 + 1) = n - 2
      BY <1>1, <1>2, <2>2
    <3>2. /\ IsSeq(hs) /\ Len(hs) = n - 2
          /\ \A i \in DOMAIN hs : hs[i] = gs[1 + i - 1]
      BY <1>2, <3>1, SubSeqIsSeq DEF Front1
    <3>3. DOMAIN hs = 1 .. n - 2
      BY <3>2, SeqDomain
    <3>4. \A i \in 1 .. n - 2 : 1 + i - 1 = i /\ i \in 1 .. n - 1
      BY <1>1, <2>2
    <3>. QED  BY <1>2, <3>2, <3>3, <3>4
  <2>. HIDE DEF hs
  <2>4. SoundStack(p, h, hs)
    BY <1>9, <2>1, <2>2, <2>3
  <2>. QED  BY <1>5, <2>1, <2>4
<1>. QED  BY <1>2, <1>4, <1>5, <1>10, <1>11 DEF gs, hs, caller

-----------------------------------------------------------------------------
(***************************************************************************)
(* One instruction.                                                        *)
(***************************************************************************)

\* The code of a function of a sound program.
LEMMA CodeAt ==
    ASSUME NEW p, SoundProgram(p), NEW fn \in {0} \cup DOMAIN p.funcs
    PROVE  SoundCode(p, CodeIn(p, fn), RegistersIn(p, fn))
BY DEF SoundProgram, CodeIn, RegistersIn

\* What the machine may take on trust about the instruction it is at.
LEMMA AtInstruction ==
    ASSUME IInv, outcome = "running"
    PROVE  /\ SoundHeap(program, heap) /\ SoundSlots(program, heap, globals)
           /\ SoundStack(program, heap, frames) /\ CodeFrame(program, heap, Top)
           /\ DOMAIN globals = 0 .. program.globals - 1
           /\ CodeOf(Top) = CodeIn(program, Top.fn)
           /\ Top.pc \in DOMAIN CodeOf(Top) /\ Top.pc \in Nat
           /\ Operands(I) \subseteq 0 .. RegistersIn(program, Top.fn) - 1
           /\ Operands(I) \subseteq DOMAIN Top.regs
           /\ GlobalOperands(I) \subseteq DOMAIN globals
           /\ I.op \in JumpOps => I.to \in DOMAIN CodeOf(Top)
           /\ I.op \notin FinalOps => Top.pc + 1 \in DOMAIN CodeOf(Top)
           /\ I.op \in {"Array", "Hash", "Call", "CallGlobal", "CallMethod"} => I.a \in Nat /\ I.b \in Nat
           /\ I.op = "IteratorRest" => I.b \in Nat
           /\ I.op = "ObjectRest" => I.b \in Nat /\ I.m.v \in Nat
           /\ I.op = "MakeClosure" => I.k.v \in DOMAIN program.funcs
           /\ SoundValue(program, heap, I.k) /\ SoundValue(program, heap, I.m)
           /\ SoundCode(program, CodeOf(Top), RegistersIn(program, Top.fn))
<1>1. /\ SoundHeap(program, heap) /\ SoundSlots(program, heap, globals)
      /\ SoundStack(program, heap, frames)
      /\ DOMAIN globals = 0 .. program.globals - 1
      /\ SoundProgram(program)
  BY DEF IInv, SoundState, CodeIsSound
<1>2. CodeFrame(program, heap, Top)
  BY <1>1, StackFacts DEF Top
<1>3. CodeOf(Top) = CodeIn(program, Top.fn)
  BY DEF CodeOf, CodeIn
<1>4. /\ Top.fn \in {0} \cup DOMAIN program.funcs
      /\ Top.pc \in DOMAIN CodeOf(Top)
      /\ 0 .. RegistersIn(program, Top.fn) - 1 \subseteq DOMAIN Top.regs
  BY <1>2, <1>3 DEF CodeFrame
<1>5. SoundCode(program, CodeOf(Top), RegistersIn(program, Top.fn))
  BY <1>1, <1>3, <1>4, CodeAt
<1>6. /\ Top.pc \in Nat
      /\ SoundInstruction(program, CodeOf(Top), RegistersIn(program, Top.fn), Top.pc)
  BY <1>4, <1>5 DEF SoundCode
<1>7. \A k : SoundConstant(program, k) => SoundValue(program, heap, k)
  BY DEF SoundConstant, SoundValue
<1>8. /\ Operands(I) \subseteq 0 .. RegistersIn(program, Top.fn) - 1
      /\ Operands(I) \subseteq DOMAIN Top.regs
      /\ GlobalOperands(I) \subseteq DOMAIN globals
      /\ I.op \in JumpOps => I.to \in DOMAIN CodeOf(Top)
      /\ I.op \notin FinalOps => Top.pc + 1 \in DOMAIN CodeOf(Top)
      /\ I.op \in {"Array", "Hash", "Call", "CallGlobal", "CallMethod"} => I.a \in Nat /\ I.b \in Nat
      /\ I.op = "IteratorRest" => I.b \in Nat
      /\ I.op = "ObjectRest" => I.b \in Nat /\ I.m.v \in Nat
      /\ I.op = "MakeClosure" => I.k.v \in DOMAIN program.funcs
      /\ SoundConstant(program, I.k) /\ SoundConstant(program, I.m)
  BY <1>1, <1>4, <1>6 DEF SoundInstruction, I
<1>. QED  BY <1>1, <1>2, <1>3, <1>4, <1>5, <1>6, <1>7, <1>8

LEMMA RegSound ==
    ASSUME IInv, outcome = "running", NEW r \in Operands(I)
    PROVE  SoundValue(program, heap, Reg(r))
BY AtInstruction DEF CodeFrame, Reg

LEMMA GlobalSound ==
    ASSUME IInv, outcome = "running", NEW g \in GlobalOperands(I)
    PROVE  SoundValue(program, heap, globals[g])
BY AtInstruction DEF SoundSlots

LEMMA RegistersSound ==
    ASSUME IInv, outcome = "running", NEW base, NEW n \in Nat,
           \A i \in 1 .. n : base + i - 1 \in Operands(I)
    PROVE  SoundList(program, heap, Registers(base, n))
<1>1. Registers(base, n) = [i \in 1 .. n |-> Registers(base, n)[i]]
  BY DEF Registers
<1>2. \A i \in 1 .. n : SoundValue(program, heap, Registers(base, n)[i])
  BY RegSound DEF Registers
<1>. QED  BY <1>1, <1>2, ListOf

\* The machine stops.
LEMMA Ends ==
    ASSUME IInv, program' = program, outcome' # "running"
    PROVE  IInv'
BY DEF IInv, CodeIsSound

LEMMA FailedEnds ==
    ASSUME IInv, Failed
    PROVE  IInv'
BY Ends DEF Failed

\* The machine goes on in a sound state.
LEMMA GoesOn ==
    ASSUME IInv, program' = program, SoundState(program, heap', globals', frames')
    PROVE  IInv'
BY DEF IInv, CodeIsSound

LEMMA GrownSame ==
    ASSUME NEW p, NEW h, SoundHeap(p, h)
    PROVE  Grown(h, h)
BY DEF SoundHeap, Grown

\* The next instruction of the function.
LEMMA NextSound ==
    ASSUME IInv, outcome = "running", I.op \notin FinalOps
    PROVE  SoundStack(program, heap, Next1)
<1>1. Top.pc + 1 \in DOMAIN CodeIn(program, LastOf(frames).fn)
  BY AtInstruction DEF Top
<1>. QED  BY <1>1, AtInstruction, GotoSound DEF Next1

\* The next instruction, with a heap that grew.
LEMMA NextStep ==
    ASSUME IInv, outcome = "running", I.op \notin FinalOps,
           SoundHeap(program, heap'), Grown(heap, heap'), frames' = Next1,
           UNCHANGED <<program, globals>>
    PROVE  IInv'
<1>1. SoundStack(program, heap', frames')
  BY NextSound, StackGrown
<1>2. SoundSlots(program, heap', globals') /\ DOMAIN globals' = 0 .. program.globals - 1
  BY AtInstruction, SlotsGrown
<1>3. SoundState(program, heap', globals', frames')
  BY <1>1, <1>2 DEF SoundState
<1>. QED  BY <1>3, GoesOn

\* A register takes a value, on to the next instruction.
LEMMA PutStep1 ==
    ASSUME IInv, outcome = "running", I.op \notin FinalOps, NEW r, NEW v,
           SoundHeap(program, heap'), Grown(heap, heap'), SoundValue(program, heap', v),
           Put(r, v), UNCHANGED <<program, globals>>
    PROVE  IInv'
<1>1. SoundStack(program, heap', Next1)
  BY NextSound, StackGrown
<1>2. SoundStack(program, heap', frames')
  BY <1>1, WithRegSound DEF Put
<1>3. SoundSlots(program, heap', globals') /\ DOMAIN globals' = 0 .. program.globals - 1
  BY AtInstruction, SlotsGrown
<1>4. SoundState(program, heap', globals', frames')
  BY <1>2, <1>3 DEF SoundState
<1>. QED  BY <1>4, GoesOn

LEMMA PutOnly ==
    ASSUME IInv, outcome = "running", I.op \notin FinalOps, NEW r, NEW v,
           SoundValue(program, heap, v), Put(r, v), OnlyFrames
    PROVE  IInv'
<1>1. heap' = heap /\ UNCHANGED <<program, globals>>
  BY DEF OnlyFrames
<1>2. SoundHeap(program, heap') /\ Grown(heap, heap') /\ SoundValue(program, heap', v)
  BY <1>1, AtInstruction, GrownSame
<1>. QED  BY <1>1, <1>2, PutStep1

LEMMA PutNewStep ==
    ASSUME IInv, outcome = "running", I.op \notin FinalOps, NEW r, NEW c,
           SoundCell(program, heap, c), PutNew(r, c)
    PROVE  IInv'
<1>1. heap' = Allocated(heap, c) /\ Put(r, NewReference(heap)) /\ UNCHANGED <<program, globals>>
  BY DEF PutNew, OnlyHeapAndFrames
<1>2. SoundHeap(program, heap)
  BY AtInstruction
<1>3. /\ SoundHeap(program, heap') /\ Grown(heap, heap')
      /\ SoundValue(program, heap', NewReference(heap))
  BY <1>1, <1>2, AllocatedSound
<1>. QED  BY <1>1, <1>3, PutStep1

\* A jump, to the target or on.
LEMMA GotoStep ==
    ASSUME IInv, outcome = "running", NEW pc \in DOMAIN CodeOf(Top),
           frames' = Goto(frames, pc), OnlyFrames
    PROVE  IInv'
<1>1. UNCHANGED <<program, globals, heap>>
  BY DEF OnlyFrames
<1>2. pc \in DOMAIN CodeIn(program, LastOf(frames).fn)
  BY AtInstruction DEF Top
<1>3. SoundStack(program, heap, frames')
  BY <1>2, AtInstruction, GotoSound
<1>4. SoundState(program, heap', globals', frames')
  BY <1>1, <1>3, AtInstruction DEF SoundState
<1>. QED  BY <1>1, <1>4, GoesOn

-----------------------------------------------------------------------------
(***************************************************************************)
(* The actions: registers, globals, arithmetic, jumps.                     *)
(***************************************************************************)

LEMMA LoadKept == ASSUME IInv, Load PROVE IInv'
<1>1. /\ outcome = "running"
      /\ I.op \in {"LoadConst", "LoadTrue", "LoadFalse", "LoadNull", "LoadUndef", "Move", "GetGlobal"}
      /\ Put(I.dst, Loaded) /\ OnlyFrames
  BY DEF Load, Executing
<1>2. I.op \notin FinalOps
  BY <1>1 DEF FinalOps
<1>3. I.op = "Move" => I.a \in Operands(I)
  BY DEF Operands, ConstTests
<1>4. I.op = "GetGlobal" => I.a \in GlobalOperands(I)
  BY DEF GlobalOperands
<1>5. SoundValue(program, heap, Loaded)
  <2>1. CASE I.op = "LoadConst"
    BY <1>1, <2>1, AtInstruction DEF Loaded
  <2>2. CASE I.op \in {"LoadTrue", "LoadFalse", "LoadNull", "LoadUndef"}
    BY <2>2, PlainValues DEF Loaded
  <2>3. CASE I.op = "Move"
    BY <1>1, <1>3, <2>3, RegSound DEF Loaded
  <2>4. CASE I.op = "GetGlobal"
    BY <1>1, <1>4, <2>4, GlobalSound DEF Loaded
  <2>. QED  BY <1>1, <2>1, <2>2, <2>3, <2>4
<1>. QED  BY <1>1, <1>2, <1>5, PutOnly

LEMMA SetGlobalKept == ASSUME IInv, SetGlobal PROVE IInv'
<1>1. /\ outcome = "running" /\ I.op = "SetGlobal"
      /\ globals' = [globals EXCEPT ![I.a] = Reg(I.b)]
      /\ frames' = Next1 /\ UNCHANGED <<program, heap>>
  BY DEF SetGlobal, Executing
<1>2. I.op \notin FinalOps /\ I.b \in Operands(I)
  BY <1>1 DEF FinalOps, Operands, ConstTests
<1>3. SoundValue(program, heap, Reg(I.b))
  BY <1>1, <1>2, RegSound
<1>4. SoundHeap(program, heap) /\ SoundSlots(program, heap, globals)
      /\ DOMAIN globals = 0 .. program.globals - 1
  BY <1>1, AtInstruction
<1>5. SoundSlots(program, heap, globals') /\ DOMAIN globals' = 0 .. program.globals - 1
  BY <1>1, <1>3, <1>4 DEF SoundSlots
<1>6. SoundState(program, heap', globals', frames')
  BY <1>1, <1>2, <1>4, <1>5, NextSound DEF SoundState
<1>. QED  BY <1>1, <1>6, GoesOn

LEMMA BinaryKept == ASSUME IInv, Binary PROVE IInv'
<1>. DEFINE v == IF I.op \in ArithmeticOps THEN Arithmetic(I.op, Reg(I.a), Reg(I.b))
                 ELSE Boolean(Compare(I.op, Reg(I.a), Reg(I.b)))
<1>1. outcome = "running" /\ I.op \in ArithmeticOps \cup ComparisonOps /\ Put(I.dst, v) /\ OnlyFrames
  BY DEF Binary, Executing
<1>2. I.op \notin FinalOps
  BY <1>1 DEF FinalOps, ArithmeticOps, ComparisonOps
<1>3. Operands(I) = {I.dst, I.a, I.b}
  BY <1>1 DEF Operands, ConstTests, ArithmeticOps, ComparisonOps
<1>4. SoundValue(program, heap, Reg(I.a)) /\ SoundValue(program, heap, Reg(I.b))
  BY <1>1, <1>3, RegSound
<1>5. SoundValue(program, heap, v)
  BY <1>4, ArithmeticSound, PlainValues
<1>. HIDE DEF v
<1>. QED  BY <1>1, <1>2, <1>5, PutOnly

LEMMA UnaryKept == ASSUME IInv, Unary PROVE IInv'
<1>. DEFINE v == CASE I.op = "Neg" -> Negate(Reg(I.a))
                   [] I.op = "Not" -> Boolean(~IsTrue(Reg(I.a)))
                   [] I.op = "Typeof" -> Text(TypeofName(heap, Reg(I.a)))
                   [] I.op = "IsNullish" -> Boolean(IsNullish(Reg(I.a)))
<1>1. outcome = "running" /\ I.op \in {"Neg", "Not", "Typeof", "IsNullish"} /\ Put(I.dst, v) /\ OnlyFrames
  BY DEF Unary, Executing
<1>2. I.op \notin FinalOps
  BY <1>1 DEF FinalOps
<1>3. I.a \in Operands(I)
  BY <1>1 DEF Operands, ConstTests
<1>4. SoundValue(program, heap, Reg(I.a))
  BY <1>1, <1>3, RegSound
<1>5. SoundValue(program, heap, v)
  <2>1. CASE I.op = "Neg"
    BY <1>4, <2>1, NegateSound
  <2>2. CASE I.op = "Not"
    BY <2>2, PlainValues
  <2>3. CASE I.op = "Typeof"
    BY <2>3, PlainValues
  <2>4. CASE I.op = "IsNullish"
    BY <2>4, PlainValues
  <2>. QED  BY <1>1, <2>1, <2>2, <2>3, <2>4
<1>. HIDE DEF v
<1>. QED  BY <1>1, <1>2, <1>5, PutOnly

LEMMA AddConstKept == ASSUME IInv, AddConst PROVE IInv'
<1>1. outcome = "running" /\ I.op = "AddRegConst" /\ Put(I.dst, Add(Reg(I.a), I.k)) /\ OnlyFrames
  BY DEF AddConst, Executing
<1>2. I.op \notin FinalOps
  BY <1>1 DEF FinalOps
<1>3. I.a \in Operands(I)
  BY <1>1 DEF Operands, ConstTests
<1>4. SoundValue(program, heap, Reg(I.a)) /\ SoundValue(program, heap, I.k)
  BY <1>1, <1>3, RegSound, AtInstruction
<1>5. SoundValue(program, heap, Add(Reg(I.a), I.k))
  BY <1>4, AddSound
<1>. QED  BY <1>1, <1>2, <1>5, PutOnly

LEMMA JumpKept == ASSUME IInv, Jump PROVE IInv'
<1>1. outcome = "running" /\ I.op = "Jump" /\ frames' = Goto(frames, I.to) /\ OnlyFrames
  BY DEF Jump, Executing
<1>2. I.to \in DOMAIN CodeOf(Top)
  BY <1>1, AtInstruction DEF JumpOps
<1>. QED  BY <1>1, <1>2, GotoStep

\* A branch goes to its target or on, and both are in the code.
LEMMA BranchKept ==
    ASSUME IInv, outcome = "running", I.op \in JumpOps, I.op \notin FinalOps,
           NEW taken, Branch(taken)
    PROVE  IInv'
<1>. DEFINE pc == IF taken THEN I.to ELSE Top.pc + 1
<1>1. pc \in DOMAIN CodeOf(Top)
  BY AtInstruction
<1>2. frames' = Goto(frames, pc) /\ OnlyFrames
  BY DEF Branch
<1>. HIDE DEF pc
<1>. QED  BY <1>1, <1>2, GotoStep

LEMMA ConditionalJumpsKept ==
    ASSUME IInv, JumpIfNot \/ JumpIfTruthy \/ TestConstJump \/ ModTestJump
    PROVE  IInv'
<1>1. /\ outcome = "running"
      /\ I.op \in {"JumpIfNot", "JumpIfTruthy", "ModRegConstStrictEqConstJump"} \cup ConstTests
  BY DEF JumpIfNot, JumpIfTruthy, TestConstJump, ModTestJump, Executing
<1>2. \E taken : Branch(taken)
  BY DEF JumpIfNot, JumpIfTruthy, TestConstJump, ModTestJump
<1>3. I.op \in JumpOps /\ I.op \notin FinalOps
  BY <1>1 DEF JumpOps, FinalOps, ConstTests
<1>. QED  BY <1>1, <1>2, <1>3, BranchKept

\* The test at the start of the loop is done in the same step: its own target
\* and the instruction behind it are in the code too.
LEMMA IncrementAndJumpKept == ASSUME IInv, IncrementAndJump PROVE IInv'
<1>. DEFINE sum == Add(Reg(I.a), I.k)
            jumped == Goto(WithReg(frames, I.a, sum), I.to)
            test == CodeOf(Top)[I.to]
            tested == LastOf(jumped).regs[test.a]
            pc == IF Holds(test, tested) THEN I.to + 1 ELSE test.to
            code == CodeOf(Top)
<1>1. /\ outcome = "running" /\ I.op = "IncrementRegAndJump"
      /\ frames' = IF test.op \in ConstTests /\ IsNumber(tested) THEN Goto(jumped, pc) ELSE jumped
      /\ OnlyFrames
  BY DEF IncrementAndJump, Executing
<1>2. UNCHANGED <<program, globals, heap>>
  BY <1>1 DEF OnlyFrames
<1>3. I.to \in DOMAIN code /\ I.a \in Operands(I)
  BY <1>1, AtInstruction DEF JumpOps, Operands
<1>4. SoundValue(program, heap, sum)
  BY <1>1, <1>3, RegSound, AtInstruction, AddSound
<1>5. SoundStack(program, heap, frames) /\ code = CodeIn(program, LastOf(frames).fn)
  BY <1>1, AtInstruction DEF Top
<1>. HIDE DEF sum, test, tested, pc
<1>6. /\ SoundStack(program, heap, WithReg(frames, I.a, sum))
      /\ LastOf(WithReg(frames, I.a, sum)).fn = LastOf(frames).fn
  BY <1>4, <1>5, WithRegSound
<1>. HIDE DEF code
<1>7. SoundStack(program, heap, jumped) /\ LastOf(jumped).fn = LastOf(frames).fn
  BY <1>3, <1>5, <1>6, GotoSound
<1>8. ASSUME test.op \in ConstTests PROVE pc \in DOMAIN code
  <2>1. SoundInstruction(program, code, RegistersIn(program, Top.fn), I.to)
    BY <1>1, <1>3, AtInstruction DEF SoundCode, code
  <2>2. test.op \in JumpOps /\ test.op \notin FinalOps
    BY <1>8 DEF JumpOps, FinalOps, ConstTests
  <2>3. test.to \in DOMAIN code /\ I.to + 1 \in DOMAIN code
    BY <2>1, <2>2 DEF SoundInstruction, test, code
  <2>. QED  BY <2>3 DEF pc
<1>. HIDE DEF jumped
<1>9. SoundStack(program, heap, frames')
  <2>1. CASE test.op \in ConstTests /\ IsNumber(tested)
    <3>1. SoundStack(program, heap, Goto(jumped, pc))
      BY <1>5, <1>7, <1>8, <2>1, GotoSound
    <3>. QED  BY <1>1, <2>1, <3>1
  <2>2. CASE ~(test.op \in ConstTests /\ IsNumber(tested))
    BY <1>1, <1>7, <2>2
  <2>. QED  BY <2>1, <2>2
<1>10. SoundState(program, heap', globals', frames')
  BY <1>1, <1>2, <1>9, AtInstruction DEF SoundState
<1>. QED  BY <1>2, <1>10, GoesOn

-----------------------------------------------------------------------------
(***************************************************************************)
(* The actions: objects.                                                   *)
(***************************************************************************)

LEMMA MakeArrayKept == ASSUME IInv, MakeArray PROVE IInv'
<1>1. outcome = "running" /\ I.op = "Array" /\ PutNew(I.dst, ArrayCell(Registers(I.a, I.b)))
  BY DEF MakeArray, Executing
<1>2. I.op \notin FinalOps /\ Operands(I) = {I.dst} \cup I.a .. I.a + I.b - 1
  BY <1>1 DEF FinalOps, Operands, ConstTests
<1>3. I.a \in Nat /\ I.b \in Nat
  BY <1>1, AtInstruction
<1>4. \A i \in 1 .. I.b : I.a + i - 1 \in Operands(I)
  BY <1>2, <1>3
<1>5. SoundCell(program, heap, ArrayCell(Registers(I.a, I.b)))
  BY <1>1, <1>3, <1>4, RegistersSound, ArrayCellSound
<1>. QED  BY <1>1, <1>2, <1>5, PutNewStep

LEMMA MakeHashKept == ASSUME IInv, MakeHash PROVE IInv'
<1>1. outcome = "running" /\ I.op = "Hash" /\ PutNew(I.dst, HashOfPairs(heap, Registers(I.a, I.b)))
  BY DEF MakeHash, Executing
<1>2. I.op \notin FinalOps /\ Operands(I) = {I.dst} \cup I.a .. I.a + I.b - 1
  BY <1>1 DEF FinalOps, Operands, ConstTests
<1>3. I.a \in Nat /\ I.b \in Nat /\ SoundHeap(program, heap)
  BY <1>1, AtInstruction
<1>4. \A i \in 1 .. I.b : I.a + i - 1 \in Operands(I)
  BY <1>2, <1>3
<1>5. SoundCell(program, heap, HashOfPairs(heap, Registers(I.a, I.b)))
  BY <1>1, <1>3, <1>4, RegistersSound, HashOfPairsSound
<1>. QED  BY <1>1, <1>2, <1>5, PutNewStep

\* A closure captures slots that exist.
LEMMA MakeClosureKept == ASSUME IInv, MakeClosure PROVE IInv'
<1>. DEFINE captured == [g \in program.funcs[I.k.v].captures |-> globals[g]]
            c == [t |-> "closure", fn |-> I.k.v, captured |-> captured]
<1>1. outcome = "running" /\ I.op = "MakeClosure" /\ PutNew(I.dst, c)
  BY DEF MakeClosure, Executing
<1>2. I.op \notin FinalOps
  BY <1>1 DEF FinalOps
<1>3. I.k.v \in DOMAIN program.funcs /\ SoundSlots(program, heap, globals)
      /\ DOMAIN globals = 0 .. program.globals - 1
  BY <1>1, AtInstruction
<1>4. program.funcs[I.k.v].captures \subseteq 0 .. program.globals - 1
  BY <1>3 DEF IInv, CodeIsSound, SoundProgram
<1>5. SoundSlots(program, heap, captured)
  BY <1>3, <1>4 DEF SoundSlots
<1>. HIDE DEF captured
<1>6. c.t = "closure" /\ c.fn = I.k.v /\ c.captured = captured
  OBVIOUS
<1>. HIDE DEF c
<1>7. SoundCell(program, heap, c)
  BY <1>3, <1>5, <1>6 DEF SoundCell, IsClosureCell
<1>. QED  BY <1>1, <1>2, <1>7, PutNewStep

LEMMA AppendItemsKept == ASSUME IInv, AppendItems PROVE IInv'
<1>. DEFINE more == IF I.op = "AppendElement" THEN <<Reg(I.b)>> ELSE RestOf(heap, Reg(I.b), 0)
            iterable == I.op = "AppendElement" \/ IsArray(heap, Reg(I.b))
            items == Items(heap, Reg(I.a)) \o more
<1>1. outcome = "running" /\ I.op \in {"AppendElement", "AppendSpread"}
  BY DEF AppendItems, Executing
<1>2. I.op \notin FinalOps /\ Operands(I) = {I.a, I.b}
  BY <1>1 DEF FinalOps, Operands, ConstTests
<1>3. /\ SoundValue(program, heap, Reg(I.a)) /\ SoundValue(program, heap, Reg(I.b))
      /\ SoundHeap(program, heap)
  BY <1>1, <1>2, RegSound, AtInstruction
<1>4. SoundList(program, heap, more)
  <2>1. SoundList(program, heap, <<Reg(I.b)>>)
    <3>1. <<Reg(I.b)>> = Append(<< >>, Reg(I.b))
      OBVIOUS
    <3>2. SoundList(program, heap, Append(<< >>, Reg(I.b)))
      BY <1>3, EmptyListSound, AppendSound
    <3>. QED  BY <3>1, <3>2
  <2>2. SoundList(program, heap, RestOf(heap, Reg(I.b), 0))
    BY <1>3, RestOfSound
  <2>. QED  BY <2>1, <2>2
<1>5. CASE IsArray(heap, Reg(I.a)) /\ iterable
  <2>1. /\ heap' = [heap EXCEPT ![Reg(I.a).v].items = items]
        /\ frames' = Next1 /\ UNCHANGED <<program, globals>>
    BY <1>5 DEF AppendItems, OnlyHeapAndFrames, Items
  <2>. HIDE DEF more
  <2>2. SoundList(program, heap, items)
    BY <1>3, <1>4, <1>5, ArrayAt, ConcatSound
  <2>. HIDE DEF items
  <2>3. Grown(heap, heap') /\ SoundHeap(program, heap')
    <3>1. /\ Grown(heap, [heap EXCEPT ![Reg(I.a).v].items = items])
          /\ SoundHeap(program, [heap EXCEPT ![Reg(I.a).v].items = items])
      BY <1>3, <1>5, <2>2, ItemsReplaced
    <3>. QED  BY <2>1, <3>1, Zenon
  <2>. QED  BY <1>1, <1>2, <2>1, <2>3, NextStep
<1>6. CASE ~(IsArray(heap, Reg(I.a)) /\ iterable)
  <2>1. Failed
    BY <1>6 DEF AppendItems
  <2>. QED  BY <2>1, FailedEnds
<1>. QED  BY <1>5, <1>6

LEMMA GetPropertyKept == ASSUME IInv, GetProperty PROVE IInv'
<1>. DEFINE v == CASE I.op = "GetProp" -> ReadProperty(heap, Reg(I.a), I.k)
                   [] I.op = "GetGlobalProp" -> ReadProperty(heap, globals[I.a], I.k)
                   [] I.op = "Index" -> ReadProperty(heap, Reg(I.a), Reg(I.b))
<1>1. outcome = "running" /\ I.op \in {"GetProp", "GetGlobalProp", "Index"} /\ Put(I.dst, v) /\ OnlyFrames
  BY DEF GetProperty, Executing
<1>2. I.op \notin FinalOps
  BY <1>1 DEF FinalOps
<1>3. /\ I.op = "GetGlobalProp" => I.a \in GlobalOperands(I)
      /\ I.op # "GetGlobalProp" => I.a \in Operands(I)
  BY <1>1 DEF Operands, GlobalOperands, ConstTests
<1>4. SoundHeap(program, heap)
  BY <1>1, AtInstruction
<1>5. SoundValue(program, heap, v)
  <2>1. CASE I.op = "GetProp"
    BY <1>1, <1>3, <1>4, <2>1, RegSound, ReadSound
  <2>2. CASE I.op = "GetGlobalProp"
    BY <1>1, <1>3, <1>4, <2>2, GlobalSound, ReadSound
  <2>3. CASE I.op = "Index"
    BY <1>1, <1>3, <1>4, <2>3, RegSound, ReadSound
  <2>. QED  BY <1>1, <2>1, <2>2, <2>3
<1>. HIDE DEF v
<1>. QED  BY <1>1, <1>2, <1>5, PutOnly

\* A property of an object takes a value, on to the next instruction.
LEMMA WriteStep ==
    ASSUME IInv, outcome = "running", I.op \notin FinalOps, NEW obj, NEW key, NEW v,
           SoundValue(program, heap, obj), SoundValue(program, heap, key),
           SoundValue(program, heap, v), heap' = WriteProperty(heap, obj, key, v),
           frames' = Next1, OnlyHeapAndFrames
    PROVE  IInv'
<1>1. Grown(heap, heap') /\ SoundHeap(program, heap')
  BY AtInstruction, WriteSound
<1>. QED  BY <1>1, NextStep DEF OnlyHeapAndFrames

LEMMA SetPropertyKept == ASSUME IInv, SetProperty PROVE IInv'
<1>1. /\ outcome = "running" /\ I.op \in {"SetProp", "SetGlobalProp", "SetIndex"}
      /\ frames' = Next1 /\ OnlyHeapAndFrames
  BY DEF SetProperty, Executing
<1>2. I.op \notin FinalOps
  BY <1>1 DEF FinalOps
<1>3. /\ I.op = "SetGlobalProp" => I.a \in GlobalOperands(I)
      /\ I.op # "SetGlobalProp" => I.a \in Operands(I)
      /\ I.op = "SetIndex" => I.b \in Operands(I)
      /\ I.dst \in Operands(I)
  BY <1>1 DEF Operands, GlobalOperands, ConstTests
<1>4. SoundValue(program, heap, I.k) /\ SoundValue(program, heap, Reg(I.dst))
  BY <1>1, <1>3, AtInstruction, RegSound
<1>5. CASE I.op = "SetProp"
  <2>1. heap' = WriteProperty(heap, Reg(I.a), I.k, Reg(I.dst))
    BY <1>5 DEF SetProperty
  <2>2. SoundValue(program, heap, Reg(I.a))
    BY <1>1, <1>3, <1>5, RegSound
  <2>. QED  BY <1>1, <1>2, <1>4, <2>1, <2>2, WriteStep
<1>6. CASE I.op = "SetGlobalProp"
  <2>1. heap' = WriteProperty(heap, globals[I.a], I.k, Reg(I.dst))
    BY <1>6 DEF SetProperty
  <2>2. SoundValue(program, heap, globals[I.a])
    BY <1>1, <1>3, <1>6, GlobalSound
  <2>. QED  BY <1>1, <1>2, <1>4, <2>1, <2>2, WriteStep
<1>7. CASE I.op = "SetIndex"
  <2>1. heap' = WriteProperty(heap, Reg(I.a), Reg(I.b), Reg(I.dst))
    BY <1>7 DEF SetProperty
  <2>2. SoundValue(program, heap, Reg(I.a)) /\ SoundValue(program, heap, Reg(I.b))
    BY <1>1, <1>3, <1>7, RegSound
  <2>. QED  BY <1>1, <1>2, <1>4, <2>1, <2>2, WriteStep
<1>. QED  BY <1>1, <1>5, <1>6, <1>7

LEMMA DeletePropKept == ASSUME IInv, DeleteProp PROVE IInv'
<1>1. /\ outcome = "running" /\ I.op = "DeleteProp"
      /\ heap' = DeleteProperty(heap, Reg(I.a), Reg(I.b))
      /\ Put(I.dst, TRUE_VALUE) /\ UNCHANGED <<program, globals>>
  BY DEF DeleteProp, Executing, OnlyHeapAndFrames
<1>2. I.op \notin FinalOps /\ I.a \in Operands(I)
  BY <1>1 DEF FinalOps, Operands, ConstTests
<1>3. Grown(heap, heap') /\ SoundHeap(program, heap')
  BY <1>1, <1>2, AtInstruction, RegSound, DeleteSound
<1>4. SoundValue(program, heap', TRUE_VALUE)
  BY PlainValues
<1>. QED  BY <1>1, <1>2, <1>3, <1>4, PutStep1

LEMMA AddConstToPropKept == ASSUME IInv, AddConstToProp PROVE IInv'
<1>. DEFINE v == Add(ReadProperty(heap, Reg(I.a), I.k), I.m)
<1>1. /\ outcome = "running" /\ I.op = "AddConstToRegProp"
      /\ heap' = WriteProperty(heap, Reg(I.a), I.k, v)
      /\ frames' = Next1 /\ OnlyHeapAndFrames
  BY DEF AddConstToProp, Executing
<1>2. I.op \notin FinalOps /\ I.a \in Operands(I)
  BY <1>1 DEF FinalOps, Operands, ConstTests
<1>3. /\ SoundValue(program, heap, Reg(I.a)) /\ SoundValue(program, heap, I.k)
      /\ SoundValue(program, heap, I.m) /\ SoundHeap(program, heap)
  BY <1>1, <1>2, AtInstruction, RegSound
<1>4. SoundValue(program, heap, v)
  BY <1>3, ReadSound, AddSound
<1>. HIDE DEF v
<1>. QED  BY <1>1, <1>2, <1>3, <1>4, WriteStep

LEMMA AddPropsToPropKept == ASSUME IInv, AddPropsToProp PROVE IInv'
<1>. DEFINE x == ReadProperty(heap, Reg(I.a), Text(I.s[1]))
            y == ReadProperty(heap, Reg(I.a), Text(I.s[2]))
            v == Add(x, y)
<1>1. /\ outcome = "running" /\ I.op = "AddRegPropsToRegProp"
      /\ heap' = WriteProperty(heap, Reg(I.a), I.k, v)
      /\ frames' = Next1 /\ OnlyHeapAndFrames
  BY DEF AddPropsToProp, Executing
<1>2. I.op \notin FinalOps /\ I.a \in Operands(I)
  BY <1>1 DEF FinalOps, Operands, ConstTests
<1>3. /\ SoundValue(program, heap, Reg(I.a)) /\ SoundValue(program, heap, I.k)
      /\ SoundHeap(program, heap)
  BY <1>1, <1>2, AtInstruction, RegSound
<1>4. SoundValue(program, heap, v)
  BY <1>3, ReadSound, AddSound
<1>. HIDE DEF v
<1>. QED  BY <1>1, <1>2, <1>3, <1>4, WriteStep

LEMMA IteratorRestKept == ASSUME IInv, IteratorRest PROVE IInv'
<1>1. /\ outcome = "running" /\ I.op = "IteratorRest"
      /\ PutNew(I.dst, ArrayCell(RestOf(heap, Reg(I.a), I.b)))
  BY DEF IteratorRest, Executing
<1>2. I.op \notin FinalOps /\ I.a \in Operands(I)
  BY <1>1 DEF FinalOps, Operands, ConstTests
<1>3. SoundValue(program, heap, Reg(I.a)) /\ SoundHeap(program, heap) /\ I.b \in Nat
  BY <1>1, <1>2, AtInstruction, RegSound
<1>4. SoundCell(program, heap, ArrayCell(RestOf(heap, Reg(I.a), I.b)))
  BY <1>3, RestOfSound, ArrayCellSound
<1>. QED  BY <1>1, <1>2, <1>4, PutNewStep

LEMMA GetKeysIterKept == ASSUME IInv, GetKeysIter PROVE IInv'
<1>1. /\ outcome = "running" /\ I.op = "GetKeysIter"
      /\ PutNew(I.dst, ArrayCell(PropertyNames(heap, Reg(I.a))))
  BY DEF GetKeysIter, Executing
<1>2. I.op \notin FinalOps /\ I.a \in Operands(I)
  BY <1>1 DEF FinalOps, Operands, ConstTests
<1>3. SoundValue(program, heap, Reg(I.a)) /\ SoundHeap(program, heap)
  BY <1>1, <1>2, AtInstruction, RegSound
<1>4. SoundCell(program, heap, ArrayCell(PropertyNames(heap, Reg(I.a))))
  BY <1>3, PropertyNamesSound, ArrayCellSound
<1>. QED  BY <1>1, <1>2, <1>4, PutNewStep

LEMMA ObjectRestKept == ASSUME IInv, ObjectRest PROVE IInv'
<1>. DEFINE keys == Registers(I.b, I.m.v)
            c == WithoutKeys(heap, Reg(I.a), {KeyOf(keys[i]) : i \in DOMAIN keys})
<1>1. outcome = "running" /\ I.op = "ObjectRest" /\ PutNew(I.dst, c)
  BY DEF ObjectRest, Executing
<1>2. I.op \notin FinalOps /\ I.a \in Operands(I)
  BY <1>1 DEF FinalOps, Operands, ConstTests
<1>3. SoundValue(program, heap, Reg(I.a)) /\ SoundHeap(program, heap)
  BY <1>1, <1>2, AtInstruction, RegSound
<1>4. SoundCell(program, heap, c)
  BY <1>3, WithoutKeysSound
<1>. HIDE DEF c
<1>. QED  BY <1>1, <1>2, <1>4, PutNewStep

-----------------------------------------------------------------------------
(***************************************************************************)
(* The actions: calls.                                                     *)
(***************************************************************************)

LEMMA OverSound ==
    ASSUME NEW p, NEW h, NEW new, NEW old, SoundSlots(p, h, new), SoundSlots(p, h, old)
    PROVE  SoundSlots(p, h, Over(new, old)) /\ DOMAIN Over(new, old) = DOMAIN new \cup DOMAIN old
<1>. DEFINE f == Over(new, old)
<1>1. /\ DOMAIN f = DOMAIN new \cup DOMAIN old
      /\ \A x \in DOMAIN f : f[x] = IF x \in DOMAIN new THEN new[x] ELSE old[x]
  BY DEF Over
<1>. HIDE DEF f
<1>. QED  BY <1>1 DEF SoundSlots, f

\* A value that may be called is a function of the program.
LEMMA CalleeSound ==
    ASSUME NEW callee, SoundHeap(program, heap), SoundValue(program, heap, callee),
           IsCallable(heap, callee)
    PROVE  /\ FunctionIn(callee) \in DOMAIN program.funcs
           /\ SoundSlots(program, heap, CapturedIn(callee))
<1>1. CASE callee.k = "fn"
  <2>1. DOMAIN << >> = {}
    OBVIOUS
  <2>. QED  BY <1>1, <2>1 DEF SoundValue, FunctionIn, CapturedIn, SoundSlots
<1>2. CASE callee.k # "fn"
  <2>1. callee.v \in DOMAIN heap /\ heap[callee.v].t = "closure"
    BY <1>2 DEF IsCallable, IsObject, SoundValue
  <2>2. IsClosureCell(program, heap, heap[callee.v])
    BY <2>1 DEF SoundHeap, SoundCell, IsArrayCell, IsHashCell
  <2>. QED  BY <1>2, <2>2 DEF IsClosureCell, FunctionIn, CapturedIn
<1>. QED  BY <1>1, <1>2

\* The heap with the rest array of a call.
LEMMA RestHeapSound ==
    ASSUME NEW h, NEW fn, NEW args, SoundHeap(program, h), SoundList(program, h, args),
           program.funcs[fn].rest \in Nat
    PROVE  /\ Grown(h, RestHeap(h, fn, args)) /\ SoundHeap(program, RestHeap(h, fn, args))
           /\ program.funcs[fn].rest # 0 => SoundValue(program, RestHeap(h, fn, args), NewReference(h))
<1>. DEFINE rest == program.funcs[fn].rest
<1>1. CASE rest = 0
  BY <1>1, GrownSame DEF RestHeap
<1>2. CASE rest # 0
  <2>. DEFINE c == ArrayCell(SubSeq(args, rest, Len(args)))
  <2>1. SoundCell(program, h, c)
    BY <1>2, SubSeqSound, ArrayCellSound
  <2>2. RestHeap(h, fn, args) = Allocated(h, c)
    BY <1>2 DEF RestHeap
  <2>. HIDE DEF c
  <2>. QED  BY <2>1, <2>2, AllocatedSound
<1>. QED  BY <1>1, <1>2

\* A call writes all the registers of the new activation, and perhaps more.
LEMMA WindowSound ==
    ASSUME NEW h, NEW g, NEW fn, NEW this, NEW args, Grown(h, g),
           SoundValue(program, h, this), SoundList(program, h, args),
           program.funcs[fn].rest \in Nat,
           program.funcs[fn].rest # 0 => SoundValue(program, g, NewReference(h))
    PROVE  /\ 0 .. program.funcs[fn].registers - 1 \subseteq DOMAIN Window(h, fn, this, args)
           /\ \A r \in DOMAIN Window(h, fn, this, args) :
                SoundValue(program, g, Window(h, fn, this, args)[r])
<1>. DEFINE f == program.funcs[fn]
            offset == IF f.takesThis THEN 1 ELSE 0
            positional == IF f.rest = 0 THEN Len(args)
                          ELSE IF Len(args) < f.rest - 1 THEN Len(args) ELSE f.rest - 1
            Content(r) ==
                CASE f.takesThis /\ r = 0 -> this
                  [] f.rest # 0 /\ r = offset + f.rest - 1 -> NewReference(h)
                  [] r - offset \in 0 .. positional - 1 -> args[r - offset + 1]
                  [] OTHER -> UNDEFINED
            written == (0 .. f.registers - 1) \union (offset .. offset + positional - 1)
                           \union {r \in {offset + f.rest - 1} : f.rest # 0}
<1>1. Window(h, fn, this, args) = [r \in written |-> Content(r)]
  BY DEF Window
<1>2. Len(args) \in Nat /\ DOMAIN args = 1 .. Len(args)
  BY SeqDomain DEF SoundList
<1>3. positional \in Int /\ positional <= Len(args) /\ offset \in Int
  BY <1>2
<1>4. SoundValue(program, g, this) /\ SoundValue(program, g, UNDEFINED)
  BY ValueGrown, PlainValues
<1>5. \A i \in DOMAIN args : SoundValue(program, g, args[i])
  BY ValueGrown DEF SoundList
<1>6. ASSUME NEW r \in written PROVE SoundValue(program, g, Content(r))
  <2>. HIDE DEF positional, offset, f
  <2>1. ASSUME r - offset \in 0 .. positional - 1 PROVE SoundValue(program, g, args[r - offset + 1])
    <3>1. r \in Int
      OBVIOUS
    <3>2. r - offset + 1 \in 1 .. Len(args)
      BY <1>2, <1>3, <2>1, <3>1
    <3>. QED  BY <1>2, <1>5, <3>2
  <2>2. f.rest # 0 => SoundValue(program, g, NewReference(h))
    BY DEF f
  <2>3. \/ Content(r) = this
        \/ f.rest # 0 /\ Content(r) = NewReference(h)
        \/ r - offset \in 0 .. positional - 1 /\ Content(r) = args[r - offset + 1]
        \/ Content(r) = UNDEFINED
    OBVIOUS
  <2>. QED  BY <1>4, <2>1, <2>2, <2>3
<1>. QED  BY <1>1, <1>6

LEMMA FrameSound ==
    ASSUME NEW h, NEW fn, NEW regs, NEW dst, NEW saved, CodeIsSound,
           fn \in DOMAIN program.funcs,
           0 .. program.funcs[fn].registers - 1 \subseteq DOMAIN regs,
           \A r \in DOMAIN regs : SoundValue(program, h, regs[r]),
           SoundSlots(program, h, saved)
    PROVE  CodeFrame(program, h, Frame(fn, regs, dst, saved))
<1>. DEFINE f == Frame(fn, regs, dst, saved)
<1>1. /\ DOMAIN f = FrameFields /\ f.kind = "code" /\ f.fn = fn /\ f.pc = 1
      /\ f.regs = regs /\ f.saved = saved
  BY DEF Frame, FrameFields
<1>2. fn # 0
  BY DEF CodeIsSound, SoundProgram
<1>3. CodeIn(program, fn) = program.funcs[fn].code /\ RegistersIn(program, fn) = program.funcs[fn].registers
  BY <1>2 DEF CodeIn, RegistersIn
<1>4. 1 \in DOMAIN program.funcs[fn].code
  BY DEF CodeIsSound, SoundProgram, SoundCode
<1>. HIDE DEF f
<1>. QED  BY <1>1, <1>3, <1>4 DEF CodeFrame, f

\* A call makes an activation of a function of the program.
LEMMA EnterSound ==
    ASSUME CodeIsSound, NEW fs, NEW h, NEW callee, NEW this, NEW args, NEW dst, NEW inject,
           SoundHeap(program, heap), SoundHeap(program, h), Grown(heap, h),
           SoundSlots(program, heap, globals), DOMAIN globals = 0 .. program.globals - 1,
           SoundValue(program, heap, callee), IsCallable(heap, callee),
           SoundValue(program, h, this), SoundList(program, h, args),
           Enter(fs, h, callee, this, args, dst, inject)
    PROVE  /\ \E f : frames' = Append(fs, f) /\ CodeFrame(program, heap', f)
           /\ Grown(h, heap') /\ SoundHeap(program, heap')
           /\ SoundSlots(program, heap', globals') /\ DOMAIN globals' = 0 .. program.globals - 1
           /\ UNCHANGED program
<1>. DEFINE fn == FunctionIn(callee)
            captured == IF inject THEN CapturedIn(callee) ELSE << >>
            saved == [g \in DOMAIN captured |-> globals[g]]
            regs == Window(h, fn, this, args)
<1>1. /\ frames' = Append(fs, Frame(fn, regs, dst, saved))
      /\ heap' = RestHeap(h, fn, args)
      /\ globals' = Over(captured, globals)
      /\ UNCHANGED program
  BY DEF Enter
<1>2. fn \in DOMAIN program.funcs /\ SoundSlots(program, heap, captured)
  <2>1. DOMAIN << >> = {}
    OBVIOUS
  <2>2. SoundSlots(program, heap, << >>)
    BY <2>1 DEF SoundSlots
  <2>. QED  BY <2>2, CalleeSound
<1>. HIDE DEF fn, captured
<1>3. program.funcs[fn].rest \in Nat
  BY <1>2 DEF CodeIsSound, SoundProgram
<1>4. /\ Grown(h, heap') /\ SoundHeap(program, heap')
      /\ program.funcs[fn].rest # 0 => SoundValue(program, heap', NewReference(h))
  BY <1>1, <1>3, RestHeapSound
<1>5. Grown(heap, heap')
  BY <1>4 DEF Grown
<1>6. /\ 0 .. program.funcs[fn].registers - 1 \subseteq DOMAIN regs
      /\ \A r \in DOMAIN regs : SoundValue(program, heap', regs[r])
  BY <1>3, <1>4, WindowSound
<1>7. SoundSlots(program, heap, saved)
  BY <1>2 DEF SoundSlots
<1>. HIDE DEF regs, saved
<1>8. CodeFrame(program, heap', Frame(fn, regs, dst, saved))
  BY <1>2, <1>5, <1>6, <1>7, SlotsGrown, FrameSound
<1>9. SoundSlots(program, heap, globals') /\ DOMAIN globals' = 0 .. program.globals - 1
  <2>1. /\ SoundSlots(program, heap, Over(captured, globals))
        /\ DOMAIN Over(captured, globals) = DOMAIN captured \cup DOMAIN globals
    <3>1. SoundSlots(program, heap, Over(captured, globals))
      BY <1>2, OverSound
    <3>. QED  BY <3>1 DEF Over
  <2>2. DOMAIN captured \subseteq 0 .. program.globals - 1
    BY <1>2 DEF SoundSlots
  <2>. QED  BY <1>1, <2>1, <2>2
<1>. QED  BY <1>1, <1>4, <1>5, <1>8, <1>9, SlotsGrown

LEMMA InvokeKept ==
    ASSUME IInv, outcome = "running", I.op \notin FinalOps,
           NEW callee, NEW this, NEW args, NEW dst, NEW inject,
           SoundValue(program, heap, callee), SoundValue(program, heap, this),
           SoundList(program, heap, args), Invoke(callee, this, args, dst, inject)
    PROVE  IInv'
<1>1. CASE IsCallable(heap, callee)
  <2>1. Enter(Next1, heap, callee, this, args, dst, inject)
    BY <1>1 DEF Invoke
  <2>2. /\ CodeIsSound /\ SoundHeap(program, heap) /\ Grown(heap, heap)
        /\ SoundSlots(program, heap, globals) /\ DOMAIN globals = 0 .. program.globals - 1
    BY AtInstruction, GrownSame DEF IInv
  <2>3. /\ \E f : frames' = Append(Next1, f) /\ CodeFrame(program, heap', f)
        /\ Grown(heap, heap') /\ SoundHeap(program, heap')
        /\ SoundSlots(program, heap', globals') /\ DOMAIN globals' = 0 .. program.globals - 1
        /\ UNCHANGED program
    BY <1>1, <2>1, <2>2, EnterSound
  <2>4. SoundStack(program, heap', Next1)
    BY <2>3, NextSound, StackGrown
  <2>5. SoundState(program, heap', globals', frames')
    BY <2>3, <2>4, PushSound DEF SoundState
  <2>. QED  BY <2>3, <2>5, GoesOn
<1>2. CASE ~IsCallable(heap, callee)
  BY <1>2, FailedEnds DEF Invoke
<1>. QED  BY <1>1, <1>2

\* The arguments of a call are in the registers behind its operand a.
LEMMA ArgumentsSound ==
    ASSUME IInv, outcome = "running", I.op \in {"Call", "CallGlobal", "CallMethod"}
    PROVE  SoundList(program, heap, Registers(I.a + 1, I.b))
<1>1. I.a \in Nat /\ I.b \in Nat
  BY AtInstruction
<1>2. I.a + 1 .. I.a + I.b \subseteq Operands(I)
  BY <1>1 DEF Operands, ConstTests
<1>3. \A i \in 1 .. I.b : I.a + 1 + i - 1 \in Operands(I)
  BY <1>1, <1>2
<1>. QED  BY <1>1, <1>3, RegistersSound

LEMMA CallsKept == ASSUME IInv, CallAny \/ CallGlobal \/ CallSpread PROVE IInv'
<1>1. outcome = "running" /\ I.op \in {"Call", "CallGlobal", "CallSpread"}
  BY DEF CallAny, CallGlobal, CallSpread, Executing
<1>2. I.op \notin FinalOps
  BY <1>1 DEF FinalOps
<1>3. SoundValue(program, heap, UNDEFINED) /\ SoundHeap(program, heap)
  BY <1>1, AtInstruction, PlainValues
<1>4. CASE CallAny
  <2>1. I.op = "Call" /\ Invoke(Reg(I.a), UNDEFINED, Registers(I.a + 1, I.b), I.dst, TRUE)
    BY <1>4 DEF CallAny, Executing
  <2>2. I.a \in Nat /\ I.b \in Nat
    BY <1>1, <2>1, AtInstruction
  <2>3. I.a \in Operands(I)
    BY <2>1, <2>2 DEF Operands, ConstTests
  <2>. QED  BY <1>1, <1>2, <1>3, <2>1, <2>3, RegSound, ArgumentsSound, InvokeKept
<1>5. CASE CallGlobal
  <2>1. I.op = "CallGlobal" /\ Invoke(globals[I.to], UNDEFINED, Registers(I.a + 1, I.b), I.dst, FALSE)
    BY <1>5 DEF CallGlobal, Executing
  <2>2. I.to \in GlobalOperands(I)
    BY <2>1 DEF GlobalOperands
  <2>. QED  BY <1>1, <1>2, <1>3, <2>1, <2>2, GlobalSound, ArgumentsSound, InvokeKept
<1>6. CASE CallSpread
  <2>1. /\ I.op = "CallSpread"
        /\ Invoke(Reg(I.a), UNDEFINED, RestOf(heap, Reg(I.b), 0), I.dst, FALSE)
    BY <1>6 DEF CallSpread, Executing
  <2>2. I.a \in Operands(I) /\ I.b \in Operands(I)
    BY <2>1 DEF Operands, ConstTests
  <2>3. SoundList(program, heap, RestOf(heap, Reg(I.b), 0))
    BY <1>1, <1>3, <2>2, RegSound, RestOfSound
  <2>. QED  BY <1>1, <1>2, <1>3, <2>1, <2>2, <2>3, RegSound, InvokeKept
<1>. QED  BY <1>4, <1>5, <1>6

LEMMA CallBuiltinKept == ASSUME IInv, CallBuiltin PROVE IInv'
<1>1. outcome = "running" /\ I.op = "CallMethod"
  BY DEF CallBuiltin, Executing
<1>2. I.a \in Nat /\ I.b \in Nat /\ SoundHeap(program, heap)
  BY <1>1, AtInstruction
<1>3. I.op \notin FinalOps /\ Operands(I) = {I.dst} \cup I.a .. I.a + I.b
  BY <1>1 DEF FinalOps, Operands, ConstTests
<1>4. SoundValue(program, heap, Receiver)
  <2>1. I.a \in Operands(I)
    BY <1>2, <1>3
  <2>. QED  BY <1>1, <2>1, RegSound DEF Receiver
<1>5. SoundList(program, heap, Arguments)
  BY <1>1, ArgumentsSound DEF Arguments
<1>6. SoundValue(program, heap, FirstArgument)
  <2>1. I.b # 0 => I.a + 1 \in Operands(I)
    BY <1>2, <1>3
  <2>. QED  BY <1>1, <2>1, RegSound, PlainValues DEF FirstArgument
<1>7. CASE Put(I.dst, UNDEFINED) /\ UNCHANGED <<program, globals, heap>>
  <2>1. SoundHeap(program, heap') /\ Grown(heap, heap') /\ SoundValue(program, heap', UNDEFINED)
    BY <1>2, <1>7, GrownSame, PlainValues
  <2>. QED  BY <1>1, <1>3, <1>7, <2>1, PutStep1
<1>8. CASE PutNew(I.dst, ArrayCell(RestOf(heap, FirstArgument, 0)))
  <2>1. SoundCell(program, heap, ArrayCell(RestOf(heap, FirstArgument, 0)))
    BY <1>2, <1>6, RestOfSound, ArrayCellSound
  <2>. QED  BY <1>1, <1>3, <1>8, <2>1, PutNewStep
<1>9. CASE /\ IsArray(heap, Receiver)
           /\ heap' = [heap EXCEPT ![Receiver.v].items = @ \o Arguments]
           /\ Put(I.dst, Number(Len(Items(heap, Receiver)) + I.b))
           /\ OnlyHeapAndFrames
  <2>. DEFINE items == Items(heap, Receiver) \o Arguments
              n == Len(Items(heap, Receiver)) + I.b
  <2>1. heap' = [heap EXCEPT ![Receiver.v].items = items]
    BY <1>9 DEF Items
  <2>2. SoundList(program, heap, Items(heap, Receiver))
    BY <1>2, <1>4, <1>9, ArrayAt
  <2>3. SoundList(program, heap, items)
    BY <1>5, <2>2, ConcatSound
  <2>4. n \in Int
    BY <1>2, <2>2, SeqDomain DEF SoundList
  <2>. HIDE DEF items
  <2>5. /\ Grown(heap, [heap EXCEPT ![Receiver.v].items = items])
        /\ SoundHeap(program, [heap EXCEPT ![Receiver.v].items = items])
    BY <1>2, <1>4, <1>9, <2>3, ItemsReplaced
  <2>6. Grown(heap, heap') /\ SoundHeap(program, heap')
    BY <2>1, <2>5, Zenon
  <2>7. Put(I.dst, Number(n)) /\ UNCHANGED <<program, globals>>
    BY <1>9 DEF OnlyHeapAndFrames
  <2>. HIDE DEF n
  <2>8. SoundValue(program, heap', Number(n))
    BY <2>4, PlainValues
  <2>. QED  BY <1>1, <1>3, <2>6, <2>7, <2>8, PutStep1
<1>. QED  BY <1>7, <1>8, <1>9 DEF CallBuiltin

LEMMA CallPropertyKept == ASSUME IInv, CallProperty PROVE IInv'
<1>. DEFINE callee == ReadProperty(heap, Receiver, I.k)
<1>1. outcome = "running" /\ I.op = "CallMethod" /\ Invoke(callee, Receiver, Arguments, I.dst, FALSE)
  BY DEF CallProperty, Executing
<1>2. I.a \in Nat /\ I.b \in Nat /\ SoundHeap(program, heap)
  BY <1>1, AtInstruction
<1>3. I.op \notin FinalOps /\ I.a \in Operands(I)
  BY <1>1, <1>2 DEF FinalOps, Operands, ConstTests
<1>4. SoundValue(program, heap, Receiver)
  BY <1>1, <1>3, RegSound DEF Receiver
<1>5. SoundValue(program, heap, callee)
  BY <1>2, <1>4, ReadSound
<1>6. SoundList(program, heap, Arguments)
  BY <1>1, ArgumentsSound DEF Arguments
<1>. HIDE DEF callee
<1>. QED  BY <1>1, <1>3, <1>4, <1>5, <1>6, InvokeKept

\* map and forEach leave the builtin under the activation of its callback.
LEMMA CallWithCallbackKept == ASSUME IInv, CallWithCallback PROVE IInv'
<1>. DEFINE callee == FirstArgument
            items == Items(heap, Receiver)
            keep == I.k.s = "map"
            third == MaySeeThird(callee)
            copied == IF third THEN Allocated(heap, ArrayCell(items)) ELSE heap
            more == IF third THEN <<NewReference(heap)>> ELSE <<>>
            b == NativeFrame(callee, items, more, I.dst, keep)
            args == <<items[1], Number(0)>> \o more
            refused == I.b = 0 \/ (items # <<>> /\ ~IsCallable(heap, callee))
<1>1. /\ outcome = "running" /\ I.op = "CallMethod" /\ IsArray(heap, Receiver)
      /\ refused => Failed
      /\ ~refused /\ items # <<>> =>
           Enter(Append(Next1, b), copied, callee, UNDEFINED, args, 0, FALSE)
      /\ ~refused /\ items = <<>> =>
           /\ heap' = IF keep THEN Allocated(copied, ArrayCell(<<>>)) ELSE copied
           /\ Put(I.dst, IF keep THEN NewReference(copied) ELSE UNDEFINED)
           /\ OnlyHeapAndFrames
  BY DEF CallWithCallback, Executing
<1>2. /\ I.a \in Nat /\ I.b \in Nat /\ CodeIsSound
      /\ SoundHeap(program, heap) /\ SoundSlots(program, heap, globals)
      /\ DOMAIN globals = 0 .. program.globals - 1
  BY <1>1, AtInstruction DEF IInv
<1>3. I.op \notin FinalOps /\ Operands(I) = {I.dst} \cup I.a .. I.a + I.b
  BY <1>1 DEF FinalOps, Operands, ConstTests
<1>4. SoundValue(program, heap, Receiver)
  <2>1. I.a \in Operands(I)
    BY <1>2, <1>3
  <2>. QED  BY <1>1, <2>1, RegSound DEF Receiver
<1>5. SoundList(program, heap, items)
  BY <1>1, <1>2, <1>4, ArrayAt
<1>6. SoundValue(program, heap, callee)
  <2>1. I.b # 0 => I.a + 1 \in Operands(I)
    BY <1>2, <1>3
  <2>. QED  BY <1>1, <2>1, RegSound, PlainValues DEF FirstArgument
<1>. HIDE DEF callee, items, keep, third
<1>7. Grown(heap, copied) /\ SoundHeap(program, copied) /\ SoundList(program, copied, more)
  <2>1. CASE third
    <3>1. SoundCell(program, heap, ArrayCell(items))
      BY <1>5, ArrayCellSound
    <3>2. /\ Grown(heap, copied) /\ SoundHeap(program, copied)
          /\ SoundValue(program, copied, NewReference(heap))
      BY <1>2, <2>1, <3>1, AllocatedSound
    <3>3. more = Append(<< >>, NewReference(heap))
      BY <2>1
    <3>. HIDE DEF copied, more
    <3>4. SoundList(program, copied, Append(<< >>, NewReference(heap)))
      BY <3>2, EmptyListSound, AppendSound
    <3>. QED  BY <3>2, <3>3, <3>4
  <2>2. CASE ~third
    BY <1>2, <2>2, GrownSame, EmptyListSound
  <2>. QED  BY <2>1, <2>2
<1>. HIDE DEF copied, more
<1>8. CASE refused
  BY <1>1, <1>8, FailedEnds
<1>9. CASE ~refused /\ items # <<>>
  <2>1. IsCallable(heap, callee)
    BY <1>9
  <2>2. SoundList(program, copied, args)
    <3>1. SoundList(program, copied, items) /\ items[1] = items[1]
      BY <1>5, <1>7, ListGrown
    <3>2. 1 \in DOMAIN items
      <4>1. items \in Seq(ElementsOf(items))
        BY <1>5 DEF SoundList, IsSeq
      <4>. QED  BY <1>9, <4>1, EmptySeq
    <3>3. SoundValue(program, copied, items[1]) /\ SoundValue(program, copied, Number(0))
      BY <3>1, <3>2, PlainValues DEF SoundList
    <3>4. <<items[1], Number(0)>> = Append(Append(<< >>, items[1]), Number(0))
      OBVIOUS
    <3>5. SoundList(program, copied, Append(Append(<< >>, items[1]), Number(0)))
      BY <3>3, EmptyListSound, AppendSound
    <3>6. SoundList(program, copied, <<items[1], Number(0)>>)
      BY <3>4, <3>5
    <3>. QED  BY <1>7, <3>6, ConcatSound
  <2>3. SoundValue(program, copied, UNDEFINED)
    BY PlainValues
  <2>. HIDE DEF b, args
  <2>4. /\ \E f : frames' = Append(Append(Next1, b), f) /\ CodeFrame(program, heap', f)
        /\ Grown(copied, heap') /\ SoundHeap(program, heap')
        /\ SoundSlots(program, heap', globals') /\ DOMAIN globals' = 0 .. program.globals - 1
        /\ UNCHANGED program
    BY <1>1, <1>2, <1>6, <1>7, <1>9, <2>1, <2>2, <2>3, EnterSound
  <2>5. Grown(heap, heap')
    BY <1>7, <2>4 DEF Grown
  <2>6. BuiltinFrame(program, heap', b)
    <3>1. /\ DOMAIN b = FrameFields /\ b.kind = "native" /\ b.items = items /\ b.out = <<>>
          /\ b.more = more /\ b.i = 0 /\ b.callee = callee
      BY DEF b, NativeFrame, Frame, FrameFields
    <3>2. SoundList(program, heap', items) /\ SoundList(program, heap', more)
      BY <1>5, <1>7, <2>4, <2>5, ListGrown
    <3>3. SoundValue(program, heap', callee) /\ IsCallable(heap', callee)
      BY <1>6, <2>1, <2>5, ValueGrown
    <3>4. SoundList(program, heap', <<>>)
      BY EmptyListSound
    <3>. QED  BY <3>1, <3>2, <3>3, <3>4 DEF BuiltinFrame
  <2>7. SoundStack(program, heap', Next1)
    BY <1>1, <1>3, <2>5, NextSound, StackGrown
  <2>8. SoundStack(program, heap', frames')
    BY <2>4, <2>6, <2>7, PushCallbackSound
  <2>9. SoundState(program, heap', globals', frames')
    BY <2>4, <2>8 DEF SoundState
  <2>. QED  BY <2>4, <2>9, GoesOn
<1>10. CASE ~refused /\ items = <<>>
  <2>1. CASE keep
    <3>1. heap' = Allocated(copied, ArrayCell(<<>>)) /\ Put(I.dst, NewReference(copied))
          /\ UNCHANGED <<program, globals>>
      BY <1>1, <1>10, <2>1 DEF OnlyHeapAndFrames
    <3>2. SoundCell(program, copied, ArrayCell(<<>>))
      BY EmptyListSound, ArrayCellSound
    <3>3. /\ Grown(copied, heap') /\ SoundHeap(program, heap')
          /\ SoundValue(program, heap', NewReference(copied))
      BY <1>7, <3>1, <3>2, AllocatedSound
    <3>4. Grown(heap, heap')
      BY <1>7, <3>3 DEF Grown
    <3>. QED  BY <1>1, <1>3, <3>1, <3>3, <3>4, PutStep1
  <2>2. CASE ~keep
    <3>1. heap' = copied /\ Put(I.dst, UNDEFINED) /\ UNCHANGED <<program, globals>>
      BY <1>1, <1>10, <2>2 DEF OnlyHeapAndFrames
    <3>2. SoundHeap(program, heap') /\ Grown(heap, heap') /\ SoundValue(program, heap', UNDEFINED)
      BY <1>7, <3>1, PlainValues
    <3>. QED  BY <1>1, <1>3, <3>1, <3>2, PutStep1
  <2>. QED  BY <2>1, <2>2
<1>. QED  BY <1>8, <1>9, <1>10

-----------------------------------------------------------------------------
(***************************************************************************)
(* The actions: returning and failing.                                     *)
(***************************************************************************)

LEMMA LastExchanged ==
    ASSUME NEW gs, IsSeq(gs), Len(gs) \in Nat \ {0}, NEW b
    PROVE  [gs EXCEPT ![Len(gs)] = b] = Append(Front1(gs), b)
<1>. DEFINE n == Len(gs)
            hs == Front1(gs)
            ks == Append(hs, b)
<1>1. gs = [i \in 1 .. n |-> gs[i]]
  BY DEF IsSeq
<1>. HIDE DEF n
<1>2. n \in Nat \ {0} /\ Len(gs) = n
  BY DEF n
<1>3. IsSeq(hs) /\ Len(hs) = n - 1 /\ \A i \in 1 .. n - 1 : hs[i] = gs[i]
  <2>1. /\ n - 1 \in Int /\ n - 1 <= Len(gs) /\ Len(gs) - 1 = n - 1
        /\ (IF n - 1 < 1 THEN 0 ELSE n - 1 - 1 + 1) = n - 1
    BY <1>2
  <2>2. /\ IsSeq(hs) /\ Len(hs) = n - 1
        /\ \A i \in DOMAIN hs : hs[i] = gs[1 + i - 1]
    BY <2>1, SubSeqIsSeq DEF Front1
  <2>3. DOMAIN hs = 1 .. n - 1 /\ \A i \in 1 .. n - 1 : 1 + i - 1 = i
    BY <1>2, <2>2, SeqDomain
  <2>. QED  BY <2>2, <2>3
<1>. HIDE DEF hs
<1>4. /\ IsSeq(ks) /\ Len(ks) = n /\ ks[n] = b /\ \A i \in 1 .. n - 1 : ks[i] = gs[i]
  <2>1. n - 1 + 1 = n
    BY <1>2
  <2>. QED  BY <1>3, <2>1, AppendIsSeq
<1>. HIDE DEF ks
<1>5. ks = [i \in 1 .. n |-> ks[i]]
  BY <1>4 DEF IsSeq
<1>6. \A i \in 1 .. n : ks[i] = IF i = n THEN b ELSE gs[i]
  <2>1. \A i \in 1 .. n : i = n \/ i \in 1 .. n - 1
    BY <1>2
  <2>2. \A i \in 1 .. n - 1 : i # n
    BY <1>2
  <2>. QED  BY <1>4, <2>1, <2>2
<1>7. [gs EXCEPT ![n] = b] = [i \in 1 .. n |-> IF i = n THEN b ELSE gs[i]]
  BY <1>1
<1>8. [gs EXCEPT ![n] = b] = ks
  BY <1>5, <1>6, <1>7
<1>. QED  BY <1>8 DEF n, ks, hs

\* The running activation ends with a sound value, and the one below it, or the
\* next call of the builtin that waits for it, goes on.
LEMMA LeaveKept ==
    ASSUME IInv, outcome = "running", NEW v, SoundValue(program, heap, v), Leave(v)
    PROVE  IInv'
<1>. DEFINE caller == LastOf(Below)
            out == Append(caller.out, v)
            again == caller.i + 1 < Len(caller.items)
            n == Len(Below)
<1>1. /\ SoundHeap(program, heap) /\ SoundSlots(program, heap, globals) /\ CodeIsSound
      /\ SoundStack(program, heap, frames) /\ CodeFrame(program, heap, Top)
      /\ DOMAIN globals = 0 .. program.globals - 1
  BY AtInstruction DEF IInv
<1>2. CASE Below = <<>>
  <2>1. program' = program /\ outcome' # "running"
    BY <1>2 DEF Leave
  <2>. QED  BY <2>1, Ends
<1>3. CASE Below # <<>>
  <2>1. /\ caller.kind = "code" => SoundStack(program, heap, Below)
        /\ caller.kind # "code" =>
             BuiltinFrame(program, heap, caller) /\ SoundStack(program, heap, Front1(Below))
        /\ IsSeq(Below) /\ n \in Nat \ {0} /\ caller = Below[n]
    BY <1>1, <1>3, PopSound DEF Below
  <2>2. globals' = Over(Top.saved, globals) /\ UNCHANGED program
    BY <1>3 DEF Leave
  <2>3. SoundSlots(program, heap, globals') /\ DOMAIN globals' = 0 .. program.globals - 1
    <3>1. SoundSlots(program, heap, Top.saved) /\ DOMAIN Top.saved \subseteq 0 .. program.globals - 1
      BY <1>1 DEF CodeFrame, SoundSlots
    <3>2. SoundSlots(program, heap, Over(Top.saved, globals))
      BY <1>1, <3>1, OverSound
    <3>3. DOMAIN Over(Top.saved, globals) = 0 .. program.globals - 1
      BY <1>1, <3>1 DEF Over
    <3>. QED  BY <2>2, <3>2, <3>3
  <2>4. CASE caller.kind = "code"
    <3>1. frames' = WithReg(Below, Top.dst, v) /\ UNCHANGED heap
      BY <1>3, <2>4 DEF Leave
    <3>2. SoundStack(program, heap, frames')
      BY <2>1, <2>4, <3>1, WithRegSound
    <3>3. SoundState(program, heap', globals', frames')
      BY <1>1, <2>3, <3>1, <3>2 DEF SoundState
    <3>. QED  BY <2>2, <3>3, GoesOn
  <2>5. CASE caller.kind # "code" /\ again
    <3>. DEFINE i == caller.i + 1
                fn == FunctionIn(caller.callee)
                args == <<caller.items[i + 1], Number(i)>> \o caller.more
                regs == Window(heap, fn, UNDEFINED, args)
                f == Frame(fn, regs, 0, << >>)
                b == [[caller EXCEPT !.i = i] EXCEPT !.out = out]
    <3>1. /\ frames' = Append([Below EXCEPT ![n].i = i, ![n].out = out], f)
          /\ heap' = RestHeap(heap, fn, args)
      BY <1>3, <2>5 DEF Leave
    <3>2. [Below EXCEPT ![n].i = i, ![n].out = out] = [Below EXCEPT ![n] = b]
      <4>1. n \in DOMAIN Below
        BY <2>1, SeqDomain
      <4>. HIDE DEF n, i, out, caller
      <4>. QED  BY <2>1, <4>1 DEF caller
    <3>3. [Below EXCEPT ![n] = b] = Append(Front1(Below), b)
      BY <2>1, LastExchanged
    <3>4. /\ SoundStack(program, heap, Front1(Below))
          /\ DOMAIN caller = FrameFields /\ caller.kind = "native"
          /\ SoundList(program, heap, caller.items) /\ SoundList(program, heap, caller.out)
          /\ SoundList(program, heap, caller.more)
          /\ caller.i \in Nat
          /\ SoundValue(program, heap, caller.callee) /\ IsCallable(heap, caller.callee)
      BY <2>1, <2>5 DEF BuiltinFrame
    <3>. HIDE DEF caller
    <3>5. i \in Nat /\ i + 1 \in DOMAIN caller.items
      <4>1. Len(caller.items) \in Nat /\ DOMAIN caller.items = 1 .. Len(caller.items)
        BY <3>4, SeqDomain DEF SoundList
      <4>. QED  BY <2>5, <3>4, <4>1
    <3>6. SoundList(program, heap, args)
      <4>1. /\ SoundValue(program, heap, caller.items[i + 1])
            /\ SoundValue(program, heap, Number(i))
        BY <3>4, <3>5, PlainValues DEF SoundList
      <4>2. <<caller.items[i + 1], Number(i)>> = Append(Append(<< >>, caller.items[i + 1]), Number(i))
        OBVIOUS
      <4>3. SoundList(program, heap, Append(Append(<< >>, caller.items[i + 1]), Number(i)))
        BY <4>1, EmptyListSound, AppendSound
      <4>4. SoundList(program, heap, <<caller.items[i + 1], Number(i)>>)
        BY <4>2, <4>3
      <4>. QED  BY <3>4, <4>4, ConcatSound
    <3>7. fn \in DOMAIN program.funcs
      BY <1>1, <3>4, CalleeSound
    <3>8. program.funcs[fn].rest \in Nat
      BY <1>1, <3>7 DEF CodeIsSound, SoundProgram
    <3>. HIDE DEF fn, args
    <3>9. /\ Grown(heap, heap') /\ SoundHeap(program, heap')
          /\ program.funcs[fn].rest # 0 => SoundValue(program, heap', NewReference(heap))
      BY <1>1, <3>1, <3>6, <3>8, RestHeapSound
    <3>10. /\ 0 .. program.funcs[fn].registers - 1 \subseteq DOMAIN regs
           /\ \A r \in DOMAIN regs : SoundValue(program, heap', regs[r])
      BY <3>6, <3>8, <3>9, PlainValues, WindowSound
    <3>. HIDE DEF regs
    <3>11. CodeFrame(program, heap', f)
      <4>1. DOMAIN << >> = {}
        OBVIOUS
      <4>2. SoundSlots(program, heap', << >>)
        BY <4>1 DEF SoundSlots
      <4>. QED  BY <1>1, <3>7, <3>10, <4>2, FrameSound
    <3>12. SoundList(program, heap, out)
      BY <3>4, AppendSound
    <3>. HIDE DEF i, out
    <3>13. BuiltinFrame(program, heap, b)
      <4>1. /\ DOMAIN b = FrameFields /\ b.kind = "native" /\ b.items = caller.items /\ b.out = out
            /\ b.more = caller.more /\ b.i = i /\ b.callee = caller.callee
        BY <3>4 DEF FrameFields
      <4>. HIDE DEF b
      <4>. QED  BY <3>4, <3>5, <3>12, <4>1 DEF BuiltinFrame
    <3>. HIDE DEF b, f
    <3>14. SoundStack(program, heap', Append(Append(Front1(Below), b), f))
      BY <3>4, <3>9, <3>11, <3>13, StackGrown, BuiltinFrameGrown, PushCallbackSound
    <3>15. SoundStack(program, heap', frames')
      BY <3>1, <3>2, <3>3, <3>14
    <3>16. SoundSlots(program, heap', globals')
      BY <2>3, <3>9, SlotsGrown
    <3>17. SoundState(program, heap', globals', frames')
      BY <2>3, <3>9, <3>15, <3>16 DEF SoundState
    <3>. QED  BY <2>2, <3>17, GoesOn
  <2>6. CASE caller.kind # "code" /\ ~again
    <3>1. /\ heap' = IF caller.keep THEN Allocated(heap, ArrayCell(out)) ELSE heap
          /\ frames' = WithReg(Front1(Below), caller.dst,
                               IF caller.keep THEN NewReference(heap) ELSE UNDEFINED)
      BY <1>3, <2>6 DEF Leave
    <3>2. BuiltinFrame(program, heap, caller) /\ SoundStack(program, heap, Front1(Below))
      BY <2>1, <2>6
    <3>. HIDE DEF caller
    <3>3. SoundCell(program, heap, ArrayCell(out))
      BY <3>2, AppendSound, ArrayCellSound DEF BuiltinFrame
    <3>. HIDE DEF out
    <3>4. /\ Grown(heap, heap') /\ SoundHeap(program, heap')
          /\ SoundValue(program, heap', IF caller.keep THEN NewReference(heap) ELSE UNDEFINED)
      <4>1. CASE caller.keep
        BY <1>1, <3>1, <3>3, <4>1, AllocatedSound
      <4>2. CASE ~caller.keep
        BY <1>1, <3>1, <4>2, GrownSame, PlainValues
      <4>. QED  BY <4>1, <4>2
    <3>5. SoundStack(program, heap', Front1(Below))
      BY <3>2, <3>4, StackGrown
    <3>6. SoundStack(program, heap', frames')
      BY <3>1, <3>4, <3>5, WithRegSound
    <3>7. SoundState(program, heap', globals', frames')
      BY <2>3, <3>4, <3>6, SlotsGrown DEF SoundState
    <3>. QED  BY <2>2, <3>7, GoesOn
  <2>. QED  BY <2>4, <2>5, <2>6
<1>. QED  BY <1>2, <1>3

LEMMA ReturnsKept ==
    ASSUME IInv, ReturnValue \/ ReturnUndef \/ HaltValue \/ Halt
    PROVE  IInv'
<1>1. outcome = "running" /\ I.op \in {"Return", "ReturnUndef", "HaltValue", "Halt"}
  BY DEF ReturnValue, ReturnUndef, HaltValue, Halt, Executing
<1>2. SoundValue(program, heap, UNDEFINED)
  BY PlainValues
<1>3. I.op \in {"Return", "HaltValue"} => SoundValue(program, heap, Reg(I.a))
  <2>1. I.op \in {"Return", "HaltValue"} => I.a \in Operands(I)
    BY DEF Operands, ConstTests
  <2>. QED  BY <1>1, <2>1, RegSound
<1>4. CASE ReturnValue \/ HaltValue
  <2>1. I.op \in {"Return", "HaltValue"} /\ Leave(Reg(I.a))
    BY <1>4 DEF ReturnValue, HaltValue, Executing
  <2>. QED  BY <1>1, <1>3, <2>1, LeaveKept
<1>5. CASE ReturnUndef
  BY <1>1, <1>2, <1>5, LeaveKept DEF ReturnUndef
<1>6. CASE Halt
  <2>1. CASE Below # <<>>
    <3>1. Leave(UNDEFINED)
      BY <1>6, <2>1 DEF Halt
    <3>. QED  BY <1>1, <1>2, <3>1, LeaveKept
  <2>2. CASE Below = <<>>
    <3>1. program' = program /\ outcome' # "running"
      BY <1>6, <2>2 DEF Halt
    <3>. QED  BY <3>1, Ends
  <2>. QED  BY <2>1, <2>2
<1>. QED  BY <1>4, <1>5, <1>6

LEMMA FailuresKept == ASSUME IInv, ThrowValue \/ NoMethod PROVE IInv'
BY FailedEnds DEF ThrowValue, NoMethod

-----------------------------------------------------------------------------
(***************************************************************************)
(* The theorems.                                                           *)
(***************************************************************************)

LEMMA StartSound == Init /\ CodeIsSound => IInv
<1>. SUFFICES ASSUME Init, CodeIsSound PROVE SoundState(program, heap, globals, frames)
  BY DEF IInv
<1>. DEFINE regs == [r \in 0 .. program.registers - 1 |-> UNDEFINED]
            f == Frame(0, regs, 0, << >>)
<1>1. /\ frames = <<f>> /\ heap = <<>>
      /\ globals = [g \in 0 .. program.globals - 1 |-> UNDEFINED]
  BY DEF Init, Start
<1>2. SoundHeap(program, heap)
  <2>1. IsSeq(<< >>) /\ DOMAIN << >> = {}
    BY EmptyListSound DEF SoundList
  <2>. QED  BY <1>1, <2>1 DEF SoundHeap
<1>3. SoundSlots(program, heap, globals) /\ DOMAIN globals = 0 .. program.globals - 1
  BY <1>1, PlainValues DEF SoundSlots
<1>4. CodeFrame(program, heap, f)
  <2>1. /\ DOMAIN f = FrameFields /\ f.kind = "code" /\ f.fn = 0 /\ f.pc = 1
        /\ f.regs = regs /\ f.saved = << >>
    BY DEF Frame, FrameFields
  <2>2. CodeIn(program, 0) = program.code /\ RegistersIn(program, 0) = program.registers
    BY DEF CodeIn, RegistersIn
  <2>3. 1 \in DOMAIN program.code
    BY DEF CodeIsSound, SoundProgram, SoundCode
  <2>4. SoundSlots(program, heap, << >>)
    <3>1. DOMAIN << >> = {}
      OBVIOUS
    <3>. QED  BY <3>1 DEF SoundSlots
  <2>5. DOMAIN regs = 0 .. program.registers - 1 /\ \A r \in DOMAIN regs : SoundValue(program, heap, regs[r])
    BY PlainValues
  <2>. HIDE DEF f, regs
  <2>. QED  BY <2>1, <2>2, <2>3, <2>4, <2>5 DEF CodeFrame
<1>5. SoundStack(program, heap, frames)
  <2>. HIDE DEF f
  <2>1. <<f>> \in Seq({f}) /\ Len(<<f>>) = 1 /\ <<f>>[1] = f
    OBVIOUS
  <2>2. IsSeq(<<f>>)
    BY <2>1, SeqIsSeq
  <2>3. \A j \in 1 .. 1 : j = 1
    OBVIOUS
  <2>. QED  BY <1>1, <1>4, <2>1, <2>2, <2>3 DEF SoundStack
<1>. QED  BY <1>2, <1>3, <1>5 DEF SoundState

LEMMA StepSound == IInv /\ [Step]_vars => IInv'
<1>. SUFFICES ASSUME IInv, [Step]_vars PROVE IInv'
  OBVIOUS
<1>1. CASE Load \/ SetGlobal \/ Binary \/ Unary \/ AddConst
  BY <1>1, LoadKept, SetGlobalKept, BinaryKept, UnaryKept, AddConstKept
<1>2. CASE Jump \/ JumpIfNot \/ JumpIfTruthy \/ TestConstJump \/ ModTestJump \/ IncrementAndJump
  BY <1>2, JumpKept, ConditionalJumpsKept, IncrementAndJumpKept
<1>3. CASE MakeArray \/ MakeHash \/ MakeClosure \/ AppendItems \/ IteratorRest \/ GetKeysIter \/ ObjectRest
  BY <1>3, MakeArrayKept, MakeHashKept, MakeClosureKept, AppendItemsKept, IteratorRestKept,
     GetKeysIterKept, ObjectRestKept
<1>4. CASE GetProperty \/ SetProperty \/ DeleteProp \/ AddConstToProp \/ AddPropsToProp
  BY <1>4, GetPropertyKept, SetPropertyKept, DeletePropKept, AddConstToPropKept, AddPropsToPropKept
<1>5. CASE CallAny \/ CallGlobal \/ CallSpread \/ CallBuiltin \/ CallWithCallback \/ CallProperty
  BY <1>5, CallsKept, CallBuiltinKept, CallWithCallbackKept, CallPropertyKept
<1>6. CASE ReturnValue \/ ReturnUndef \/ HaltValue \/ Halt \/ ThrowValue \/ NoMethod
  BY <1>6, ReturnsKept, FailuresKept
<1>7. CASE UNCHANGED vars
  BY <1>7 DEF vars, IInv, CodeIsSound
<1>. QED  BY <1>1, <1>2, <1>3, <1>4, <1>5, <1>6, <1>7 DEF Step

\* A program whose instructions only name registers, slots, functions and
\* targets that exist stays in its code: calls, returns, callbacks of builtins,
\* fused tests and jumps included (rdispatch_loop, call_register_direct).
THEOREM RunsInItsCode == Spec /\ CodeIsSound => []StaysInCode
<1>1. Init /\ CodeIsSound => IInv
  BY StartSound
<1>2. IInv /\ [Step]_vars => IInv'
  BY StepSound
<1>3. IInv => StaysInCode
  BY AtInstruction DEF StaysInCode
<1>. QED  BY <1>1, <1>2, <1>3, PTL DEF Spec

\* Such a program reads and writes no register but the register_count for which
\* the call of the running activation reserved the stack, all written by the call.
\* (What the call itself copies behind them is CallStack's WindowsApart.)
THEOREM RunsInItsWindow == Spec /\ CodeIsSound => []StaysInWindow
<1>1. Init /\ CodeIsSound => IInv
  BY StartSound
<1>2. IInv /\ [Step]_vars => IInv'
  BY StepSound
<1>3. IInv => StaysInWindow
  BY AtInstruction DEF StaysInWindow, RegistersOf, RegistersIn
<1>. QED  BY <1>1, <1>2, <1>3, PTL DEF Spec
=============================================================================
