-------------------------- MODULE GeneratorsProofs --------------------------
(***************************************************************************)
(* Generators keep the protocol, for any number of generators, values,     *)
(* yields and windows: as long as no body calls its own generator, each    *)
(* generator has at most one window, and its state, position and saved     *)
(* registers say where it is.                                              *)
(***************************************************************************)
EXTENDS GeneratorsProperties, SequenceTheorems, TLAPS

States == {"Created", "Suspended", "Completed"}
Objects == [state : States, saved_ip : Nat, locals : Seq(Vals), args : Vals]
Windows == [gen : Existing, ip : Nat, registers : Seq(Vals)]

TypeOK ==
    /\ generators \in [Existing -> Objects]
    /\ Existing \subseteq Gens
    /\ windows \in Seq(Windows)
    /\ reentered \subseteq Existing
    /\ crashed \in BOOLEAN

(* What is called while it runs is remembered; what is not runs in one       *)
(* window, and waits behind a yield when it is Suspended.                    *)
SoundAt(g) ==
    \/ g \in reentered
    \/ /\ \A i, j \in Bodies(g) : i = j
       /\ generators[g].state \in {"Created", "Completed"} => Bodies(g) = {}
       /\ generators[g].state = "Suspended" =>
              Bodies(g) # {} \/ generators[g].saved_ip > 0

Sound == \A g \in Existing : SoundAt(g)

Inv == TypeOK /\ Sound

-----------------------------------------------------------------------------
(***************************************************************************)
(* Windows                                                                 *)
(***************************************************************************)

(* A popped one leaves the others.                                           *)
LEMMA TailIs ==
    ASSUME NEW S, NEW s \in Seq(S), s # <<>>
    PROVE  /\ Tail(s) \in Seq(S)
           /\ Len(Tail(s)) = Len(s) - 1
           /\ DOMAIN Tail(s) = 1 .. Len(s) - 1
           /\ DOMAIN s = 1 .. Len(s) /\ Len(s) \in Nat \ {0}
           /\ s[1] \in S
           /\ \A i \in 1 .. Len(s) - 1 : Tail(s)[i] = s[i + 1]
OBVIOUS

(* A body runs if it has a window.                                           *)
LEMMA RunningIs == \A g : g \in Running <=> Bodies(g) # {}
BY DEF Running, Bodies

(* A window of its own: the place of the only body.                          *)
LEMMA OnlyBody ==
    ASSUME NEW g, NEW i \in Bodies(g), \A j, k \in Bodies(g) : j = k
    PROVE  (CHOOSE j \in DOMAIN windows : windows[j].gen = g) = i
<1>1. i \in DOMAIN windows /\ windows[i].gen = g
  BY DEF Bodies
<1>2. \A j \in DOMAIN windows : windows[j].gen = g => j \in Bodies(g)
  BY DEF Bodies
<1> QED BY <1>1, <1>2

(* Entering a body shifts the windows of all and adds one of its own.        *)
LEMMA Pushed ==
    ASSUME TypeOK, NEW g \in Existing, NEW ip \in Nat, NEW rs \in Seq(Vals),
           windows' = Cons([gen |-> g, ip |-> ip, registers |-> rs], windows)
    PROVE  /\ windows' \in Seq(Windows)
           /\ Len(windows') = Len(windows) + 1
           /\ windows'[1] = [gen |-> g, ip |-> ip, registers |-> rs]
           /\ \A h : Bodies(h)' = {i + 1 : i \in Bodies(h)} \union (IF h = g THEN {1} ELSE {})
           /\ \A h : \A i \in Bodies(h) : i \in Nat \ {0} /\ windows'[i + 1] = windows[i]
<1> DEFINE w == [gen |-> g, ip |-> ip, registers |-> rs]
<1>0. w \in Windows /\ w.gen = g /\ windows' = Cons(w, windows)
  BY DEF Windows
<1> HIDE DEF w
<1>1. windows \in Seq(Windows)
  BY DEF TypeOK
<1>c. /\ Cons(w, windows) \in Seq(Windows) /\ Len(Cons(w, windows)) = Len(windows) + 1
      /\ DOMAIN Cons(w, windows) = 1 .. Len(windows) + 1
      /\ DOMAIN windows = 1 .. Len(windows) /\ Len(windows) \in Nat
      /\ Cons(w, windows)[1] = w
      /\ \A i \in 1 .. Len(windows) : Cons(w, windows)[i + 1] = windows[i]
  BY <1>0, <1>1 DEF Cons
<1>2. /\ windows' \in Seq(Windows) /\ Len(windows') = Len(windows) + 1
      /\ DOMAIN windows' = 1 .. Len(windows) + 1
      /\ DOMAIN windows = 1 .. Len(windows) /\ Len(windows) \in Nat
      /\ windows'[1] = w
      /\ \A i \in 1 .. Len(windows) : windows'[i + 1] = windows[i]
  BY <1>0, <1>c
<1>3. ASSUME NEW h
      PROVE  Bodies(h)' = {i + 1 : i \in Bodies(h)} \union (IF h = g THEN {1} ELSE {})
  <2>1. ASSUME NEW j \in Bodies(h)'
        PROVE  j \in {i + 1 : i \in Bodies(h)} \union (IF h = g THEN {1} ELSE {})
    <3>1. j \in 1 .. Len(windows) + 1 /\ windows'[j].gen = h
      BY <1>2, <2>1 DEF Bodies
    <3>2. CASE j = 1
      BY <1>0, <1>2, <3>1, <3>2
    <3>3. CASE j # 1
      <4>1. j - 1 \in 1 .. Len(windows) /\ (j - 1) + 1 = j
        BY <1>2, <3>1, <3>3
      <4>2. windows[j - 1].gen = h
        BY <1>2, <3>1, <4>1
      <4>3. j - 1 \in Bodies(h)
        BY <1>2, <4>1, <4>2 DEF Bodies
      <4> QED BY <4>1, <4>3
    <3> QED BY <3>2, <3>3
  <2>2. ASSUME NEW i \in Bodies(h)
        PROVE  i + 1 \in Bodies(h)'
    BY <1>2 DEF Bodies
  <2>3. ASSUME h = g
        PROVE  1 \in Bodies(h)'
    BY <1>0, <1>2, <2>3 DEF Bodies
  <2> QED BY <2>1, <2>2, <2>3
<1>4. \A h : \A i \in Bodies(h) : i \in Nat \ {0} /\ windows'[i + 1] = windows[i]
  BY <1>2 DEF Bodies
<1> QED BY <1>2, <1>3, <1>4 DEF w

(* Leaving it shifts them back.                                              *)
LEMMA Popped ==
    ASSUME TypeOK, windows # <<>>, RestoreCaller
    PROVE  /\ windows' \in Seq(Windows)
           /\ Innermost \in Windows
           /\ 1 \in Bodies(Innermost.gen)
           /\ Len(windows') < Len(windows)
           /\ \A h : Bodies(h)' = {i - 1 : i \in Bodies(h) \ {1}}
           /\ \A h : \A i \in Bodies(h) : i \in Nat \ {0} /\ (i # 1 => windows'[i - 1] = windows[i])
<1>1. windows \in Seq(Windows)
  BY DEF TypeOK
<1>2. /\ windows' \in Seq(Windows) /\ Len(windows') = Len(windows) - 1
      /\ DOMAIN windows' = 1 .. Len(windows) - 1
      /\ DOMAIN windows = 1 .. Len(windows) /\ Len(windows) \in Nat \ {0}
      /\ Innermost \in Windows
      /\ \A i \in 1 .. Len(windows) - 1 : windows'[i] = windows[i + 1]
  BY <1>1, TailIs DEF RestoreCaller, Innermost
<1>3. 1 \in Bodies(Innermost.gen)
  BY <1>2 DEF Bodies, Innermost
<1>4. ASSUME NEW h, NEW i \in Bodies(h)
      PROVE  i \in Nat \ {0} /\ (i # 1 => i - 1 \in 1 .. Len(windows) - 1 /\ windows'[i - 1] = windows[i])
  <2>1. i \in 1 .. Len(windows)
    BY <1>2 DEF Bodies
  <2>2. ASSUME i # 1
        PROVE  i - 1 \in 1 .. Len(windows) - 1 /\ (i - 1) + 1 = i
    BY <1>2, <2>1, <2>2
  <2> QED BY <1>2, <2>1, <2>2
<1>5. ASSUME NEW h
      PROVE  Bodies(h)' = {i - 1 : i \in Bodies(h) \ {1}}
  <2>1. ASSUME NEW i \in Bodies(h) \ {1}
        PROVE  i - 1 \in Bodies(h)'
    BY <1>2, <1>4 DEF Bodies
  <2>2. ASSUME NEW j \in Bodies(h)'
        PROVE  j \in {i - 1 : i \in Bodies(h) \ {1}}
    <3>1. j \in 1 .. Len(windows) - 1 /\ windows[j + 1].gen = h
      BY <1>2, <2>2 DEF Bodies
    <3>2. j + 1 \in Bodies(h) \ {1} /\ (j + 1) - 1 = j
      BY <1>2, <3>1 DEF Bodies
    <3> QED BY <3>2
  <2> QED BY <2>1, <2>2
<1> QED BY <1>2, <1>3, <1>4, <1>5

-----------------------------------------------------------------------------
(***************************************************************************)
(* A generator that a step is not about                                    *)
(***************************************************************************)

Remembered == reentered' = reentered \union {g \in Existing : Reentered(g)'}

(* Its windows may move, but it looks the same.                              *)
LEMMA Unmoved ==
    ASSUME NEW h \in Existing, generators'[h] = generators[h], SoundAt(h), Remembered,
           NEW d \in Int, Bodies(h)' = {i + d : i \in Bodies(h)},
           \A i \in Bodies(h) : i \in Nat /\ windows'[i + d] = windows[i]
    PROVE  /\ SoundAt(h)' /\ (h \in reentered' <=> h \in reentered)
           /\ Status(h)' = Status(h) /\ Received(h)' = Received(h)
<1>1. Reentered(h)' => h \in reentered
  BY DEF Reentered, SoundAt, Completed
<1>2. h \in reentered' <=> h \in reentered
  BY <1>1 DEF Remembered
<1>3. SoundAt(h)'
  <2>1. Bodies(h)' = {} <=> Bodies(h) = {}
    OBVIOUS
  <2>2. (\A i, j \in Bodies(h) : i = j) => (\A i, j \in Bodies(h)' : i = j)
    OBVIOUS
  <2> QED BY <1>2, <2>1, <2>2 DEF SoundAt
<1>4. h \in Running' <=> h \in Running
  BY RunningIs DEF Running, Bodies
<1>5. Status(h)' = Status(h)
  BY <1>2, <1>4 DEF Status
<1>6. Received(h)' = Received(h)
  <2>1. CASE h \in reentered \/ h \notin Running
    BY <1>2, <1>4, <2>1 DEF Received
  <2>2. CASE h \notin reentered /\ h \in Running
    <3>1. PICK i \in Bodies(h) : i \in Nat
      BY <2>2, RunningIs
    <3>2. i + d \in Bodies(h)' /\ windows'[i + d] = windows[i]
      BY <3>1
    <3>3. \A j, k \in Bodies(h) : j = k
      BY <2>2 DEF SoundAt
    <3>4. (\A j, k \in Bodies(h) : j = k)'
      BY <3>3
    <3>5. (CHOOSE j \in DOMAIN windows : windows[j].gen = h) = i
      BY <3>1, <3>3, OnlyBody
    <3>6. (CHOOSE j \in DOMAIN windows' : windows'[j].gen = h) = i + d
      BY <3>2, <3>4 DEF Bodies
    <3>7. Received(h) = windows[i].registers
      BY <2>2, <3>5 DEF Received
    <3>8. Received(h)' = windows'[i + d].registers
      BY <1>2, <1>4, <2>2, <3>6 DEF Received
    <3> QED BY <3>2, <3>7, <3>8
  <2> QED BY <2>1, <2>2
<1> QED BY <1>2, <1>3, <1>5, <1>6

(* ... in particular if no window changes.                                   *)
LEMMA UnmovedInPlace ==
    ASSUME TypeOK, NEW h \in Existing, generators'[h] = generators[h], SoundAt(h), Remembered,
           windows' = windows
    PROVE  /\ SoundAt(h)' /\ (h \in reentered' <=> h \in reentered)
           /\ Status(h)' = Status(h) /\ Received(h)' = Received(h)
<1>1. \A i \in Bodies(h) : i \in Nat
  BY DEF Bodies, TypeOK
<1>2. Bodies(h)' = Bodies(h)
  BY DEF Bodies
<1>3. Bodies(h)' = {i + 0 : i \in Bodies(h)} /\ \A i \in Bodies(h) : windows'[i + 0] = windows[i]
  BY <1>1, <1>2
<1> QED BY <1>1, <1>3, Unmoved

-----------------------------------------------------------------------------
(***************************************************************************)
(* The variables of the protocol                                           *)
(***************************************************************************)

StatusMap == [g \in Existing |-> Status(g)]
ReceivedMap == [g \in Existing |-> Received(g)]
Calls == [i \in DOMAIN windows |-> windows[i].gen]

(* A step about one generator changes the two maps there.                    *)
LEMMA Mapped ==
    ASSUME Existing' = Existing, NEW g \in Existing,
           \A h \in Existing \ {g} : Status(h)' = Status(h) /\ Received(h)' = Received(h)
    PROVE  /\ StatusMap' = [StatusMap EXCEPT ![g] = Status(g)']
           /\ ReceivedMap' = [ReceivedMap EXCEPT ![g] = Received(g)']
BY DEF StatusMap, ReceivedMap

(* The calls are a sequence of generators as long as the windows.            *)
LEMMA CallsIs ==
    ASSUME TypeOK
    PROVE  /\ Calls \in Seq(Existing) /\ Len(Calls) = Len(windows)
           /\ \A i \in 1 .. Len(windows) : Calls[i] = windows[i].gen
<1>1. DOMAIN windows = 1 .. Len(windows) /\ Len(windows) \in Nat
  BY DEF TypeOK
<1>2. \A i \in 1 .. Len(windows) : windows[i].gen \in Existing
  <2>1. \A i \in 1 .. Len(windows) : windows[i] \in Windows
    BY <1>1 DEF TypeOK
  <2> QED BY <2>1 DEF Windows
<1>3. Calls \in [1 .. Len(windows) -> Existing]
  BY <1>1, <1>2 DEF Calls
<1>4. Calls \in Seq(Existing)
  BY <1>1, <1>3, SeqDef
<1>5. Len(Calls) = Len(windows)
  BY <1>1, <1>3, <1>4
<1> QED BY <1>1, <1>4, <1>5 DEF Calls

LEMMA CallsPushed ==
    ASSUME TypeOK, TypeOK', Existing' = Existing, NEW g \in Existing, NEW ip, NEW rs,
           windows' = Cons([gen |-> g, ip |-> ip, registers |-> rs], windows)
    PROVE  Calls' = Cons(g, Calls)
<1> DEFINE w == [gen |-> g, ip |-> ip, registers |-> rs]
<1>1. /\ Calls \in Seq(Existing) /\ Len(Calls) = Len(windows)
      /\ \A i \in 1 .. Len(windows) : Calls[i] = windows[i].gen
  BY CallsIs
<1>2. (/\ Calls \in Seq(Existing) /\ Len(Calls) = Len(windows)
       /\ \A i \in 1 .. Len(windows) : Calls[i] = windows[i].gen)'
  BY CallsIs, PTL
<1>3. windows \in Seq(Windows)
  BY DEF TypeOK
<1>4. windows' = <<w>> \o windows
  BY DEF Cons
<1> HIDE DEF w
<1>5. /\ Len(windows') = Len(windows) + 1 /\ Len(windows) \in Nat
      /\ windows'[1] = w
      /\ \A i \in 2 .. Len(windows) + 1 : windows'[i] = windows[i - 1]
  BY <1>3, <1>4
<1>6. w.gen = g
  BY DEF w
<1>7. /\ Cons(g, Calls) \in Seq(Existing) /\ Len(Cons(g, Calls)) = Len(windows) + 1
      /\ Cons(g, Calls)[1] = g
      /\ \A i \in 2 .. Len(windows) + 1 : Cons(g, Calls)[i] = Calls[i - 1]
  BY <1>1, <1>5 DEF Cons
<1>8. \A i \in 1 .. Len(windows) + 1 : Calls'[i] = Cons(g, Calls)[i]
  <2>1. Calls'[1] = Cons(g, Calls)[1]
    BY <1>2, <1>5, <1>6, <1>7
  <2>2. ASSUME NEW i \in 2 .. Len(windows) + 1
        PROVE  Calls'[i] = Cons(g, Calls)[i]
    <3>1. i \in 1 .. Len(windows') /\ i - 1 \in 1 .. Len(windows)
      BY <1>5
    <3>2. Calls'[i] = windows'[i].gen
      BY <1>2, <3>1
    <3>3. Calls[i - 1] = windows[i - 1].gen
      BY <1>1, <3>1
    <3>4. windows'[i] = windows[i - 1] /\ Cons(g, Calls)[i] = Calls[i - 1]
      BY <1>5, <1>7
    <3> QED BY <3>2, <3>3, <3>4
  <2> QED BY <1>5, <2>1, <2>2
<1> QED BY <1>2, <1>5, <1>7, <1>8, SeqEqual

LEMMA CallsPopped ==
    ASSUME TypeOK, TypeOK', Existing' = Existing, windows # <<>>, RestoreCaller
    PROVE  Calls' = Tail(Calls) /\ Calls # <<>> /\ Head(Calls) = Innermost.gen
<1>1. /\ Calls \in Seq(Existing) /\ Len(Calls) = Len(windows)
      /\ \A i \in 1 .. Len(windows) : Calls[i] = windows[i].gen
  BY CallsIs
<1>2. (/\ Calls \in Seq(Existing) /\ Len(Calls) = Len(windows)
       /\ \A i \in 1 .. Len(windows) : Calls[i] = windows[i].gen)'
  BY CallsIs, PTL
<1>3. /\ Len(windows') = Len(windows) - 1 /\ Len(windows) \in Nat \ {0}
      /\ \A i \in 1 .. Len(windows) - 1 : windows'[i] = windows[i + 1]
  BY DEF TypeOK, RestoreCaller
<1>4. Calls # <<>> /\ Head(Calls) = Innermost.gen
  BY <1>1, <1>3 DEF Innermost
<1>5. /\ Tail(Calls) \in Seq(Existing) /\ Len(Tail(Calls)) = Len(windows) - 1
      /\ \A i \in 1 .. Len(windows) - 1 : Tail(Calls)[i] = Calls[i + 1]
  BY <1>1, <1>3, <1>4
<1>6. \A i \in 1 .. Len(windows) - 1 : Calls'[i] = Tail(Calls)[i]
  BY <1>1, <1>2, <1>3, <1>5
<1> QED BY <1>2, <1>3, <1>4, <1>5, <1>6, SeqEqual

LEMMA CallsEmptied ==
    ASSUME windows' = <<>>
    PROVE  Calls' = <<>>
<1>1. DOMAIN windows' = 1 .. 0
  OBVIOUS
<1>2. Calls' \in [1 .. 0 -> {}]
  BY <1>1 DEF Calls
<1>3. Calls' \in Seq({}) /\ Len(Calls') = 0
  BY <1>2, SeqDef
<1>4. <<>> \in Seq({}) /\ Len(<<>>) = 0
  OBVIOUS
<1> QED BY <1>3, <1>4, SeqEqual

-----------------------------------------------------------------------------
(***************************************************************************)
(* Steps                                                                   *)
(***************************************************************************)

(* The next() of a generator that waits is the protocol's, that of one that  *)
(* runs is remembered.                                                       *)
LEMMA Enters ==
    ASSUME Inv, Remembered, NEW g \in Existing, NEW x \in Vals,
           generators[g].state \in {"Created", "Suspended"},
           generators[g].state = "Suspended" => generators[g].saved_ip > 0,
           generators' = [generators EXCEPT ![g].state = "Suspended"],
           NEW ip \in Nat, NEW rs,
           rs = IF generators[g].state = "Created" THEN <<generators[g].args>>
                ELSE Append(generators[g].locals, x),
           ExecuteBody(g, ip, rs)
    PROVE  Inv' /\ (Protocol!Resume(g, x) \/ Protocol!Misuse(g))
<1>1. /\ generators[g] \in Objects /\ g \in Gens
      /\ generators'[g] = [generators[g] EXCEPT !.state = "Suspended"]
      /\ \A h \in Existing \ {g} : generators'[h] = generators[h]
      /\ Existing' = Existing /\ generators' \in [Existing -> Objects]
  <2>1. generators \in [Existing -> Objects] /\ Existing \subseteq Gens
    BY DEF Inv, TypeOK
  <2>2. generators[g] \in Objects
    BY <2>1
  <2>3. [generators[g] EXCEPT !.state = "Suspended"] \in Objects
    BY <2>2 DEF Objects, States
  <2>4. generators' = [generators EXCEPT ![g] = [generators[g] EXCEPT !.state = "Suspended"]]
    OBVIOUS
  <2> HIDE DEF Existing
  <2>5. DOMAIN generators' = DOMAIN generators
    BY <2>1, <2>4
  <2>6. Existing' = Existing
    BY <2>5 DEF Existing
  <2> QED BY <2>1, <2>2, <2>3, <2>4, <2>6
<1>2. rs \in Seq(Vals)
  BY <1>1 DEF Objects
<1>3. /\ windows' \in Seq(Windows) /\ Len(windows') = Len(windows) + 1
      /\ windows'[1] = [gen |-> g, ip |-> ip, registers |-> rs]
      /\ \A h : Bodies(h)' = {i + 1 : i \in Bodies(h)} \union (IF h = g THEN {1} ELSE {})
      /\ \A h : \A i \in Bodies(h) : i \in Nat \ {0} /\ windows'[i + 1] = windows[i]
  BY <1>2, Pushed DEF ExecuteBody, Inv
<1>4. TypeOK'
  BY <1>1, <1>3 DEF Inv, TypeOK, Windows, Remembered, ExecuteBody
<1>5. ASSUME NEW h \in Existing \ {g}
      PROVE  /\ SoundAt(h)' /\ (h \in reentered' <=> h \in reentered)
             /\ Status(h)' = Status(h) /\ Received(h)' = Received(h)
  <2>1. generators'[h] = generators[h] /\ SoundAt(h)
    BY <1>1 DEF Inv, Sound
  <2>2. /\ Bodies(h)' = {i + 1 : i \in Bodies(h)}
        /\ \A i \in Bodies(h) : i \in Nat /\ windows'[i + 1] = windows[i]
    BY <1>3
  <2>3. h \in Existing /\ 1 \in Int
    OBVIOUS
  <2> QED BY <2>1, <2>2, <2>3, Unmoved
<1>6. g \in Running \union reentered => g \in reentered'
  <2>1. ASSUME g \in Running
        PROVE  g \in reentered'
    <3>1. PICK i \in Bodies(g) : TRUE
      BY <2>1, RunningIs
    <3>2. 1 \in Bodies(g)' /\ i + 1 \in Bodies(g)' /\ i + 1 # 1
      BY <1>3, <3>1
    <3>3. Reentered(g)'
      BY <3>2 DEF Reentered
    <3> QED BY <3>3 DEF Remembered
  <2> QED BY <2>1 DEF Remembered
<1>7. g \notin Running \union reentered =>
          /\ Bodies(g) = {} /\ Bodies(g)' = {1} /\ g \notin reentered'
  <2> SUFFICES ASSUME g \notin Running \union reentered
               PROVE  /\ Bodies(g) = {} /\ Bodies(g)' = {1} /\ g \notin reentered'
    OBVIOUS
  <2>1. Bodies(g) = {}
    BY RunningIs
  <2>2. Bodies(g)' = {1}
    BY <1>3, <2>1
  <2>3. ~Reentered(g)'
    BY <1>1, <2>2 DEF Reentered, Completed, Objects
  <2> QED BY <2>1, <2>2, <2>3 DEF Remembered
<1>8. SoundAt(g)'
  BY <1>1, <1>6, <1>7 DEF SoundAt, Objects
<1>9. Inv'
  BY <1>1, <1>4, <1>5, <1>8 DEF Inv, Sound
<1>10. /\ StatusMap' = [StatusMap EXCEPT ![g] = Status(g)']
       /\ ReceivedMap' = [ReceivedMap EXCEPT ![g] = Received(g)']
  BY <1>1, <1>5, Mapped
<1>11. Calls' = Cons(g, Calls)
  BY <1>1, <1>4, CallsPushed DEF ExecuteBody, Inv
<1>12. CASE g \in Running \union reentered
  <2>1. Status(g) \in {"running", "misused"} /\ Status(g)' = "misused" /\ Received(g)' = <<>>
    BY <1>6, <1>12 DEF Status, Received
  <2>2. Protocol!Misuse(g)
    BY <1>10, <1>11, <2>1
       DEF Protocol!Misuse, Protocol!Cons, Cons, StatusMap, ReceivedMap, Calls, ExecuteBody
  <2> QED BY <1>9, <2>2
<1>13. CASE g \notin Running \union reentered
  <2>1. Status(g) = IF generators[g].state = "Created" THEN "start" ELSE "yielded"
    BY <1>13 DEF Status
  <2>2. Received(g) = IF generators[g].state = "Created" THEN <<generators[g].args>>
                      ELSE generators[g].locals
    BY <1>13 DEF Received
  <2>3. g \in Running'
    BY <1>7, <1>13 DEF Running, Bodies
  <2>4. Status(g)' = "running"
    BY <1>7, <1>13, <2>3 DEF Status
  <2>5. (CHOOSE j \in DOMAIN windows' : windows'[j].gen = g) = 1
    BY <1>7, <1>13 DEF Bodies
  <2>6. Received(g)' = rs
    <3>1. Received(g)' = windows'[1].registers
      BY <1>7, <1>13, <2>3, <2>5 DEF Received
    <3> QED BY <1>3, <3>1
  <2>7. rs = IF Status(g) = "start" THEN Received(g) ELSE Append(Received(g), x)
    BY <2>1, <2>2
  <2>8. Protocol!Resume(g, x)
    BY <1>10, <1>11, <2>1, <2>4, <2>6, <2>7
       DEF Protocol!Resume, Protocol!Cons, Cons, StatusMap, ReceivedMap, Calls, ExecuteBody
  <2> QED BY <1>9, <2>8
<1> QED BY <1>12, <1>13

(* A yield or the end of a body leaves the others as they are.               *)
LEMMA LeavesOthers ==
    ASSUME Inv, Remembered, windows # <<>>, RestoreCaller, NEW g, g = Innermost.gen,
           NEW o \in Objects, generators' = [generators EXCEPT ![g] = o],
           UNCHANGED crashed,
           g \notin reentered =>
               o.state = "Completed" \/ (o.state = "Suspended" /\ o.saved_ip > 0)
    PROVE  /\ Inv' /\ g \in Existing
           /\ StatusMap' = [StatusMap EXCEPT ![g] = Status(g)']
           /\ ReceivedMap' = [ReceivedMap EXCEPT ![g] = Received(g)']
           /\ Calls' = Tail(Calls) /\ Calls # <<>> /\ Head(Calls) = g
           /\ g \in reentered => g \in reentered'
           /\ g \notin reentered =>
                 /\ g \notin reentered' /\ g \in Running /\ g \notin Running'
                 /\ Received(g) = Innermost.registers
           /\ Innermost.registers \in Seq(Vals) /\ Innermost.ip \in Nat
<1>1. /\ windows' \in Seq(Windows)
      /\ Innermost \in Windows
      /\ 1 \in Bodies(g)
      /\ \A h : Bodies(h)' = {i - 1 : i \in Bodies(h) \ {1}}
      /\ \A h : \A i \in Bodies(h) : i \in Nat \ {0} /\ (i # 1 => windows'[i - 1] = windows[i])
  BY Popped DEF Inv
<1>2. g \in Existing /\ Innermost.registers \in Seq(Vals) /\ Innermost.ip \in Nat
  BY <1>1 DEF Windows
<1>3. /\ generators'[g] = o
      /\ \A h \in Existing \ {g} : generators'[h] = generators[h]
      /\ Existing' = Existing /\ generators' \in [Existing -> Objects]
  <2>1. generators \in [Existing -> Objects]
    BY DEF Inv, TypeOK
  <2>2. g \in Existing
    BY <1>2
  <2> HIDE DEF Existing
  <2>3. DOMAIN generators' = DOMAIN generators
    BY <2>1
  <2>4. Existing' = Existing
    BY <2>3 DEF Existing
  <2> QED BY <2>1, <2>2, <2>4
<1>4. TypeOK'
  BY <1>1, <1>3 DEF Inv, TypeOK, Windows, Remembered
<1>5. ASSUME NEW h \in Existing \ {g}
      PROVE  /\ SoundAt(h)' /\ (h \in reentered' <=> h \in reentered)
             /\ Status(h)' = Status(h) /\ Received(h)' = Received(h)
  <2>1. generators'[h] = generators[h] /\ SoundAt(h)
    BY <1>3 DEF Inv, Sound
  <2>2. 1 \notin Bodies(h)
    BY <1>1 DEF Bodies
  <2>3. Bodies(h)' = {i + (-1) : i \in Bodies(h)}
    <3>1. Bodies(h)' = {i - 1 : i \in Bodies(h)}
      BY <1>1, <2>2
    <3>2. \A i \in Bodies(h) : i - 1 = i + (-1)
      BY <1>1
    <3> QED BY <3>1, <3>2
  <2>4. \A i \in Bodies(h) : i \in Nat /\ windows'[i + (-1)] = windows[i]
    <3>1. ASSUME NEW i \in Bodies(h)
          PROVE  i \in Nat /\ windows'[i + (-1)] = windows[i]
      <4>1. i \in Nat /\ i - 1 = i + (-1) /\ windows'[i - 1] = windows[i]
        BY <1>1, <2>2
      <4> QED BY <4>1
    <3> QED BY <3>1
  <2>5. h \in Existing /\ -1 \in Int
    OBVIOUS
  <2> QED BY <2>1, <2>3, <2>4, <2>5, Unmoved
<1>6. g \in reentered => g \in reentered'
  BY DEF Remembered
<1>7. ASSUME g \notin reentered
      PROVE  /\ Bodies(g) = {1} /\ Bodies(g)' = {}
             /\ g \notin reentered' /\ g \in Running /\ g \notin Running'
             /\ Received(g) = Innermost.registers
  <2>1. \A i, j \in Bodies(g) : i = j
    BY <1>2, <1>7 DEF Inv, Sound, SoundAt
  <2>2. Bodies(g) = {1} /\ Bodies(g)' = {}
    BY <1>1, <2>1
  <2>3. g \in Running /\ g \notin Running'
    BY <2>2, RunningIs DEF Running, Bodies
  <2>4. g \notin reentered'
    BY <1>7, <2>2 DEF Remembered, Reentered
  <2>5. (CHOOSE j \in DOMAIN windows : windows[j].gen = g) = 1
    BY <1>1, <2>1, OnlyBody
  <2>6. Received(g) = Innermost.registers
    BY <1>7, <2>3, <2>5 DEF Received, Innermost
  <2> QED BY <2>2, <2>3, <2>4, <2>6
<1>8. SoundAt(g)'
  BY <1>3, <1>6, <1>7 DEF SoundAt
<1>9. Inv'
  BY <1>3, <1>4, <1>5, <1>8 DEF Inv, Sound
<1>10. /\ StatusMap' = [StatusMap EXCEPT ![g] = Status(g)']
       /\ ReceivedMap' = [ReceivedMap EXCEPT ![g] = Received(g)']
  BY <1>2, <1>3, <1>5, Mapped
<1>11. Calls' = Tail(Calls) /\ Calls # <<>> /\ Head(Calls) = g
  BY <1>3, <1>4, CallsPopped DEF Inv
<1> QED BY <1>2, <1>6, <1>7, <1>9, <1>10, <1>11

LEMMA Yields ==
    ASSUME Inv, Remembered, Yield
    PROVE  Inv' /\ \E g \in Existing : Protocol!Yield(g)
<1>g. PICK g : g = Innermost.gen
  OBVIOUS
<1>o. PICK o : o = [generators[g] EXCEPT !.saved_ip = Innermost.ip + 1,
                                         !.locals = Innermost.registers]
  OBVIOUS
<1>1. /\ Innermost \in Windows
      /\ Innermost.gen \in Existing /\ Innermost.ip \in Nat /\ Innermost.registers \in Seq(Vals)
  <2>1. Innermost \in Windows
    BY Popped DEF Inv, Yield
  <2> QED BY <2>1 DEF Windows
<1>2. generators[g] \in Objects /\ g \in Existing
  BY <1>g, <1>1 DEF Inv, TypeOK
<1>3. o \in Objects /\ o.state = generators[g].state /\ o.saved_ip > 0 /\ o.locals = Innermost.registers
  <2>1. o.state = generators[g].state /\ o.saved_ip = Innermost.ip + 1 /\ o.locals = Innermost.registers
    BY <1>o, <1>2 DEF Objects
  <2>2. Innermost.ip + 1 \in Nat /\ Innermost.ip + 1 > 0
    BY <1>1
  <2>3. o \in Objects
    BY <1>o, <1>1, <1>2, <2>2 DEF Objects
  <2> QED BY <2>1, <2>2, <2>3
<1>4. generators' = [generators EXCEPT ![g] = o]
  BY <1>g, <1>o DEF Yield, SaveRegisters
<1>5. g \notin reentered => generators[g].state = "Suspended"
  <2>1. 1 \in Bodies(g)
    BY <1>g, Popped DEF Inv, Yield
  <2> QED BY <1>2, <2>1 DEF Inv, Sound, SoundAt, Objects, States
<1>6. g \notin reentered => o.state = "Completed" \/ (o.state = "Suspended" /\ o.saved_ip > 0)
  BY <1>3, <1>5
<1>7. windows # <<>> /\ RestoreCaller /\ crashed' = crashed
      /\ out' = MakeIteratorResult(Innermost.registers, FALSE)
  BY DEF Yield
<1>8. generators'[g] = o
  BY <1>2, <1>4 DEF Existing
<1>9. /\ Inv' /\ g \in Existing
      /\ StatusMap' = [StatusMap EXCEPT ![g] = Status(g)']
      /\ ReceivedMap' = [ReceivedMap EXCEPT ![g] = Received(g)']
      /\ Calls' = Tail(Calls) /\ Calls # <<>> /\ Head(Calls) = g
      /\ g \in reentered => g \in reentered'
      /\ g \notin reentered =>
            /\ g \notin reentered' /\ g \in Running /\ g \notin Running'
            /\ Received(g) = Innermost.registers
  BY <1>3, <1>4, <1>6, <1>7, <1>g, LeavesOthers
<1>10. /\ StatusMap[g] = Status(g) /\ ReceivedMap[g] = Received(g)
       /\ ReceivedMap = [ReceivedMap EXCEPT ![g] = ReceivedMap[g]]
  BY <1>9 DEF StatusMap, ReceivedMap
<1>11. CASE g \in reentered
  <2>1. Status(g) = "misused" /\ Status(g)' = "misused" /\ Received(g) = <<>> /\ Received(g)' = <<>>
    BY <1>9, <1>11 DEF Status, Received
  <2>2. out' # <<>> /\ Head(out') = "result" /\ out'[3] = FALSE
    BY <1>7 DEF MakeIteratorResult
  <2>3. ReceivedMap' = ReceivedMap /\ StatusMap' = [StatusMap EXCEPT ![g] = StatusMap[g]]
    BY <1>9, <1>10, <2>1
  <2>4. Protocol!Yield(g)
    BY <1>9, <1>10, <2>1, <2>2, <2>3
       DEF Protocol!Yield, Protocol!Misused, Protocol!Answers, StatusMap, ReceivedMap, Calls
  <2> QED BY <1>9, <2>4
<1>12. CASE g \notin reentered
  <2>1. Status(g) = "running"
    BY <1>9, <1>12 DEF Status
  <2>2. Status(g)' = "yielded" /\ Received(g)' = Received(g)
    BY <1>3, <1>5, <1>8, <1>9, <1>12 DEF Status, Received
  <2>3. out' = Protocol!Result(Received(g), FALSE)
    BY <1>7, <1>9, <1>12 DEF MakeIteratorResult, Protocol!Result
  <2>4. Protocol!Yield(g)
    BY <1>9, <1>10, <2>1, <2>2, <2>3
       DEF Protocol!Yield, Protocol!Misused, Protocol!Answers, StatusMap, ReceivedMap, Calls
  <2> QED BY <1>9, <2>4
<1> QED BY <1>11, <1>12

LEMMA Finishes ==
    ASSUME Inv, Remembered, Finish
    PROVE  Inv' /\ \E g \in Existing : Protocol!Finish(g)
<1>g. PICK g : g = Innermost.gen
  OBVIOUS
<1>o. PICK o : o = [generators[g] EXCEPT !.state = "Completed"]
  OBVIOUS
<1>1. g \in Existing
  <2>1. Innermost \in Windows
    BY Popped DEF Inv, Finish
  <2> QED BY <1>g, <2>1 DEF Windows
<1>2. generators[g] \in Objects
  BY <1>1 DEF Inv, TypeOK
<1>3. o \in Objects /\ o.state = "Completed"
  BY <1>o, <1>2 DEF Objects, States
<1>4. generators' = [generators EXCEPT ![g] = o]
  BY <1>g, <1>o DEF Finish
<1>5. windows # <<>> /\ RestoreCaller /\ crashed' = crashed
      /\ out' = MakeIteratorResult(Innermost.registers, TRUE)
  BY DEF Finish
<1>6. generators'[g] = o
  BY <1>1, <1>4 DEF Existing
<1>7. /\ Inv' /\ g \in Existing
      /\ StatusMap' = [StatusMap EXCEPT ![g] = Status(g)']
      /\ ReceivedMap' = [ReceivedMap EXCEPT ![g] = Received(g)']
      /\ Calls' = Tail(Calls) /\ Calls # <<>> /\ Head(Calls) = g
      /\ g \in reentered => g \in reentered'
      /\ g \notin reentered =>
            /\ g \notin reentered' /\ g \in Running /\ g \notin Running'
            /\ Received(g) = Innermost.registers
  BY <1>3, <1>4, <1>5, <1>g, LeavesOthers
<1>8. StatusMap[g] = Status(g) /\ ReceivedMap[g] = Received(g)
  BY <1>1 DEF StatusMap, ReceivedMap
<1>9. CASE g \in reentered
  <2>1. Status(g) = "misused" /\ Status(g)' = "misused" /\ Received(g)' = <<>>
    BY <1>7, <1>9 DEF Status, Received
  <2>2. out' # <<>> /\ Head(out') = "result" /\ out'[3] = TRUE
    BY <1>5 DEF MakeIteratorResult
  <2>3. StatusMap' = [StatusMap EXCEPT ![g] = StatusMap[g]]
    BY <1>7, <1>8, <2>1
  <2>4. Protocol!Finish(g)
    BY <1>7, <1>8, <2>1, <2>2, <2>3
       DEF Protocol!Finish, Protocol!Misused, Protocol!Answers, StatusMap, ReceivedMap, Calls
  <2> QED BY <1>7, <2>4
<1>10. CASE g \notin reentered
  <2>1. Status(g) = "running"
    BY <1>7, <1>10 DEF Status
  <2>2. Status(g)' = "completed" /\ Received(g)' = <<>>
    BY <1>3, <1>6, <1>7, <1>10 DEF Status, Received
  <2>3. out' = Protocol!Result(Received(g), TRUE)
    BY <1>5, <1>7, <1>10 DEF MakeIteratorResult, Protocol!Result
  <2>4. Protocol!Finish(g)
    BY <1>7, <1>8, <2>1, <2>2, <2>3
       DEF Protocol!Finish, Protocol!Misused, Protocol!Answers, StatusMap, ReceivedMap, Calls
  <2> QED BY <1>7, <2>4
<1> QED BY <1>9, <1>10

(* Nothing moves.                                                            *)
LEMMA Stays ==
    ASSUME Inv, Remembered, UNCHANGED <<generators, windows>>, crashed' \in BOOLEAN
    PROVE  Inv' /\ StatusMap' = StatusMap /\ ReceivedMap' = ReceivedMap /\ Calls' = Calls
<1>1. Existing' = Existing
  BY DEF Existing
<1>2. \A h \in Existing : /\ SoundAt(h)' /\ (h \in reentered' <=> h \in reentered)
                          /\ Status(h)' = Status(h) /\ Received(h)' = Received(h)
  BY UnmovedInPlace DEF Inv, Sound
<1>3. reentered' = reentered
  BY <1>2 DEF Remembered, Inv, TypeOK
<1>4. TypeOK'
  BY <1>1, <1>3 DEF Inv, TypeOK, Windows
<1>5. Inv'
  BY <1>1, <1>2, <1>4 DEF Inv, Sound
<1> QED BY <1>1, <1>2, <1>5 DEF StatusMap, ReceivedMap, Calls

LEMMA CompletedAnswers ==
    ASSUME Inv, Remembered, NEW g \in Existing, NextOfCompleted(g)
    PROVE  Inv' /\ (Protocol!AlreadyDone(g) \/ Protocol!Misuse(g))
<1>1. Inv' /\ StatusMap' = StatusMap /\ ReceivedMap' = ReceivedMap /\ Calls' = Calls
  BY Stays DEF NextOfCompleted, Inv, TypeOK
<1>2. out' = Protocol!Result(Undefined, TRUE)
  BY DEF NextOfCompleted, MakeIteratorResult, Protocol!Result
<1>3. StatusMap[g] = Status(g) /\ ReceivedMap[g] = Received(g)
  BY DEF StatusMap, ReceivedMap
<1>4. CASE g \in reentered
  <2>1. Status(g) = "misused" /\ Received(g) = <<>>
    BY <1>4 DEF Status, Received
  <2>2. StatusMap = [StatusMap EXCEPT ![g] = "misused"] /\ ReceivedMap = [ReceivedMap EXCEPT ![g] = <<>>]
    BY <2>1 DEF StatusMap, ReceivedMap
  <2>3. Protocol!Misuse(g)
    BY <1>1, <1>2, <1>3, <2>1, <2>2 DEF Protocol!Misuse, StatusMap, ReceivedMap, Calls
  <2> QED BY <1>1, <2>3
<1>5. CASE g \notin reentered
  <2>1. Bodies(g) = {}
    BY <1>5 DEF Inv, Sound, SoundAt, NextOfCompleted
  <2>2. Status(g) = "completed"
    BY <1>5, <2>1, RunningIs DEF Status, NextOfCompleted
  <2>3. Protocol!AlreadyDone(g)
    BY <1>1, <1>2, <1>3, <2>2 DEF Protocol!AlreadyDone, StatusMap, ReceivedMap, Calls
  <2> QED BY <1>1, <2>3
<1> QED BY <1>4, <1>5

LEMMA Panics ==
    ASSUME Inv, Remembered, NEW g \in Existing, NextPanics(g)
    PROVE  Inv' /\ Protocol!Crash
<1>1. Inv' /\ StatusMap' = StatusMap /\ ReceivedMap' = ReceivedMap /\ Calls' = Calls
  BY Stays DEF NextPanics
<1>2. Status(g) \in {"running", "misused"}
  <2>1. g \in reentered \/ Bodies(g) # {}
    BY DEF Inv, Sound, SoundAt, NextPanics
  <2> QED BY <2>1, RunningIs DEF Status
<1>3. StatusMap[g] = Status(g)
  BY DEF StatusMap
<1>4. Protocol!Crash
  <2>1. g \in Protocol!Existing
    BY DEF Protocol!Existing
  <2> QED BY <1>1, <1>2, <1>3, <2>1 DEF Protocol!Crash, NextPanics, StatusMap, ReceivedMap, Calls
<1> QED BY <1>1, <1>4

LEMMA Returns ==
    ASSUME Inv, Remembered, NEW g \in Existing, NEW x \in Vals, Return(g, x)
    PROVE  Inv' /\ (Protocol!Return(g, x) \/ Protocol!Misuse(g))
<1>1. /\ generators'[g] = [generators[g] EXCEPT !.state = "Completed"]
      /\ generators'[g].state = "Completed"
      /\ \A h \in Existing \ {g} : generators'[h] = generators[h]
      /\ Existing' = Existing /\ generators' \in [Existing -> Objects]
  <2>1. generators \in [Existing -> Objects]
    BY DEF Inv, TypeOK
  <2>2. generators[g] \in Objects
    BY <2>1
  <2>3. /\ [generators[g] EXCEPT !.state = "Completed"] \in Objects
        /\ [generators[g] EXCEPT !.state = "Completed"].state = "Completed"
    BY <2>2 DEF Objects, States
  <2>4. generators' = [generators EXCEPT ![g] = [generators[g] EXCEPT !.state = "Completed"]]
    BY DEF Return
  <2> HIDE DEF Existing
  <2>5. DOMAIN generators' = DOMAIN generators
    BY <2>1, <2>4
  <2>6. Existing' = Existing
    BY <2>5 DEF Existing
  <2> QED BY <2>1, <2>2, <2>3, <2>4, <2>6
<1>2. windows' = windows /\ crashed' = crashed /\ out' = Protocol!Result(x, TRUE)
  BY DEF Return, MakeIteratorResult, Protocol!Result
<1>3. TypeOK'
  BY <1>1, <1>2 DEF Inv, TypeOK, Windows, Remembered
<1>4. \A h \in Existing \ {g} :
          /\ SoundAt(h)' /\ (h \in reentered' <=> h \in reentered)
          /\ Status(h)' = Status(h) /\ Received(h)' = Received(h)
  BY <1>1, <1>2, UnmovedInPlace DEF Inv, Sound
<1>5. Bodies(g)' = Bodies(g)
  BY <1>2 DEF Bodies
<1>6. g \in reentered' <=> g \in reentered \/ g \in Running
  <2>1. Bodies(g) # {} => Reentered(g)'
    BY <1>1, <1>5 DEF Reentered, Completed
  <2>2. Bodies(g) = {} => ~Reentered(g)'
    BY <1>5 DEF Reentered
  <2> QED BY <2>1, <2>2, RunningIs DEF Remembered
<1>7. SoundAt(g)'
  BY <1>1, <1>5, <1>6, RunningIs DEF SoundAt
<1>8. Inv'
  BY <1>1, <1>3, <1>4, <1>7 DEF Inv, Sound
<1>9. /\ StatusMap' = [StatusMap EXCEPT ![g] = Status(g)']
      /\ ReceivedMap' = [ReceivedMap EXCEPT ![g] = Received(g)']
  BY <1>1, <1>4, Mapped
<1>10. Calls' = Calls /\ StatusMap[g] = Status(g)
  BY <1>2 DEF Calls, StatusMap
<1>11. CASE g \in Running \union reentered
  <2>1. Status(g) \in {"running", "misused"} /\ Status(g)' = "misused" /\ Received(g)' = <<>>
    BY <1>6, <1>11 DEF Status, Received
  <2>2. Protocol!Misuse(g)
    BY <1>2, <1>9, <1>10, <2>1 DEF Protocol!Misuse, StatusMap, ReceivedMap, Calls
  <2> QED BY <1>8, <2>2
<1>12. CASE g \notin Running \union reentered
  <2>1. Status(g) \notin {"running", "misused"}
    <3>1. generators[g].state \in States
      BY DEF Inv, TypeOK, Objects
    <3> QED BY <1>12, <3>1 DEF Status, States
  <2>2. g \notin Running'
    BY <1>2, <1>12 DEF Running
  <2>3. Status(g)' = "completed" /\ Received(g)' = <<>>
    BY <1>1, <1>6, <1>12, <2>2 DEF Status, Received
  <2>4. Protocol!Return(g, x)
    BY <1>2, <1>9, <1>10, <2>1, <2>3 DEF Protocol!Return, StatusMap, ReceivedMap, Calls
  <2> QED BY <1>8, <2>4
<1> QED BY <1>11, <1>12

(* An error leaves no window, and nothing of what ended.                     *)
LEMMA Fails ==
    ASSUME Inv, Remembered, NEW stopped \in SUBSET Existing, Failed(stopped)
    PROVE  Inv' /\ Protocol!Fail(stopped)
<1> DEFINE ended == Running \union stopped
<1>1. /\ Existing' = Existing
      /\ \A h \in Existing :
             generators'[h] = IF h \in ended THEN [generators[h] EXCEPT !.state = "Completed"]
                              ELSE generators[h]
  BY DEF Failed, Existing
<1>2. \A h \in Existing : h \in ended => generators'[h].state = "Completed"
  BY <1>1 DEF Inv, TypeOK, Objects
<1>3. windows' = <<>> /\ crashed' = crashed /\ out' = <<"error">>
  BY DEF Failed
<1>4. \A h : Bodies(h)' = {}
  BY <1>3 DEF Bodies
<1>5. reentered' = reentered
  BY <1>4 DEF Remembered, Reentered
<1>6. TypeOK'
  <2>1. \A h \in Existing : generators[h] \in Objects
    BY DEF Inv, TypeOK
  <2>2. \A h \in Existing : generators'[h] \in Objects
    BY <1>1, <2>1 DEF Objects, States
  <2>3. generators' \in [Existing' -> Objects]
    BY <1>1, <2>2 DEF Failed
  <2>4. windows' \in Seq(Windows')
    BY <1>3
  <2> QED BY <1>1, <1>3, <1>5, <2>3, <2>4 DEF Inv, TypeOK
<1>7. ASSUME NEW h \in Existing
      PROVE  SoundAt(h)'
  <2>1. SoundAt(h)
    BY DEF Inv, Sound
  <2>2. CASE h \in ended
    BY <1>2, <1>4, <2>2 DEF SoundAt
  <2>3. CASE h \notin ended
    <3>1. generators'[h] = generators[h] /\ Bodies(h) = {}
      BY <1>1, <2>3, RunningIs
    <3> QED BY <1>4, <1>5, <2>1, <3>1 DEF SoundAt
  <2> QED BY <2>2, <2>3
<1>8. Inv'
  BY <1>1, <1>6, <1>7 DEF Inv, Sound
<1>9. Running' = {}
  BY <1>3 DEF Running
<1>10. ASSUME NEW h \in Existing
       PROVE  /\ Status(h)' = IF h \in ended /\ Status(h) # "misused" THEN "completed" ELSE Status(h)
              /\ Received(h)' = IF h \in ended THEN <<>> ELSE Received(h)
  <2>0. Status(h) = "misused" <=> h \in reentered
    <3>1. generators[h].state \in States
      BY DEF Inv, TypeOK, Objects
    <3> QED BY <3>1 DEF Status, States
  <2>1. CASE h \in reentered
    BY <1>5, <2>0, <2>1 DEF Status, Received
  <2>2. CASE h \notin reentered /\ h \in ended
    BY <1>2, <1>5, <1>9, <2>0, <2>2 DEF Status, Received
  <2>3. CASE h \notin reentered /\ h \notin ended
    BY <1>1, <1>5, <1>9, <2>0, <2>3 DEF Status, Received
  <2> QED BY <2>1, <2>2, <2>3
<1>11. Protocol!Running = Running
  BY DEF Protocol!Running, Running
<1>12. Calls' = <<>>
  BY <1>3, CallsEmptied
<1>13. Protocol!Existing = Existing
  BY DEF Protocol!Existing
<1>14. \A h \in Existing : Protocol!Misused(h) <=> Status(h) = "misused"
  BY DEF Protocol!Misused
<1>15. StatusMap' = [h \in Existing |-> IF h \in ended /\ ~Protocol!Misused(h) THEN "completed"
                                        ELSE StatusMap[h]]
  BY <1>1, <1>10, <1>14 DEF StatusMap
<1>16. ReceivedMap' = [h \in Existing |-> IF h \in ended THEN <<>> ELSE ReceivedMap[h]]
  BY <1>1, <1>10 DEF ReceivedMap
<1>17. Protocol!Fail(stopped)
  BY <1>3, <1>11, <1>12, <1>13, <1>15, <1>16
     DEF Protocol!Fail, StatusMap, ReceivedMap, Calls
<1> QED BY <1>8, <1>17

LEMMA Creates ==
    ASSUME Inv, Remembered, NEW g \in Gens, NEW x \in Vals, CreateGenerator(g, x)
    PROVE  Inv' /\ Protocol!Create(g, x)
<1> DEFINE o == [state |-> "Created", saved_ip |-> 0, locals |-> <<>>, args |-> x]
<1>1. /\ g \notin Existing /\ Existing' = Existing \union {g}
      /\ generators' = [h \in Existing \union {g} |-> IF h = g THEN o ELSE generators[h]]
      /\ generators'[g] = o
      /\ \A h \in Existing : generators'[h] = generators[h]
  BY DEF CreateGenerator, Existing
<1>2. o \in Objects
  BY DEF Objects, States
<1>3. windows' = windows /\ crashed' = crashed /\ out' = <<>>
  BY DEF CreateGenerator
<1>4. \A h \in Existing : /\ SoundAt(h)' /\ (h \in reentered' <=> h \in reentered)
                          /\ Status(h)' = Status(h) /\ Received(h)' = Received(h)
  BY <1>1, <1>3, UnmovedInPlace DEF Inv, Sound
<1>5. reentered' = reentered
  BY <1>4 DEF Remembered, Inv, TypeOK
<1>6. TypeOK'
  <2>1. generators' \in [Existing' -> Objects]
    BY <1>1, <1>2 DEF Inv, TypeOK
  <2>2. Windows \subseteq Windows'
    BY <1>1 DEF Windows
  <2>3. windows' \in Seq(Windows')
    BY <1>3, <2>2, SeqMonotonic DEF Inv, TypeOK
  <2> QED BY <1>1, <1>3, <1>5, <2>1, <2>3 DEF Inv, TypeOK
<1>7. g \notin reentered' /\ g \notin Running' /\ Bodies(g)' = {}
  <2>1. \A i \in DOMAIN windows : windows[i] \in Windows
    BY DEF Inv, TypeOK
  <2>2. \A i \in DOMAIN windows : windows[i].gen \in Existing
    BY <2>1 DEF Windows
  <2>3. Bodies(g) = {} /\ g \notin Running
    BY <1>1, <2>2 DEF Bodies, Running
  <2> QED BY <1>1, <1>3, <1>5, <2>3 DEF Bodies, Running, Inv, TypeOK
<1>8. SoundAt(g)'
  BY <1>1, <1>7 DEF SoundAt
<1>9. Inv'
  BY <1>1, <1>4, <1>6, <1>8 DEF Inv, Sound
<1>10. Status(g)' = "start" /\ Received(g)' = <<x>>
  BY <1>1, <1>7 DEF Status, Received
<1>11. /\ StatusMap' = [h \in Existing \union {g} |-> IF h = g THEN "start" ELSE StatusMap[h]]
       /\ ReceivedMap' = [h \in Existing \union {g} |-> IF h = g THEN <<x>> ELSE ReceivedMap[h]]
  BY <1>1, <1>4, <1>10 DEF StatusMap, ReceivedMap
<1>12. Protocol!Existing = Existing
  BY DEF Protocol!Existing
<1>13. Protocol!Create(g, x)
  BY <1>1, <1>3, <1>11, <1>12 DEF Protocol!Create, StatusMap, ReceivedMap, Calls
<1> QED BY <1>9, <1>13

-----------------------------------------------------------------------------
(***************************************************************************)
(* All steps                                                               *)
(***************************************************************************)

(* Every step keeps the invariant and is one of the protocol.                *)
LEMMA StepIsProtocol ==
    ASSUME Inv, HistoryNext
    PROVE  Inv' /\ Protocol!Next
<1>1. Remembered /\ ~crashed
  BY DEF HistoryNext, Next, Remembered
<1>2. Protocol!Existing = Existing
  BY DEF Protocol!Existing
<1>3. ASSUME NEW g \in Gens, NEW x \in Vals, CreateGenerator(g, x)
      PROVE  Inv' /\ Protocol!Next
  BY <1>1, <1>3, Creates DEF CreateGenerator, Protocol!Next, Protocol!Step
<1>4. ASSUME NEW g \in Existing, NEW x \in Vals, Next_(g, x)
      PROVE  Inv' /\ Protocol!Next
  <2>1. CASE NextOfCompleted(g)
    BY <1>1, <1>2, <2>1, CompletedAnswers DEF NextOfCompleted, Protocol!Next, Protocol!Step
  <2>2. CASE FirstNext(g)
    <3>1. generators[g].state = "Created" /\ crashed' = crashed
      BY <2>2 DEF FirstNext, ExecuteBody
    <3>2. Protocol!Resume(g, x) \/ Protocol!Misuse(g)
      BY <1>1, <2>2, <3>1, Enters DEF FirstNext
    <3>3. Inv'
      BY <1>1, <2>2, <3>1, Enters DEF FirstNext
    <3> QED BY <1>1, <1>2, <3>1, <3>2, <3>3 DEF Protocol!Next, Protocol!Step
  <2>3. CASE LaterNext(g, x)
    <3>1. generators[g].state = "Suspended" /\ generators[g].saved_ip > 0 /\ crashed' = crashed
      BY <2>3 DEF LaterNext, ExecuteBody
    <3>2. generators[g] \in Objects
      BY DEF Inv, TypeOK
    <3>3. generators' = [generators EXCEPT ![g].state = "Suspended"]
      <4>1. [generators[g] EXCEPT !.state = "Suspended"] = generators[g]
        BY <3>1, <3>2 DEF Objects
      <4> QED BY <2>3, <4>1 DEF LaterNext, Inv, TypeOK
    <3>4. generators[g].saved_ip \in Nat
      BY <3>2 DEF Objects
    <3>5. Append(generators[g].locals, x) = IF generators[g].state = "Created" THEN <<generators[g].args>>
                                            ELSE Append(generators[g].locals, x)
      BY <3>1
    <3>6. ExecuteBody(g, generators[g].saved_ip, Append(generators[g].locals, x))
      BY <2>3 DEF LaterNext
    <3>7. Inv' /\ (Protocol!Resume(g, x) \/ Protocol!Misuse(g))
      BY <1>1, <3>1, <3>3, <3>4, <3>5, <3>6, Enters
    <3> QED BY <1>1, <1>2, <3>1, <3>7 DEF Protocol!Next, Protocol!Step
  <2>4. CASE NextPanics(g)
    BY <1>1, <2>4, Panics DEF Protocol!Next
  <2>5. CASE StackOverflow(g)
    <3>1. Inv' /\ Protocol!Fail({g}) /\ crashed' = crashed
      BY <1>1, <2>5, Fails DEF StackOverflow, Failed
    <3> QED BY <1>1, <1>2, <3>1 DEF Protocol!Next, Protocol!Step
  <2> QED BY <1>4, <2>1, <2>2, <2>3, <2>4, <2>5 DEF Next_
<1>5. ASSUME NEW g \in Existing, NEW x \in Vals, Return(g, x)
      PROVE  Inv' /\ Protocol!Next
  BY <1>1, <1>2, <1>5, Returns DEF Return, Protocol!Next, Protocol!Step
<1>6. ASSUME NEW g \in Existing, Throw(g)
      PROVE  Inv' /\ Protocol!Next
  <2>1. Inv' /\ Protocol!Fail({g}) /\ crashed' = crashed
    BY <1>1, <1>6, Fails DEF Throw, Failed
  <2> QED BY <1>1, <1>2, <2>1 DEF Protocol!Next, Protocol!Step
<1>7. CASE Yield
  <2>1. crashed' = crashed
    BY <1>7 DEF Yield
  <2> QED BY <1>1, <1>2, <1>7, <2>1, Yields DEF Protocol!Next, Protocol!Step
<1>8. CASE Finish
  <2>1. crashed' = crashed
    BY <1>8 DEF Finish
  <2> QED BY <1>1, <1>2, <1>8, <2>1, Finishes DEF Protocol!Next, Protocol!Step
<1>9. CASE Fail
  <2>1. Inv' /\ Protocol!Fail({}) /\ crashed' = crashed
    BY <1>1, <1>9, Fails DEF Fail, Failed
  <2> QED BY <1>1, <1>2, <2>1 DEF Protocol!Next, Protocol!Step
<1> QED BY <1>3, <1>4, <1>5, <1>6, <1>7, <1>8, <1>9 DEF HistoryNext, Next

(* A step that changes nothing keeps the invariant and the protocol's state. *)
LEMMA Stutters ==
    ASSUME UNCHANGED hvars
    PROVE  (Inv => Inv') /\ UNCHANGED Protocol!vars
<1>1. Inv => Inv'
  BY DEF hvars, Inv, TypeOK, Sound, SoundAt, Bodies, Windows, Existing
<1>2. \A g : Status(g)' = Status(g) /\ Received(g)' = Received(g)
  BY DEF hvars, Status, Received, Running
<1> QED BY <1>1, <1>2 DEF hvars, Protocol!vars, Existing

LEMMA Starts ==
    ASSUME HistoryInit
    PROVE  Inv /\ Protocol!Init
<1>1. Existing = {} /\ windows = <<>> /\ reentered = {} /\ out = <<>> /\ crashed = FALSE
  BY DEF HistoryInit, Init, Existing
<1>2. Inv
  <2>1. generators \in [Existing -> Objects]
    BY <1>1 DEF HistoryInit, Init
  <2>2. windows \in Seq(Windows)
    BY <1>1
  <2>3. TypeOK
    BY <1>1, <2>1, <2>2 DEF TypeOK
  <2>4. Sound
    BY <1>1 DEF Sound
  <2> QED BY <2>3, <2>4 DEF Inv
<1>3. [g \in Existing |-> Status(g)] = [g \in {} |-> "start"]
  BY <1>1
<1>4. [g \in Existing |-> Received(g)] = [g \in {} |-> <<>>]
  BY <1>1
<1>5. Calls = <<>>
  <2>1. DOMAIN windows = 1 .. 0
    BY <1>1
  <2>2. Calls \in [1 .. 0 -> {}]
    BY <2>1 DEF Calls
  <2>3. Calls \in Seq({}) /\ Len(Calls) = 0
    BY <2>2, SeqDef
  <2>4. <<>> \in Seq({}) /\ Len(<<>>) = 0
    OBVIOUS
  <2> QED BY <2>3, <2>4, SeqEqual
<1> QED BY <1>1, <1>2, <1>3, <1>4, <1>5 DEF Protocol!Init, Calls

(* The invariant holds in every state.                                       *)
LEMMA InvHolds == HistorySpec => []Inv
<1>1. Inv /\ [HistoryNext]_hvars => Inv'
  BY StepIsProtocol, Stutters
<1> QED BY <1>1, Starts, PTL DEF HistorySpec

(* Generators keep the protocol: execute_generator_next, return, throw and   *)
(* yield let each body go on where it left off, and a generator that its own *)
(* body calls does no harm to the others.                                    *)
THEOREM ProtocolImplemented == HistorySpec => ImplementsProtocol
<1>1. Inv /\ [HistoryNext]_hvars => [Protocol!Next]_(Protocol!vars)
  BY StepIsProtocol, Stutters
<1> QED BY <1>1, Starts, InvHolds, PTL DEF HistorySpec, ImplementsProtocol, Protocol!Spec

(* Only next() enters a body, and only of a generator that is not completed; *)
(* no step takes Completed back.                                             *)
LEMMA StepKeepsCompleted ==
    ASSUME Inv, HistoryNext, NEW g \in Existing, Completed(g)
    PROVE  Completed(g)' /\ (Len(windows') > Len(windows) => windows'[1].gen # g)
<1>1. generators \in [Existing -> Objects] /\ windows \in Seq(Windows)
  BY DEF Inv, TypeOK
<1>2. Len(windows) \in Nat
  BY <1>1
<1>3. ASSUME NEW stopped, Failed(stopped)
      PROVE  Completed(g)' /\ Len(windows') = 0
  <2>1. windows' = <<>>
    BY <1>3 DEF Failed
  <2>2. generators'[g] \in {generators[g], [generators[g] EXCEPT !.state = "Completed"]}
    BY <1>3 DEF Failed
  <2> QED BY <1>1, <2>1, <2>2 DEF Completed, Objects
<1>4. CASE \E h \in Gens, x \in Vals : CreateGenerator(h, x)
  BY <1>2, <1>4 DEF CreateGenerator, Completed, Existing
<1>5. ASSUME NEW h \in Existing, NEW x \in Vals, Next_(h, x)
      PROVE  Completed(g)' /\ (Len(windows') > Len(windows) => windows'[1].gen # g)
  <2>1. CASE NextOfCompleted(h) \/ NextPanics(h)
    <3>1. generators' = generators /\ windows' = windows
      BY <2>1 DEF NextOfCompleted, NextPanics
    <3>2. ~(Len(windows') > Len(windows))
      BY <1>2, <3>1
    <3> QED BY <3>1, <3>2 DEF Completed
  <2>2. ASSUME NEW ip, NEW rs, ExecuteBody(h, ip, rs), h # g
        PROVE  windows'[1].gen # g
    <3> DEFINE w == [gen |-> h, ip |-> ip, registers |-> rs]
    <3>1. windows' = <<w>> \o windows
      BY <2>2 DEF ExecuteBody, Cons
    <3>2. w.gen = h
      OBVIOUS
    <3> HIDE DEF w
    <3>3. windows'[1] = w
      BY <1>1, <3>1
    <3> QED BY <2>2, <3>2, <3>3
  <2>3. CASE FirstNext(h)
    <3>1. h # g
      BY <2>3 DEF FirstNext, Completed
    <3>2. Completed(g)'
      BY <1>1, <2>3, <3>1 DEF FirstNext, Completed
    <3> QED BY <2>2, <2>3, <3>1, <3>2 DEF FirstNext
  <2>4. CASE LaterNext(h, x)
    <3>1. h # g
      BY <2>4 DEF LaterNext, Completed
    <3>2. Completed(g)'
      BY <2>4 DEF LaterNext, Completed
    <3> QED BY <2>2, <2>4, <3>1, <3>2 DEF LaterNext
  <2>5. CASE StackOverflow(h)
    BY <1>2, <1>3, <2>5 DEF StackOverflow
  <2> QED BY <1>5, <2>1, <2>3, <2>4, <2>5 DEF Next_
<1>6. ASSUME NEW h \in Existing, NEW x \in Vals, Return(h, x)
      PROVE  Completed(g)' /\ windows' = windows
  <2>1. generators'[g] \in {generators[g], [generators[g] EXCEPT !.state = "Completed"]}
    BY <1>1, <1>6 DEF Return
  <2> QED BY <1>1, <1>6, <2>1 DEF Return, Completed, Objects
<1>7. CASE Yield
  <2>1. Len(windows') < Len(windows) /\ Len(windows') \in Nat
    BY <1>1, <1>7 DEF Yield, RestoreCaller
  <2>2. generators'[g].state = generators[g].state
    BY <1>1, <1>7 DEF Yield, SaveRegisters, Objects
  <2> QED BY <1>2, <2>1, <2>2 DEF Completed
<1>8. CASE Finish
  <2>1. Len(windows') < Len(windows) /\ Len(windows') \in Nat
    BY <1>1, <1>8 DEF Finish, RestoreCaller
  <2>2. generators'[g] \in {generators[g], [generators[g] EXCEPT !.state = "Completed"]}
    BY <1>1, <1>8 DEF Finish
  <2>3. Completed(g)'
    BY <1>1, <2>2 DEF Completed, Objects
  <2> QED BY <1>2, <2>1, <2>3
<1>9. CASE Fail
  BY <1>2, <1>3, <1>9 DEF Fail
<1>10. ASSUME NEW h \in Existing, Throw(h)
       PROVE  Completed(g)' /\ Len(windows') = 0
  BY <1>3, <1>10 DEF Throw
<1> QED BY <1>2, <1>4, <1>5, <1>6, <1>7, <1>8, <1>9, <1>10 DEF HistoryNext, Next

(* A completed generator stays completed and is never entered again, whatever *)
(* its body does that still ran when return() completed it.                   *)
THEOREM CompletedStays == HistorySpec => CompletedForGood
<1> DEFINE Kept == \A g \in Existing :
                      Completed(g) => /\ Completed(g)'
                                      /\ Len(windows') > Len(windows) => windows'[1].gen # g
<1>1. Inv /\ [HistoryNext]_hvars => [Kept]_hvars
  BY StepKeepsCompleted
<1> QED BY <1>1, InvHolds, PTL DEF HistorySpec, CompletedForGood

=============================================================================
