--------------------------- MODULE RegisterMachine ---------------------------
(***************************************************************************)
(* rvm.rs: the register machine runs a compiled script.                    *)
(*                                                                         *)
(* frames are the activations, the running one last: the register windows  *)
(* on the machine's stack with what the Rust activation of rdispatch_loop  *)
(* and of call_register_direct keeps beside them.  A "native" activation   *)
(* is a builtin that is waiting for its callback.                          *)
(*                                                                         *)
(* A frame has the function it runs (0 is the script), the next            *)
(* instruction, the registers, the register of the caller that receives    *)
(* the result, and the global slots to restore when it ends.               *)
(***************************************************************************)
EXTENDS Values, RegisterCode

CONSTANTS Scripts,  \* the scripts to run: a sequence of functions to scripts
          Code(_)   \* the program a script is compiled to

VARIABLES program, frames, globals, heap, log, lastPopped, outcome

vars == <<program, frames, globals, heap, log, lastPopped, outcome>>

CodeOf(frame) == IF frame.fn = 0 THEN program.code ELSE program.funcs[frame.fn].code
RegistersOf(fn) == IF fn = 0 THEN program.registers ELSE program.funcs[fn].registers

Top == LastOf(frames)
Below == Front1(frames)
I == CodeOf(Top)[Top.pc]
Reg(r) == Top.regs[r]
Registers(base, n) == [i \in 1 .. n |-> Reg(base + i - 1)]

Frame(fn, regs, dst, saved) ==
    [kind |-> "code", fn |-> fn, pc |-> 1, regs |-> regs, dst |-> dst, saved |-> saved,
     items |-> <<>>, i |-> 0, out |-> <<>>, callee |-> UNDEFINED, more |-> <<>>, keep |-> FALSE]

(* a builtin that calls callee for each item, with more arguments behind the item
   and its index; it keeps the results (map) or not *)
NativeFrame(callee, items, more, dst, keep) ==
    [Frame(0, << >>, dst, << >>) EXCEPT !.kind = "native", !.items = items,
        !.callee = callee, !.more = more, !.keep = keep]

(* the program p, a compiled script, is about to run *)
Start(p) ==
    /\ program = p
    /\ frames = <<Frame(0, [r \in 0 .. program.registers - 1 |-> UNDEFINED], 0, << >>)>>
    /\ globals = [g \in 0 .. program.globals - 1 |-> UNDEFINED]
    /\ heap = <<>>
    /\ log = <<>>
    /\ lastPopped = None
    /\ outcome = "running"

Init == \E k \in DOMAIN Scripts : \E i \in DOMAIN Scripts[k] : Start(Code(Scripts[k][i]))

-----------------------------------------------------------------------------
(* The effect of one instruction *)

Executing(ops) ==
    /\ outcome = "running"
    /\ Top.pc \in DOMAIN CodeOf(Top)
    /\ I.op \in ops

Goto(fs, pc) == [fs EXCEPT ![Len(fs)].pc = pc]
WithReg(fs, r, v) == [fs EXCEPT ![Len(fs)].regs[r] = v]
Next1 == Goto(frames, Top.pc + 1)

(* register r takes v, on to the next instruction *)
Put(r, v) == frames' = WithReg(Next1, r, v)

OnlyFrames == UNCHANGED <<program, globals, heap, log, lastPopped, outcome>>
OnlyHeapAndFrames == UNCHANGED <<program, globals, log, lastPopped, outcome>>

(* register r takes a new object *)
PutNew(r, cell) ==
    /\ heap' = Allocated(heap, cell)
    /\ Put(r, NewReference(heap))
    /\ OnlyHeapAndFrames

(* an error leaves every activation; each puts the globals it replaced back on
   the way, the innermost first *)
RestoredGlobals ==
    [g \in DOMAIN globals |->
        LET savers == {j \in DOMAIN frames : g \in DOMAIN frames[j].saved}
            outermost == CHOOSE j \in savers : \A k \in savers : j <= k
        IN  IF savers = {} THEN globals[g] ELSE frames[outermost].saved[g]]

Failed ==
    /\ frames' = <<>>
    /\ globals' = RestoredGlobals
    /\ outcome' = "failed"
    /\ UNCHANGED <<program, heap, log, lastPopped>>

-----------------------------------------------------------------------------
(* Calls *)

FunctionIn(v) == IF v.k = "fn" THEN v.v ELSE heap[v.v].fn
CapturedIn(v) == IF v.k = "fn" THEN << >> ELSE heap[v.v].captured

(* What a call writes from the base of the new activation on: the function's
   registers, with this, the arguments as they come (but no more than fit in front
   of a rest parameter) and the rest array.  All these arguments are written, also
   behind the last register when the function has fewer. *)
Window(h, fn, this, args) ==
    LET f == program.funcs[fn]
        offset == IF f.takesThis THEN 1 ELSE 0
        positional == IF f.rest = 0 THEN Len(args)
                      ELSE IF Len(args) < f.rest - 1 THEN Len(args) ELSE f.rest - 1
        Content(r) ==
            CASE f.takesThis /\ r = 0 -> this
              [] f.rest # 0 /\ r = offset + f.rest - 1 -> NewReference(h)
              [] r - offset \in 0 .. positional - 1 -> args[r - offset + 1]
              [] OTHER -> UNDEFINED
        written == (0 .. f.registers - 1) \union (offset .. offset + positional - 1)
                       \union {r \in {offset + f.rest - 1} : f.rest # 0}
    IN  [r \in written |-> Content(r)]

RestHeap(h, fn, args) ==
    LET rest == program.funcs[fn].rest
    IN  IF rest = 0 THEN h ELSE Allocated(h, ArrayCell(SubSeq(args, rest, Len(args))))

(* a new activation on the frames fs and the heap h; injecting, the values a closure
   captured replace those of the global slots until it returns *)
Enter(fs, h, callee, this, args, dst, inject) ==
    LET fn == FunctionIn(callee)
        captured == IF inject THEN CapturedIn(callee) ELSE << >>
        saved == [g \in DOMAIN captured |-> globals[g]]
    IN  /\ frames' = Append(fs, Frame(fn, Window(h, fn, this, args), dst, saved))
        /\ heap' = RestHeap(h, fn, args)
        /\ globals' = Over(captured, globals)
        /\ UNCHANGED <<program, log, lastPopped, outcome>>

(* call_value_slice and the fast paths of CallGlobal and CallMethod leave the
   values a closure captured alone *)
Invoke(callee, this, args, dst, inject) ==
    IF IsCallable(heap, callee) THEN Enter(Next1, heap, callee, this, args, dst, inject)
    ELSE Failed

CallAny ==
    /\ Executing({"Call"})
    /\ Invoke(Reg(I.a), UNDEFINED, Registers(I.a + 1, I.b), I.dst, TRUE)

CallGlobal ==
    /\ Executing({"CallGlobal"})
    /\ Invoke(globals[I.to], UNDEFINED, Registers(I.a + 1, I.b), I.dst, FALSE)

CallSpread ==
    /\ Executing({"CallSpread"})
    /\ Invoke(Reg(I.a), UNDEFINED, RestOf(heap, Reg(I.b), 0), I.dst, FALSE)

Receiver == Reg(I.a)
Arguments == Registers(I.a + 1, I.b)
FirstArgument == IF I.b = 0 THEN UNDEFINED ELSE Reg(I.a + 1)

(* the receiver is console or Array, or an array with a method that calls nobody *)
CallBuiltin ==
    /\ Executing({"CallMethod"})
    /\ \/ /\ Receiver = Builtin("console") /\ I.k = Text("log")
          /\ log' = Append(log, Logged(heap, FirstArgument))
          /\ Put(I.dst, UNDEFINED)
          /\ UNCHANGED <<program, globals, heap, lastPopped, outcome>>
       \/ /\ Receiver = Builtin("Array") /\ I.k = Text("from")
          /\ PutNew(I.dst, ArrayCell(RestOf(heap, FirstArgument, 0)))
       \/ /\ IsArray(heap, Receiver) /\ I.k = Text("push")
          /\ heap' = [heap EXCEPT ![Receiver.v].items = @ \o Arguments]
          /\ Put(I.dst, Number(Len(Items(heap, Receiver)) + I.b))
          /\ OnlyHeapAndFrames

(* a function with at most two parameters does not see a third argument *)
MaySeeThird(callee) ==
    IsCallable(heap, callee) =>
        program.funcs[FunctionIn(callee)].rest # 0 \/ program.funcs[FunctionIn(callee)].params >= 3

(* map and forEach: the items as they are now, each with its index and, for a
   callback that may see it, a copy of the array *)
CallWithCallback ==
    /\ Executing({"CallMethod"})
    /\ IsArray(heap, Receiver) /\ I.k.s \in {"map", "forEach"}
    /\ LET callee == FirstArgument
           items == Items(heap, Receiver)
           keep == I.k.s = "map"
           third == MaySeeThird(callee)
           copied == IF third THEN Allocated(heap, ArrayCell(items)) ELSE heap
           more == IF third THEN <<NewReference(heap)>> ELSE <<>>
           native == Append(Next1, NativeFrame(callee, items, more, I.dst, keep))
       IN  IF I.b = 0 \/ (items # <<>> /\ ~IsCallable(heap, callee)) THEN Failed
           ELSE IF items # <<>>
           THEN Enter(native, copied, callee, UNDEFINED, <<items[1], Number(0)>> \o more, 0, FALSE)
           ELSE /\ heap' = IF keep THEN Allocated(copied, ArrayCell(<<>>)) ELSE copied
                /\ Put(I.dst, IF keep THEN NewReference(copied) ELSE UNDEFINED)
                /\ OnlyHeapAndFrames

CallProperty ==
    /\ Executing({"CallMethod"})
    /\ IsHash(heap, Receiver)
    /\ Invoke(ReadProperty(heap, Receiver, I.k), Receiver, Arguments, I.dst, FALSE)

NoMethod ==
    /\ Executing({"CallMethod"})
    /\ ~IsArray(heap, Receiver) /\ ~IsHash(heap, Receiver) /\ Receiver.k # "builtin"
    /\ Failed

-----------------------------------------------------------------------------
(* Returning.  The result of an activation is what the machine popped last,*)
(* which a call takes away.                                                *)

(* the running activation ends with v *)
Leave(v) ==
    LET caller == LastOf(Below)
        out == Append(caller.out, v)
        more == caller.i + 1 < Len(caller.items)
        saved == Over(Top.saved, globals)
    IN  IF Below = <<>>
        THEN /\ outcome' = "done" /\ lastPopped' = v /\ frames' = <<>>
             /\ UNCHANGED <<program, globals, heap, log>>
        ELSE IF caller.kind = "code"
        THEN /\ frames' = WithReg(Below, Top.dst, v)
             /\ globals' = saved /\ lastPopped' = None
             /\ UNCHANGED <<program, heap, log, outcome>>
        ELSE /\ lastPopped' = None
             /\ globals' = saved
             /\ UNCHANGED <<program, log, outcome>>
             /\ IF more
                THEN LET i == caller.i + 1
                         fn == FunctionIn(caller.callee)
                         args == <<caller.items[i + 1], Number(i)>> \o caller.more
                         native == [Below EXCEPT ![Len(Below)].i = i, ![Len(Below)].out = out]
                     IN  /\ frames' = Append(native, Frame(fn, Window(heap, fn, UNDEFINED, args),
                                                           0, << >>))
                         /\ heap' = RestHeap(heap, fn, args)
                ELSE /\ heap' = IF caller.keep THEN Allocated(heap, ArrayCell(out)) ELSE heap
                     /\ frames' = WithReg(Front1(Below), caller.dst,
                                          IF caller.keep THEN NewReference(heap) ELSE UNDEFINED)

ReturnValue == Executing({"Return"}) /\ Leave(Reg(I.a))
ReturnUndef == Executing({"ReturnUndef"}) /\ Leave(UNDEFINED)

HaltValue == Executing({"HaltValue"}) /\ Leave(Reg(I.a))

(* a script has the value it popped last, if any; a function has none *)
Halt ==
    /\ Executing({"Halt"})
    /\ IF Below # <<>> THEN Leave(UNDEFINED)
       ELSE /\ outcome' = "done" /\ frames' = <<>>
            /\ UNCHANGED <<program, globals, heap, log, lastPopped>>

(* nothing catches an error of the machine *)
ThrowValue == Executing({"Throw"}) /\ Failed

-----------------------------------------------------------------------------
(* Registers, globals, arithmetic *)

Loaded ==
    CASE I.op = "LoadConst" -> I.k
      [] I.op = "LoadTrue" -> TRUE_VALUE
      [] I.op = "LoadFalse" -> FALSE_VALUE
      [] I.op = "LoadNull" -> NULL
      [] I.op = "LoadUndef" -> UNDEFINED
      [] I.op = "Move" -> Reg(I.a)
      [] I.op = "GetGlobal" -> globals[I.a]

Load ==
    /\ Executing({"LoadConst", "LoadTrue", "LoadFalse", "LoadNull", "LoadUndef", "Move",
                  "GetGlobal"})
    /\ Put(I.dst, Loaded)
    /\ OnlyFrames

SetGlobal ==
    /\ Executing({"SetGlobal"})
    /\ globals' = [globals EXCEPT ![I.a] = Reg(I.b)]
    /\ frames' = Next1
    /\ UNCHANGED <<program, heap, log, lastPopped, outcome>>

Binary ==
    /\ Executing(ArithmeticOps \cup ComparisonOps)
    /\ Put(I.dst, IF I.op \in ArithmeticOps THEN Arithmetic(I.op, Reg(I.a), Reg(I.b))
                  ELSE Boolean(Compare(I.op, Reg(I.a), Reg(I.b))))
    /\ OnlyFrames

Unary ==
    /\ Executing({"Neg", "Not", "Typeof", "IsNullish"})
    /\ Put(I.dst, CASE I.op = "Neg" -> Negate(Reg(I.a))
                    [] I.op = "Not" -> Boolean(~IsTrue(Reg(I.a)))
                    [] I.op = "Typeof" -> Text(TypeofName(heap, Reg(I.a)))
                    [] I.op = "IsNullish" -> Boolean(IsNullish(Reg(I.a))))
    /\ OnlyFrames

AddConst ==
    /\ Executing({"AddRegConst"})
    /\ Put(I.dst, Add(Reg(I.a), I.k))
    /\ OnlyFrames

-----------------------------------------------------------------------------
(* Jumps *)

Jump ==
    /\ Executing({"Jump"})
    /\ frames' = Goto(frames, I.to)
    /\ OnlyFrames

Branch(taken) ==
    /\ frames' = Goto(frames, IF taken THEN I.to ELSE Top.pc + 1)
    /\ OnlyFrames

JumpIfNot == Executing({"JumpIfNot"}) /\ Branch(~IsTrue(Reg(I.a)))
JumpIfTruthy == Executing({"JumpIfTruthy"}) /\ Branch(IsTrue(Reg(I.a)))

Holds(i, x) == Compare(IF i.op = "TestLtConstJump" THEN "LessThan" ELSE "LessOrEqual", x, i.k)

TestConstJump == Executing(ConstTests) /\ Branch(~Holds(I, Reg(I.a)))

ModTestJump ==
    /\ Executing({"ModRegConstStrictEqConstJump"})
    /\ Branch(Arithmetic("Mod", Reg(I.a), I.k) # I.m)

(* the test at the start of the loop is done in the same step *)
IncrementAndJump ==
    /\ Executing({"IncrementRegAndJump"})
    /\ LET sum == Add(Reg(I.a), I.k)
           jumped == Goto(WithReg(frames, I.a, sum), I.to)
           test == CodeOf(Top)[I.to]
           tested == LastOf(jumped).regs[test.a]
       IN  frames' = IF test.op \in ConstTests /\ IsNumber(tested)
                     THEN Goto(jumped, IF Holds(test, tested) THEN I.to + 1 ELSE test.to)
                     ELSE jumped
    /\ OnlyFrames

-----------------------------------------------------------------------------
(* Objects *)

MakeArray == Executing({"Array"}) /\ PutNew(I.dst, ArrayCell(Registers(I.a, I.b)))
MakeHash ==
    Executing({"Hash"}) /\ PutNew(I.dst, HashOfPairs(heap, Registers(I.a, I.b)))

MakeClosure ==
    /\ Executing({"MakeClosure"})
    /\ PutNew(I.dst, [t |-> "closure", fn |-> I.k.v,
                      captured |-> [g \in program.funcs[I.k.v].captures |-> globals[g]]])

(* the array may be the register of a variable, which a call in between reloads *)
AppendItems ==
    /\ Executing({"AppendElement", "AppendSpread"})
    /\ LET more == IF I.op = "AppendElement" THEN <<Reg(I.b)>> ELSE RestOf(heap, Reg(I.b), 0)
           iterable == I.op = "AppendElement" \/ IsArray(heap, Reg(I.b))
       IN  IF IsArray(heap, Reg(I.a)) /\ iterable
           THEN /\ heap' = [heap EXCEPT ![Reg(I.a).v].items = @ \o more]
                /\ frames' = Next1
                /\ OnlyHeapAndFrames
           ELSE Failed

GetProperty ==
    /\ Executing({"GetProp", "GetGlobalProp", "Index"})
    /\ Put(I.dst, CASE I.op = "GetProp" -> ReadProperty(heap, Reg(I.a), I.k)
                    [] I.op = "GetGlobalProp" -> ReadProperty(heap, globals[I.a], I.k)
                    [] I.op = "Index" -> ReadProperty(heap, Reg(I.a), Reg(I.b)))
    /\ OnlyFrames

SetProperty ==
    /\ Executing({"SetProp", "SetGlobalProp", "SetIndex"})
    /\ heap' = CASE I.op = "SetProp" -> WriteProperty(heap, Reg(I.a), I.k, Reg(I.dst))
                 [] I.op = "SetGlobalProp" -> WriteProperty(heap, globals[I.a], I.k, Reg(I.dst))
                 [] I.op = "SetIndex" -> WriteProperty(heap, Reg(I.a), Reg(I.b), Reg(I.dst))
    /\ frames' = Next1
    /\ OnlyHeapAndFrames

DeleteProp ==
    /\ Executing({"DeleteProp"})
    /\ heap' = DeleteProperty(heap, Reg(I.a), Reg(I.b))
    /\ Put(I.dst, TRUE_VALUE)
    /\ OnlyHeapAndFrames

AddConstToProp ==
    /\ Executing({"AddConstToRegProp"})
    /\ heap' = WriteProperty(heap, Reg(I.a), I.k, Add(ReadProperty(heap, Reg(I.a), I.k), I.m))
    /\ frames' = Next1
    /\ OnlyHeapAndFrames

AddPropsToProp ==
    /\ Executing({"AddRegPropsToRegProp"})
    /\ heap' = WriteProperty(heap, Reg(I.a), I.k,
                             Add(ReadProperty(heap, Reg(I.a), Text(I.s[1])),
                                 ReadProperty(heap, Reg(I.a), Text(I.s[2]))))
    /\ frames' = Next1
    /\ OnlyHeapAndFrames

IteratorRest ==
    Executing({"IteratorRest"}) /\ PutNew(I.dst, ArrayCell(RestOf(heap, Reg(I.a), I.b)))
GetKeysIter ==
    Executing({"GetKeysIter"}) /\ PutNew(I.dst, ArrayCell(PropertyNames(heap, Reg(I.a))))
ObjectRest ==
    /\ Executing({"ObjectRest"})
    /\ LET keys == Registers(I.b, I.m.v)
       IN  PutNew(I.dst, WithoutKeys(heap, Reg(I.a), {KeyOf(keys[i]) : i \in DOMAIN keys}))

-----------------------------------------------------------------------------
Step ==
    \/ Load \/ CallBuiltin \/ GetProperty \/ MakeHash \/ Binary \/ SetGlobal \/ JumpIfNot
    \/ MakeArray \/ Jump \/ HaltValue \/ AddConst \/ CallAny \/ ReturnValue \/ SetProperty
    \/ TestConstJump \/ Unary \/ JumpIfTruthy \/ Halt \/ IncrementAndJump \/ GetKeysIter
    \/ ModTestJump \/ AppendItems \/ MakeClosure \/ CallGlobal \/ CallSpread
    \/ CallWithCallback \/ CallProperty \/ NoMethod \/ ReturnUndef \/ ThrowValue
    \/ DeleteProp \/ AddConstToProp \/ AddPropsToProp \/ IteratorRest \/ ObjectRest

Spec == Init /\ [][Step]_vars /\ WF_vars(Step)
=============================================================================
