----------------------------- MODULE RegisterCode -----------------------------
(***************************************************************************)
(* rcode.rs: the instructions of the register machine, which the compiler  *)
(* emits and the machine runs.                                             *)
(*                                                                         *)
(* An instruction has a destination, two operands a and b (registers,      *)
(* global slots or counts), two constants k and m, the target of a jump    *)
(* (for CallGlobal, the slot of the callee) and names s.                   *)
(***************************************************************************)
EXTENDS Syntax

(* the target of a jump that is not patched yet: 9999 in the code *)
Unpatched == 0

Instr(op, dst, a, b) ==
    [op |-> op, dst |-> dst, a |-> a, b |-> b, k |-> UNDEFINED, m |-> UNDEFINED,
     to |-> Unpatched, s |-> <<>>]

LastOf(seq) == seq[Len(seq)]
Front1(seq) == SubSeq(seq, 1, Len(seq) - 1)

ConstTests == {"TestLtConstJump", "TestLeConstJump"}

(* the instructions that go to their target, some or all of the time *)
JumpOps ==
    {"Jump", "JumpIfNot", "JumpIfTruthy", "ModRegConstStrictEqConstJump", "IncrementRegAndJump"}
        \cup ConstTests

(* the instructions that never go on to the next one *)
FinalOps ==
    {"Jump", "IncrementRegAndJump", "Return", "ReturnUndef", "Halt", "HaltValue", "Throw"}

(* the registers an instruction reads or writes *)
Operands(i) ==
    CASE i.op \in {"LoadConst", "LoadTrue", "LoadFalse", "LoadNull", "LoadUndef", "GetGlobal",
                   "GetGlobalProp", "SetGlobalProp", "MakeClosure"} -> {i.dst}
      [] i.op = "SetGlobal" -> {i.b}
      [] i.op \in {"Jump", "ReturnUndef", "Halt"} -> {}
      [] i.op \in {"JumpIfNot", "JumpIfTruthy", "Return", "HaltValue", "Throw",
                   "AddConstToRegProp", "AddRegPropsToRegProp", "IncrementRegAndJump",
                   "ModRegConstStrictEqConstJump"} \cup ConstTests -> {i.a}
      [] i.op \in {"AppendElement", "AppendSpread"} -> {i.a, i.b}
      [] i.op \in {"Array", "Hash"} -> {i.dst} \cup i.a .. i.a + i.b - 1
      [] i.op \in {"Call", "CallMethod"} -> {i.dst} \cup i.a .. i.a + i.b
      [] i.op = "CallGlobal" -> {i.dst} \cup i.a + 1 .. i.a + i.b
      [] i.op \in {"Neg", "Not", "Typeof", "IsNullish", "Move", "GetProp", "SetProp",
                   "AddRegConst", "IteratorRest", "GetKeysIter"} -> {i.dst, i.a}
      [] i.op = "ObjectRest" -> {i.dst, i.a} \cup i.b .. i.b + i.m.v - 1
      [] OTHER -> {i.dst, i.a, i.b}

(* the global slots it reads or writes *)
GlobalOperands(i) ==
    CASE i.op \in {"GetGlobal", "SetGlobal", "GetGlobalProp", "SetGlobalProp"} -> {i.a}
      [] i.op = "CallGlobal" -> {i.to}
      [] OTHER -> {}

-----------------------------------------------------------------------------
(* What the machine takes on trust ("bytecode is generated by our          *)
(* compiler"): it checks neither a register, a slot, a constant nor a      *)
(* position of the code it runs.                                           *)

(* a constant is no reference, and a function among those of the program *)
SoundConstant(p, k) ==
    /\ k.k # "obj"
    /\ k.k = "fn" => k.v \in DOMAIN p.funcs
    /\ k.k \in {"num", "bool"} => k.v \in Int

SoundInstruction(p, code, registers, pc) ==
    LET i == code[pc]
    IN  /\ Operands(i) \subseteq 0 .. registers - 1
        /\ GlobalOperands(i) \subseteq 0 .. p.globals - 1
        /\ i.op \in JumpOps => i.to \in DOMAIN code
        /\ i.op \notin FinalOps => pc + 1 \in DOMAIN code
        /\ i.op \in {"Array", "Hash", "Call", "CallGlobal", "CallMethod"} => i.a \in Nat /\ i.b \in Nat
        /\ i.op = "IteratorRest" => i.b \in Nat
        /\ i.op = "ObjectRest" => i.b \in Nat /\ i.m.v \in Nat
        /\ i.op = "MakeClosure" => i.k.v \in DOMAIN p.funcs
        /\ SoundConstant(p, i.k) /\ SoundConstant(p, i.m)

SoundCode(p, code, registers) ==
    /\ registers \in Nat
    /\ 1 \in DOMAIN code
    /\ \A pc \in DOMAIN code : pc \in Nat /\ SoundInstruction(p, code, registers, pc)

(* the parameter that takes the rest is the f.rest-th, 0 if there is none; 0 is
   also the number of the script among the functions *)
SoundProgram(p) ==
    /\ p.globals \in Nat
    /\ SoundCode(p, p.code, p.registers)
    /\ 0 \notin DOMAIN p.funcs
    /\ \A fn \in DOMAIN p.funcs :
        /\ SoundCode(p, p.funcs[fn].code, p.funcs[fn].registers)
        /\ p.funcs[fn].rest \in Nat
        /\ p.funcs[fn].captures \subseteq 0 .. p.globals - 1
=============================================================================
