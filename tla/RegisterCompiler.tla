-------------------------- MODULE RegisterCompiler --------------------------
(***************************************************************************)
(* rcompiler.rs: a script becomes code for the register machine.           *)
(*                                                                         *)
(* c is the compiler (RCompiler) of the function being compiled: the code  *)
(* emitted so far, the registers of its names, the global slots, the next  *)
(* temporary register, the loops and the try statements around the current *)
(* point.  An operator takes c and returns it after compiling something.   *)
(* A temporary is allocated by taking c.nextTemp, so "the register of the  *)
(* result of CompileExpression(c, e)" is c.nextTemp.                       *)
(*                                                                         *)
(* A position is the number of an instruction, not a byte offset; a        *)
(* constant is kept in the instruction that loads it.  Every scope the     *)
(* program compiles is a function scope (compile_program sets              *)
(* is_function_scope), so names live in registers and are mirrored to      *)
(* global slots where a nested function refers to them.                    *)
(***************************************************************************)
EXTENDS RegisterCode

NoReg == -1

LoadConst(dst, k) == [Instr("LoadConst", dst, 0, 0) EXCEPT !.k = k]
JumpTo(target) == [Instr("Jump", 0, 0, 0) EXCEPT !.to = target]
NamedProp(op, dst, a, b, name) == [Instr(op, dst, a, b) EXCEPT !.k = Text(name)]

Larger(x, y) == IF x > y THEN x ELSE y

-----------------------------------------------------------------------------
(* The compiler's state and its registers *)

NewCompiler(captured, all, globals, nextGlobal, funcs) ==
    [code |-> <<>>, locals |-> << >>, numLocals |-> 0, nextTemp |-> 0, maxReg |-> 0,
     globals |-> globals, nextGlobal |-> nextGlobal, captured |-> captured, all |-> all,
     consts |-> {}, shadow |-> {}, loops |-> <<>>, trys |-> <<>>, counter |-> 0,
     funcs |-> funcs, last |-> NoReg, err |-> FALSE]

NeedsGlobal(c, name) == c.all \/ name \in c.captured

(* A mutated form: the frame does not grow with the temporaries. *)
AllocTempUncounted(c) == [c EXCEPT !.nextTemp = @ + 1]

AllocTemp(c) ==
    [c EXCEPT !.nextTemp = @ + 1, !.maxReg = Larger(@, c.nextTemp)]

RestoreTemps(c, saved) == [c EXCEPT !.nextTemp = saved]
FreeTemps(c) == [c EXCEPT !.nextTemp = c.numLocals]

EnsureLocal(c, name) ==
    IF name \in DOMAIN c.locals
    THEN c
    ELSE [c EXCEPT !.locals = (name :> c.numLocals) @@ @,
                   !.numLocals = @ + 1,
                   !.nextTemp = Larger(@, c.numLocals + 1),
                   !.maxReg = Larger(@, c.numLocals)]

(* A mutated form: the slot is not counted among the global ones. *)
EnsureGlobalUncounted(c, name) ==
    IF name \in DOMAIN c.globals
    THEN c
    ELSE [c EXCEPT !.globals = (name :> c.nextGlobal) @@ @]

EnsureGlobal(c, name) ==
    IF name \in DOMAIN c.globals
    THEN c
    ELSE [c EXCEPT !.globals = (name :> c.nextGlobal) @@ @, !.nextGlobal = @ + 1]

-----------------------------------------------------------------------------
(* Emitting and patching *)

Emit(c, i) == [c EXCEPT !.code = Append(@, i)]
Here(c) == Len(c.code) + 1

PatchAll(c, positions, target) ==
    LET Patched(i) == IF i \in positions THEN [c.code[i] EXCEPT !.to = target] ELSE c.code[i]
    IN  [c EXCEPT !.code = [i \in DOMAIN c.code |-> Patched(i)]]

PatchJump(c, position, target) == PatchAll(c, {position}, target)

Fail(c) == [c EXCEPT !.err = TRUE]

TempName(prefix, n) == "__fl_" \o prefix \o ToString(n)
MakeTempName(c, prefix) == TempName(prefix, c.counter)
CountTempName(c) == [c EXCEPT !.counter = @ + 1]

Move(c, dst, src) == IF dst = src THEN c ELSE Emit(c, Instr("Move", dst, src, 0))

MirrorLocalToGlobal(c, name, r) ==
    IF name \in DOMAIN c.globals
    THEN Emit(c, Instr("SetGlobal", 0, c.globals[name], r))
    ELSE c

MirrorIfNeeded(c, name, r) ==
    IF NeedsGlobal(c, name) THEN MirrorLocalToGlobal(EnsureGlobal(c, name), name, r) ELSE c

StoreIdentifier(c, name, src) ==
    LET d == EnsureLocal(c, name)
        r == d.locals[name]
    IN  MirrorLocalToGlobal(Move(d, r, src), name, r)

StoreBinding(c, name, src) ==
    LET d == EnsureLocal(c, name)
        r == d.locals[name]
    IN  MirrorIfNeeded(Move(d, r, src), name, r)

RECURSIVE EmitReloads(_, _)
EmitReloads(c, names) ==
    IF names = {} THEN c
    ELSE LET n == CHOOSE n \in names : TRUE
         IN  EmitReloads(Emit(c, Instr("GetGlobal", c.locals[n], c.globals[n], 0)), names \ {n})

(* A mutated form: what the callee assigned to the names it captured is not seen. *)
ReloadNothing(c) == c

ReloadLocalsFromGlobals(c) == EmitReloads(c, DOMAIN c.locals \cap DOMAIN c.globals)

ReloadAndMoveResult(c, callDst, dst) == Move(ReloadLocalsFromGlobals(c), dst, callDst)

(* A mutated form: the result of a call goes straight to a name's register, where
   the reload overwrites it. *)
NeverLocalRegister(c, r) == FALSE

IsLocalRegister(c, r) == \E n \in DOMAIN c.locals : c.locals[n] = r

-----------------------------------------------------------------------------
(* Block scopes: the names of a block's own let and const get registers    *)
(* of their own; the outer names come back behind the block.               *)

LexicalNames(stmts) ==
    {stmts[i].name : i \in {j \in DOMAIN stmts : stmts[j].t = "Let" /\ stmts[j].kind # "var"}}

WithoutNames(f, names) == [n \in DOMAIN f \ names |-> f[n]]

EnterBlockScope(c, stmts) ==
    [c EXCEPT !.locals = WithoutNames(@, LexicalNames(stmts))]

ExitBlockScope(c, outer, stmts) ==
    LET own == LexicalNames(stmts)
    IN  [c EXCEPT !.locals =
            [n \in own \cap DOMAIN outer.locals |-> outer.locals[n]] @@ WithoutNames(@, own)]

-----------------------------------------------------------------------------
(* What nested functions refer to *)

RECURSIVE CapturedByStmt(_, _), CapturedByExpr(_, _)

CapturedByAll(parts, inFunc) ==
    UNION {CapturedByExpr(parts[i], inFunc) : i \in DOMAIN parts}

ScanBody(stmts, inFunc) == UNION {CapturedByStmt(stmts[i], inFunc) : i \in DOMAIN stmts}

CapturedNames(stmts) == ScanBody(stmts, FALSE)

(* the names s refers to from within a function (everywhere, if inFunc);
   the declared names, catch parameters and loop variables are no references *)
CapturedByStmt(s, inFunc) ==
    CASE s.t \in {"Let", "LetPattern", "Return", "Throw"} -> CapturedByExpr(s.value, inFunc)
      [] s.t = "Expression" -> CapturedByExpr(s.e, inFunc)
      [] s.t \in {"Block", "MultiLet"} -> ScanBody(s.body, inFunc)
      [] s.t \in {"While", "DoWhile"} ->
            CapturedByExpr(s.cond, inFunc) \cup ScanBody(s.body, inFunc)
      [] s.t = "For" ->
            CapturedByStmt(s.init, inFunc) \cup CapturedByAll(<<s.cond, s.update>>, inFunc)
                \cup ScanBody(s.body, inFunc)
      [] s.t \in {"ForOf", "ForIn"} ->
            CapturedByExpr(s.iterable, inFunc) \cup ScanBody(s.body, inFunc)
      [] s.t = "FunctionDecl" -> ScanBody(s.body, TRUE)
      [] s.t = "Try" ->
            ScanBody(<<s.block, s.handler, s.finalizer>>, inFunc)
      [] s.t = "Labeled" -> CapturedByStmt(s.body, inFunc)
      [] s.t = "Switch" ->
            CapturedByExpr(s.disc, inFunc) \cup
            UNION {CapturedByExpr(s.cases[i].test, inFunc) \cup ScanBody(s.cases[i].body, inFunc)
                   : i \in DOMAIN s.cases}
      [] OTHER -> {}

CapturedByExpr(e, inFunc) ==
    CASE e.t = "Identifier" -> IF inFunc THEN {e.name} ELSE {}
      [] e.t = "Array" -> CapturedByAll(e.items, inFunc)
      [] e.t = "Hash" ->
            UNION {CapturedByAll(<<e.pairs[i].key, e.pairs[i].value>>, inFunc) : i \in DOMAIN e.pairs}
      [] e.t = "Prefix" -> CapturedByExpr(e.right, inFunc)
      [] e.t \in {"Void", "Spread", "Typeof", "Delete"} -> CapturedByExpr(e.value, inFunc)
      [] e.t \in {"Infix", "Assign"} -> CapturedByAll(<<e.left, e.right>>, inFunc)
      [] e.t = "If" ->
            CapturedByExpr(e.cond, inFunc) \cup ScanBody(e.cons, inFunc)
                \cup CapturedByStmt(e.alt, inFunc)
      [] e.t = "Function" -> ScanBody(e.body, TRUE)
      [] e.t \in {"Call", "OptionalCall"} ->
            CapturedByExpr(e.fn, inFunc) \cup CapturedByAll(e.args, inFunc)
      [] e.t \in {"Index", "OptionalIndex"} -> CapturedByAll(<<e.left, e.index>>, inFunc)
      [] e.t = "Update" -> CapturedByExpr(e.target, inFunc)
      [] e.t = "Sequence" -> CapturedByAll(e.exprs, inFunc)
      [] OTHER -> {}

-----------------------------------------------------------------------------
(* Patterns that one instruction can do *)

IsConst(e) == e.t = "Integer"
IsLocal(c, e) == e.t = "Identifier" /\ e.name \in DOMAIN c.locals
IsInfix(e, op) == e.t = "Infix" /\ e.op = op

(* local < CONST, local <= CONST *)
IsFusedCompare(c, e) ==
    e.t = "Infix" /\ e.op \in {"<", "<="} /\ IsLocal(c, e.left) /\ IsConst(e.right)

(* local % CONST === CONST *)
IsFusedModEq(c, e) ==
    /\ IsInfix(e, "===") /\ IsInfix(e.left, "%")
    /\ IsLocal(c, e.left.left) /\ IsConst(e.left.right) /\ IsConst(e.right)

(* name + CONST *)
IsNamePlusConst(e, name) == IsInfix(e, "+") /\ e.left = Id(name) /\ IsConst(e.right)

(* local += CONST, local = local + CONST *)
IsFusedIncrement(c, e) ==
    /\ e.t = "Assign" /\ IsLocal(c, e.left)
    /\ \/ e.op = "+=" /\ IsConst(e.right)
       \/ e.op = "=" /\ IsNamePlusConst(e.right, e.left.name)
IncrementOf(e) == IF e.op = "+=" THEN Number(e.right.n) ELSE Number(e.right.right.n)

BuiltinNames == {"console", "Array", "Object"}

ArithmeticOp ==
    [op \in {"+", "-", "*", "%", "===", "!==", "<", "<=", ">", ">="} |->
        CASE op = "+" -> "Add" [] op = "-" -> "Sub" [] op = "*" -> "Mul" [] op = "%" -> "Mod"
          [] op = "===" -> "StrictEqual" [] op = "!==" -> "StrictNotEqual"
          [] op = "<" -> "LessThan" [] op = "<=" -> "LessOrEqual"
          [] op = ">" -> "GreaterThan" [] op = ">=" -> "GreaterOrEqual"]

BaseOp ==
    [op \in {"+=", "-=", "*=", "%="} |->
        CASE op = "+=" -> "Add" [] op = "-=" -> "Sub" [] op = "*=" -> "Mul" [] op = "%=" -> "Mod"]

LogicalOps == {"&&", "||", "??"}
LogicalAssignments == {"&&=", "||=", "??="}

HasSpread(items) == \E i \in DOMAIN items : items[i].t = "Spread"

-----------------------------------------------------------------------------
(* Expressions *)

(* a statement, or an expression with its value in register dst *)
RECURSIVE Compile(_, _, _)
CompileStatement(c, s) == Compile(c, s, NoReg)
CompileInto(c, e, dst) == Compile(c, e, dst)

CompileExpression(c, e) == CompileInto(AllocTemp(c), e, c.nextTemp)

LoadIdentifierInto(c, name, dst) ==
    IF name \in DOMAIN c.locals THEN Move(c, dst, c.locals[name])
    ELSE IF name \in DOMAIN c.globals THEN Emit(c, Instr("GetGlobal", dst, c.globals[name], 0))
    ELSE IF name \in BuiltinNames THEN Emit(c, LoadConst(dst, Builtin(name)))
    ELSE LET d == EnsureGlobal(c, name)
         IN  Emit(d, Instr("GetGlobal", dst, d.globals[name], 0))

CompilePrefix(c, e, dst) ==
    LET src == c.nextTemp
        d == CompileExpression(c, e.right)
        op == IF e.op = "!" THEN "Not" ELSE "Neg"
    IN  RestoreTemps(Emit(d, Instr(op, dst, src, 0)), c.nextTemp)

CompileVoid(c, e, dst) ==
    Emit(RestoreTemps(CompileExpression(c, e.value), c.nextTemp), Instr("LoadUndef", dst, 0, 0))

CompileTypeof(c, e, dst) ==
    LET d == CompileExpression(c, e.value)
    IN  RestoreTemps(Emit(d, Instr("Typeof", dst, c.nextTemp, 0)), c.nextTemp)

CompileInfix(c, e, dst) ==
    LET l == c.nextTemp
        d == CompileExpression(c, e.left)
        r == d.nextTemp
        f == CompileExpression(d, e.right)
    IN  RestoreTemps(Emit(f, Instr(ArithmeticOp[e.op], dst, l, r)), c.nextTemp)

CompileComma(c, e, dst) ==
    CompileInto(RestoreTemps(CompileExpression(c, e.left), c.nextTemp), e.right, dst)

(* &&, ||, ??: the left value is moved to dst first, the right one replaces it *)
CompileLogical(c, e, dst) ==
    LET d == Move(CompileExpression(c, e.left), dst, c.nextTemp)
        nullish == d.nextTemp
        test == CASE e.op = "||" -> Emit(d, Instr("JumpIfTruthy", 0, dst, 0))
                  [] e.op = "&&" -> Emit(d, Instr("JumpIfNot", 0, dst, 0))
                  [] e.op = "??" ->
                        Emit(Emit(AllocTemp(d), Instr("IsNullish", nullish, dst, 0)),
                             Instr("JumpIfNot", 0, nullish, 0))
        f == CompileInto(test, e.right, dst)
    IN  PatchJump(f, Len(test.code), Here(f))

RECURSIVE CompileContiguous(_, _, _)
(* the items into consecutive registers, from base on *)
CompileContiguous(c, items, base) ==
    IF c.err \/ items = <<>> THEN RestoreTemps(c, base)
    ELSE LET d == AllocTemp(RestoreTemps(c, base))
         IN  CompileContiguous(CompileInto(d, Head(items), base), Tail(items), base + 1)

RECURSIVE CompileAppends(_, _, _)
CompileAppends(c, items, array) ==
    IF c.err \/ items = <<>> THEN c
    ELSE LET item == Head(items)
             spread == item.t = "Spread"
             v == c.nextTemp
             d == CompileExpression(c, IF spread THEN item.value ELSE item)
             op == IF spread THEN "AppendSpread" ELSE "AppendElement"
         IN  CompileAppends(Emit(d, Instr(op, 0, array, v)), Tail(items), array)

CompileArray(c, e, dst) ==
    IF HasSpread(e.items)
    THEN CompileAppends(Emit(c, Instr("Array", dst, 0, 0)), e.items, dst)
    ELSE Emit(CompileContiguous(c, e.items, c.nextTemp),
              Instr("Array", dst, c.nextTemp, Len(e.items)))

(* the key of a spread is the string __fl_rest__ *)
IsSpreadPair(pair) == pair.key = Str("__fl_rest__")

RECURSIVE KeysAndValues(_)
KeysAndValues(pairs) ==
    IF pairs = <<>> THEN <<>>
    ELSE <<Head(pairs).key, Head(pairs).value>> \o KeysAndValues(Tail(pairs))

RECURSIVE CompilePairs(_, _, _)
CompilePairs(c, parts, base) ==
    IF c.err \/ parts = <<>> THEN RestoreTemps(c, base)
    ELSE LET d == AllocTemp(AllocTemp(RestoreTemps(c, base)))
             k == CompileInto(d, parts[1], base)
         IN  CompilePairs(CompileInto(k, parts[2], base + 1), SubSeq(parts, 3, Len(parts)), base + 2)

(* keys and values in turn *)
CompileHash(c, e, dst) ==
    LET parts == KeysAndValues(e.pairs)
    IN  Emit(CompilePairs(c, parts, c.nextTemp), Instr("Hash", dst, c.nextTemp, Len(parts)))

CompileIndex(c, e, dst) ==
    IF e.index.t = "String"
    THEN IF IsLocal(c, e.left)
         THEN Emit(c, NamedProp("GetProp", dst, c.locals[e.left.name], 0, e.index.s))
         ELSE IF e.left.t = "Identifier" /\ e.left.name \in DOMAIN c.globals
         THEN Emit(c, NamedProp("GetGlobalProp", dst, c.globals[e.left.name], 0, e.index.s))
         ELSE Emit(CompileExpression(c, e.left), NamedProp("GetProp", dst, c.nextTemp, 0, e.index.s))
    ELSE LET d == CompileExpression(c, e.left)
         IN  Emit(CompileExpression(d, e.index), Instr("Index", dst, c.nextTemp, d.nextTemp))

(* jump over the rest, with undefined in dst, unless the register is nullish *)
SkipUnlessPresent(c, r, dst) ==
    LET n == c.nextTemp
        test == Emit(Emit(AllocTemp(c), Instr("IsNullish", n, r, 0)), Instr("JumpIfNot", 0, n, 0))
        skip == Emit(Emit(test, Instr("LoadUndef", dst, 0, 0)), JumpTo(Unpatched))
    IN  PatchJump(skip, Len(test.code), Here(skip))

CompileOptionalIndex(c, e, dst) ==
    LET obj == c.nextTemp
        d == SkipUnlessPresent(CompileExpression(c, e.left), obj, dst)
        f == IF e.index.t = "String"
             THEN Emit(d, NamedProp("GetProp", dst, obj, 0, e.index.s))
             ELSE Emit(CompileExpression(d, e.index), Instr("Index", dst, obj, d.nextTemp))
    IN  PatchJump(f, Len(d.code), Here(f))

-----------------------------------------------------------------------------
(* Calls.  If dst is the register of a name, the result goes through a     *)
(* temporary, because the names are reloaded behind the call.              *)

CompileSpreadArgs(c, args) ==
    CompileAppends(Emit(AllocTemp(c), Instr("Array", c.nextTemp, 0, 0)), args, c.nextTemp)

CompileArguments(c, args, base) == CompileContiguous(c, args, base + 1)

IsMethod(e) == e.t = "Index" /\ e.index.t = "String"
IsOptionalMethod(e) == e.t = "OptionalIndex" /\ e.index.t = "String"

CallMethod(dst, base, nargs, name) == NamedProp("CallMethod", dst, base, nargs, name)

CompileCall(c0, e, dst) ==
    LET viaTemp == IsLocalRegister(c0, dst)
        callDst == IF viaTemp THEN c0.nextTemp ELSE dst
        c == IF viaTemp THEN AllocTemp(c0) ELSE c0
        base == c.nextTemp
        n == Len(e.args)
        Called(d) == ReloadAndMoveResult(d, callDst, dst)
    IN  IF HasSpread(e.args)
        THEN LET f == CompileExpression(c, e.fn)
             IN  Called(Emit(CompileSpreadArgs(f, e.args),
                             Instr("CallSpread", callDst, base, f.nextTemp)))
        ELSE IF e.fn.t = "Identifier" /\ e.fn.name \in DOMAIN c.globals \ DOMAIN c.locals
        THEN LET d == CompileArguments(AllocTemp(c), e.args, base)
             IN  Called(Emit(d, [Instr("CallGlobal", callDst, base, n)
                                    EXCEPT !.to = c.globals[e.fn.name]]))
        ELSE IF IsMethod(e.fn)
        THEN LET d == CompileInto(AllocTemp(c), e.fn.left, base)
             IN  Called(Emit(CompileArguments(d, e.args, base),
                             CallMethod(callDst, base, n, e.fn.index.s)))
        ELSE IF IsOptionalMethod(e.fn)
        THEN LET d == SkipUnlessPresent(CompileInto(AllocTemp(c), e.fn.left, base), base, dst)
                 f == Called(Emit(CompileArguments(d, e.args, base),
                                  CallMethod(callDst, base, n, e.fn.index.s)))
             IN  PatchJump(f, Len(d.code), Here(f))
        ELSE LET d == CompileInto(AllocTemp(c), e.fn, base)
             IN  Called(Emit(CompileArguments(d, e.args, base), Instr("Call", callDst, base, n)))

CompileOptionalCall(c0, e, dst) ==
    LET viaTemp == IsLocalRegister(c0, dst)
        callDst == IF viaTemp THEN c0.nextTemp ELSE dst
        c == IF viaTemp THEN AllocTemp(c0) ELSE c0
        base == c.nextTemp
        d == SkipUnlessPresent(CompileExpression(c, e.fn), base, dst)
        f == IF HasSpread(e.args)
             THEN Emit(CompileSpreadArgs(d, e.args), Instr("CallSpread", callDst, base, d.nextTemp))
             ELSE RestoreTemps(Emit(CompileArguments(d, e.args, base),
                                    Instr("Call", callDst, base, Len(e.args))), d.nextTemp)
        g == ReloadAndMoveResult(f, callDst, dst)
    IN  PatchJump(g, Len(d.code), Here(g))

-----------------------------------------------------------------------------
(* Assignments *)

RECURSIVE AssignPattern(_, _, _), DestructureArray(_, _, _, _), DestructureHash(_, _, _, _)
RECURSIVE CompileAssign(_, _, _, _, _)

AddRegConst(c, r, k) == Emit(c, [Instr("AddRegConst", r, r, 0) EXCEPT !.k = k])

(* the register or the global slot of the name takes src *)
StoreTarget(c, name, src) ==
    IF name \in DOMAIN c.locals
    THEN MirrorLocalToGlobal(Move(c, c.locals[name], src), name, c.locals[name])
    ELSE LET d == EnsureGlobal(c, name)
         IN  Emit(d, Instr("SetGlobal", 0, d.globals[name], src))

AssignIdent(c, name, op, right, dst) ==
    LET local == name \in DOMAIN c.locals
        r == c.locals[name]
        Fused(n) == Move(MirrorLocalToGlobal(AddRegConst(c, r, Number(n)), name, r), dst, r)
        Stored(d, src) == Move(StoreTarget(d, name, src), dst, IF local THEN r ELSE src)
    IN  IF op = "=" /\ local /\ IsNamePlusConst(right, name) THEN Fused(right.right.n)
        ELSE IF op = "+=" /\ local /\ IsConst(right) THEN Fused(right.n)
        ELSE IF op = "=" /\ local
        THEN Move(MirrorLocalToGlobal(CompileInto(c, right, r), name, r), dst, r)
        ELSE IF op = "=" THEN Stored(CompileExpression(c, right), c.nextTemp)
        ELSE LET cur == c.nextTemp
                 d == LoadIdentifierInto(AllocTemp(c), name, cur)
                 rhs == d.nextTemp
                 f == CompileExpression(d, right)
                 result == f.nextTemp
             IN  Stored(Emit(AllocTemp(f), Instr(BaseOp[op], result, cur, rhs)), result)

AssignIdentLogical(c, name, op, right, dst) ==
    LET cur == c.nextTemp
        d == LoadIdentifierInto(AllocTemp(c), name, cur)
        Stored(f) == StoreTarget(CompileInto(f, right, dst), name, dst)
    IN  IF op = "??="
        THEN LET n == d.nextTemp
                 test == Emit(Emit(AllocTemp(d), Instr("IsNullish", n, cur, 0)),
                              Instr("JumpIfNot", 0, n, 0))
                 over == Emit(Stored(test), JumpTo(Unpatched))
                 keep == Move(PatchJump(over, Len(test.code), Here(over)), dst, cur)
             IN  PatchJump(keep, Len(over.code), Here(keep))
        ELSE LET jump == IF op = "||=" THEN "JumpIfTruthy" ELSE "JumpIfNot"
                 test == Emit(Move(d, dst, cur), Instr(jump, 0, dst, 0))
                 f == Stored(test)
             IN  PatchJump(f, Len(test.code), Here(f))

IsPropOf(e, obj) == IsMethod(e) /\ e.left = obj

(* obj.p += CONST, obj.p = obj.p + CONST, obj.p = CONST + obj.p *)
IsFusedAddToProp(c, target, op, right) ==
    /\ IsMethod(target) /\ IsLocal(c, target.left)
    /\ \/ op = "+=" /\ IsConst(right)
       \/ op = "=" /\ IsInfix(right, "+")
          /\ \/ right.left = target /\ IsConst(right.right)
             \/ right.right = target /\ IsConst(right.left)
AddendOf(op, right) ==
    IF op = "+=" THEN right.n ELSE IF IsConst(right.right) THEN right.right.n ELSE right.left.n

(* obj.z = obj.x + obj.y *)
IsFusedAddProps(c, target, op, right) ==
    /\ op = "=" /\ IsMethod(target) /\ IsLocal(c, target.left)
    /\ IsInfix(right, "+") /\ IsPropOf(right.left, target.left) /\ IsPropOf(right.right, target.left)

(* the object goes back to the register of its name *)
WriteBack(c, target, obj) ==
    IF IsLocal(c, target.left) THEN Move(c, c.locals[target.left.name], obj) ELSE c

AssignIndexLogical(c, target, op, right, dst) ==
    LET obj == c.nextTemp
        o == CompileExpression(c, target.left)
        key == o.nextTemp
        d == CompileExpression(o, target.index)
        old == d.nextTemp
        read == Emit(AllocTemp(d), Instr("Index", old, obj, key))
        test == CASE op = "||=" -> Emit(read, Instr("JumpIfTruthy", 0, old, 0))
                  [] op = "&&=" -> Emit(read, Instr("JumpIfNot", 0, old, 0))
                  [] op = "??=" ->
                        Emit(Emit(AllocTemp(read), Instr("IsNullish", read.nextTemp, old, 0)),
                             Instr("JumpIfNot", 0, read.nextTemp, 0))
        rhs == test.nextTemp
        f == Emit(CompileExpression(test, right), Instr("SetIndex", rhs, obj, key))
        g == Emit(WriteBack(f, target, obj), Instr("Move", dst, rhs, 0))
    IN  Emit(PatchJump(g, Len(test.code), Here(g)), Instr("Move", dst, old, 0))

AssignIndexGeneral(c, target, op, right, dst) ==
    LET obj == c.nextTemp
        d == CompileExpression(c, target.left)
        key == d.nextTemp
        f == CompileExpression(d, target.index)
        old == f.nextTemp
        read == Emit(AllocTemp(f), Instr("Index", old, obj, key))
        g == CompileExpression(IF op = "=" THEN f ELSE read, right)
        val == IF op = "=" THEN f.nextTemp ELSE g.nextTemp
        h == IF op = "=" THEN g
             ELSE Emit(AllocTemp(g), Instr(BaseOp[op], val, old, read.nextTemp))
    IN  Move(WriteBack(Emit(h, Instr("SetIndex", val, obj, key)), target, obj), dst, val)

AssignIndex(c, target, op, right, dst) ==
    LET name == target.left.name
        r == c.locals[name]
        p == target.index.s
        Read(d) == IF dst = r THEN d ELSE Emit(d, NamedProp("GetProp", dst, r, 0, p))
        named == op = "=" /\ IsMethod(target) /\ target.left.t = "Identifier"
    IN  IF IsFusedAddToProp(c, target, op, right)
        THEN Read(Emit(c, [NamedProp("AddConstToRegProp", 0, r, 0, p)
                            EXCEPT !.m = Number(AddendOf(op, right))]))
        ELSE IF IsFusedAddProps(c, target, op, right)
        THEN Emit(c, [NamedProp("AddRegPropsToRegProp", 0, r, 0, p)
                        EXCEPT !.s = <<right.left.index.s, right.right.index.s>>])
        ELSE IF named /\ name \in DOMAIN c.locals
        THEN Emit(CompileInto(c, right, dst), NamedProp("SetProp", dst, r, 0, p))
        ELSE IF named /\ name \in DOMAIN c.globals
        THEN Emit(CompileInto(c, right, dst),
                  NamedProp("SetGlobalProp", dst, c.globals[name], 0, p))
        ELSE IF op \in LogicalAssignments THEN AssignIndexLogical(c, target, op, right, dst)
        ELSE AssignIndexGeneral(c, target, op, right, dst)

CompileAssign(c, left, op, right, dst) ==
    CASE left.t = "Identifier" /\ left.name \in c.consts -> Fail(c)
      [] left.t = "Identifier" /\ op \in LogicalAssignments ->
            AssignIdentLogical(c, left.name, op, right, dst)
      [] left.t = "Identifier" -> AssignIdent(c, left.name, op, right, dst)
      [] left.t = "Index" -> AssignIndex(c, left, op, right, dst)
      [] OTHER ->
            LET src == c.nextTemp
                d == CompileExpression(c, right)
                f == IF left.t = "Array" THEN DestructureArray(d, left.items, src, 0)
                     ELSE DestructureHash(d, left.pairs, src, left.pairs)
            IN  IF IsLocalRegister(f, dst) THEN f ELSE Move(f, dst, src)

One == Num(1)

CompileUpdate(c, e, dst) ==
    LET op == IF e.op = "++" THEN "+=" ELSE "-="
        d == Move(CompileExpression(c, e.target), dst, c.nextTemp)
    IN  CompileAssign(IF e.prefix THEN c ELSE AllocTemp(d), e.target, op, One,
                      IF e.prefix THEN dst ELSE d.nextTemp)

-----------------------------------------------------------------------------
(* Destructuring *)

RECURSIVE PatternNames(_), PreDeclare(_, _)

(* the names an item binds, in order *)
ItemNames(item) ==
    CASE item.t = "Hole" -> <<>>
      [] item.t = "Rest" -> <<item.name>>
      [] item.target.t = "Identifier" -> <<item.target.name>>
      [] OTHER -> PatternNames(item.target)

RECURSIVE NamesOfItems(_)
NamesOfItems(items) ==
    IF items = <<>> THEN <<>> ELSE ItemNames(Head(items)) \o NamesOfItems(Tail(items))

PatternNames(pattern) == NamesOfItems(pattern.items)

PreDeclare(c, names) ==
    IF c.err \/ names = <<>> THEN c ELSE PreDeclare(EnsureLocal(c, Head(names)), Tail(names))

ApplyDefault(c, val, default) ==
    IF Absent(default) THEN c
    ELSE LET ty == c.nextTemp
             d == Emit(AllocTemp(c), Instr("Typeof", ty, val, 0))
             undef == Emit(AllocTemp(d), LoadConst(ty + 1, Text("undefined")))
             test == Emit(Emit(AllocTemp(undef), Instr("Equal", ty + 2, ty, ty + 1)),
                          Instr("JumpIfNot", 0, ty + 2, 0))
             f == CompileInto(test, default, val)
         IN  PatchJump(f, Len(test.code), Here(f))

RECURSIVE CompileKeys(_, _)
CompileKeys(c, keys) ==
    IF c.err \/ keys = <<>> THEN c
    ELSE CompileKeys(CompileInto(AllocTemp(c), Head(keys), c.nextTemp), Tail(keys))

(* the properties of src but those of the keys; its register is the last one allocated *)
CompileObjectRest(c, src, keys) ==
    LET base == c.nextTemp
        d == CompileKeys(c, keys)
    IN  Emit(AllocTemp(d),
             [Instr("ObjectRest", d.nextTemp, src, base) EXCEPT !.m = Number(Len(keys))])

RECURSIVE KeysOf(_)
KeysOf(items) ==
    IF items = <<>> THEN <<>>
    ELSE (IF Head(items).t = "Prop" THEN <<Head(items).key>> ELSE <<>>) \o KeysOf(Tail(items))

(* src[key]: the key and the value in two registers, the value in the second *)
ReadItem(c, src, key) ==
    LET d == CompileExpression(c, key)
    IN  Emit(AllocTemp(d), Instr("Index", d.nextTemp, src, c.nextTemp))
ReadInto(c, key) == CompileExpression(c, key).nextTemp

AssignTarget(c, target, src) ==
    IF target.t = "Identifier" THEN StoreIdentifier(c, target.name, src)
    ELSE AssignPattern(c, target, src)

(* the rest register is allocated before the array is sliced, and behind the keys of an object *)
AssignItem(c, pattern, i, src) ==
    LET item == pattern.items[i]
        key == IF pattern.t = "ArrayPattern" THEN Num(i - 1) ELSE item.key
        val == ReadInto(c, key)
        keys == KeysOf(pattern.items)
    IN  CASE item.t = "Hole" -> c
          [] item.t = "Rest" /\ pattern.t = "ArrayPattern" ->
                StoreIdentifier(Emit(AllocTemp(c), Instr("IteratorRest", c.nextTemp, src, i - 1)),
                                item.name, c.nextTemp)
          [] item.t = "Rest" ->
                LET d == CompileObjectRest(c, src, keys)
                IN  StoreIdentifier(d, item.name, d.code[Len(d.code)].dst)
          [] OTHER ->
                AssignTarget(ApplyDefault(ReadItem(c, src, key), val, item.default),
                             item.target, val)

RECURSIVE AssignItems(_, _, _, _)
AssignItems(c, pattern, i, src) ==
    IF i > Len(pattern.items) THEN c
    ELSE AssignItems(AssignItem(c, pattern, i, src), pattern, i + 1, src)

AssignPattern(c, pattern, src) == AssignItems(c, pattern, 1, src)

(* [a, b = 1, [c], ...rest] = src: i items are done *)
DestructureArray(c, items, src, i) ==
    IF c.err \/ items = <<>> THEN c
    ELSE LET e == Head(items)
             val == ReadInto(c, Num(i))
             read == ReadItem(c, src, Num(i))
             nested == CountTempName(StoreIdentifier(read, MakeTempName(read, "arr_nested"), val))
             d == CASE e.t = "Spread" ->
                        StoreIdentifier(
                            Emit(AllocTemp(c), Instr("IteratorRest", c.nextTemp, src, i)),
                            e.value.name, c.nextTemp)
                    [] e.t = "Identifier" -> StoreIdentifier(read, e.name, val)
                    [] e.t = "Assign" ->
                        StoreIdentifier(ApplyDefault(read, val, e.right), e.left.name, val)
                    [] OTHER ->
                        CompileAssign(nested, e, "=", Id(MakeTempName(read, "arr_nested")), val)
         IN  DestructureArray(d, Tail(items), src, i + 1)

RECURSIVE HashKeys(_)
HashKeys(pairs) ==
    IF pairs = <<>> THEN <<>>
    ELSE (IF IsSpreadPair(Head(pairs)) THEN <<>> ELSE <<Head(pairs).key>>)
             \o HashKeys(Tail(pairs))

(* ({k: a, k: b = 1, k: {c}, ...rest} = src) *)
DestructureHash(c, pairs, src, all) ==
    IF c.err \/ pairs = <<>> THEN c
    ELSE LET p == Head(pairs)
             e == p.value
             val == ReadInto(c, p.key)
             read == ReadItem(c, src, p.key)
             rest == CompileObjectRest(c, src, HashKeys(all))
             name == MakeTempName(read, "obj_nested")
             nested == CountTempName(StoreIdentifier(read, name, val))
             d == CASE IsSpreadPair(p) ->
                        StoreIdentifier(rest, e.name, rest.code[Len(rest.code)].dst)
                    [] e.t = "Identifier" -> StoreIdentifier(read, e.name, val)
                    [] e.t = "Assign" ->
                        StoreIdentifier(ApplyDefault(read, val, e.right), e.left.name, val)
                    [] OTHER ->
                        CompileAssign(AllocTemp(nested), e, "=", Id(name), nested.nextTemp)
         IN  DestructureHash(d, Tail(pairs), src, all)

-----------------------------------------------------------------------------
(* Functions *)

FunctionOf(c, params, rest, arrow, captures) ==
    [code |-> c.code, registers |-> c.maxReg + 1, params |-> params, rest |-> rest,
     takesThis |-> ~arrow, captures |-> captures]

(* var declarations anywhere in the function, but not in functions in it *)
RECURSIVE VarNames(_)
VarNamesIn(s) ==
    CASE s.t = "Let" -> IF s.kind = "var" THEN <<s.name>> ELSE <<>>
      [] s.t = "LetPattern" -> IF s.kind = "var" THEN PatternNames(s.pattern) ELSE <<>>
      [] s.t \in {"Block", "MultiLet", "While", "DoWhile", "ForOf", "ForIn"} -> VarNames(s.body)
      [] s.t = "For" -> VarNames(<<s.init>>) \o VarNames(s.body)
      [] s.t = "Labeled" -> VarNames(<<s.body>>)
      [] s.t = "Try" -> VarNames(<<s.block, s.handler, s.finalizer>>)
      [] s.t = "Switch" -> VarNames([i \in DOMAIN s.cases |-> Block(s.cases[i].body)])
      [] s.t = "Expression" ->
            IF s.e.t = "If" THEN VarNames(s.e.cons) \o VarNames(<<s.e.alt>>) ELSE <<>>
      [] OTHER -> <<>>
VarNames(stmts) ==
    IF stmts = <<>> THEN <<>> ELSE VarNamesIn(Head(stmts)) \o VarNames(Tail(stmts))

HoistVars(c, stmts) == PreDeclare(c, VarNames(stmts))

(* the registers of the parameters; of two parameters of one name, the last *)
ParamRegisters(names) ==
    [n \in {names[i] : i \in DOMAIN names} |->
        CHOOSE r \in 0 .. Len(names) - 1 :
            names[r + 1] = n /\ \A q \in r + 2 .. Len(names) : names[q] # n]

NewFunctionScope(c, names, captured) ==
    LET params == {names[i] : i \in DOMAIN names}
        n == Len(names)
    IN  [NewCompiler(captured, FALSE, WithoutNames(c.globals, params \cap captured),
                     c.nextGlobal, c.funcs)
            EXCEPT !.locals = ParamRegisters(names), !.numLocals = n, !.nextTemp = n,
                   !.maxReg = Larger(0, n - 1)]

RECURSIVE MirrorParams(_, _, _)
(* captured parameters get a slot of their own, which closures snapshot *)
MirrorParams(c, names, r) ==
    IF r = Len(names) THEN c
    ELSE LET name == names[r + 1]
             d == EnsureGlobal(c, name)
             fresh == name \notin DOMAIN c.globals
             m == [Emit(d, Instr("SetGlobal", 0, d.globals[name], r))
                    EXCEPT !.shadow = IF fresh THEN @ \cup {d.globals[name]} ELSE @]
         IN  MirrorParams(IF NeedsGlobal(c, name) THEN m ELSE c, names, r + 1)

RECURSIVE CompileDeclarations(_, _), CompileRest(_, _, _)

CompileDeclarations(c, stmts) ==
    IF c.err \/ stmts = <<>> THEN c
    ELSE CompileDeclarations(
            IF Head(stmts).t = "FunctionDecl" THEN FreeTemps(CompileStatement(c, Head(stmts)))
            ELSE c,
            Tail(stmts))

(* the statements in turn, without the function declarations if skip is set *)
CompileRest(c, stmts, skip) ==
    IF c.err \/ stmts = <<>> THEN c
    ELSE CompileRest(
            IF skip /\ Head(stmts).t = "FunctionDecl" THEN c
            ELSE FreeTemps(CompileStatement(c, Head(stmts))),
            Tail(stmts), skip)

EndsWithReturn(code) == code # <<>> /\ LastOf(code).op \in {"Return", "ReturnUndef"}

EndFunction(c) ==
    LET d == IF c.last = NoReg THEN c ELSE Emit(c, Instr("Return", 0, c.last, 0))
        f == IF EndsWithReturn(d.code) THEN d ELSE Emit(d, Instr("ReturnUndef", 0, 0, 0))
    IN  Emit(f, Instr("Halt", 0, 0, 0))

(* a parameter is an Id, or a Rest at the end *)
CompileFunction(c, e, dst) ==
    LET params == [i \in DOMAIN e.params |-> e.params[i].name]
        names == (IF e.arrow THEN <<>> ELSE <<"this">>) \o params
        n == Len(params)
        hasRest == n > 0 /\ e.params[n].t = "Rest"
        inner == NewFunctionScope(c, names, CapturedNames(e.body))
        hoisted == HoistVars(MirrorParams(inner, names, 0), e.body)
        declared == [CompileDeclarations(hoisted, e.body) EXCEPT !.last = NoReg]
        done == EndFunction(CompileRest(declared, e.body, TRUE))
        slots == {done.globals[g] : g \in DOMAIN done.globals} \cap c.shadow
        f == FunctionOf(done, IF hasRest THEN n - 1 ELSE n, IF hasRest THEN n ELSE 0,
                        e.arrow, slots)
        id == Len(done.funcs) + 1
        d == [c EXCEPT !.funcs = Append(done.funcs, f), !.nextGlobal = Larger(@, done.nextGlobal),
                       !.globals = @ @@ done.globals, !.err = @ \/ done.err]
    IN  IF slots = {} THEN Emit(d, LoadConst(dst, FunctionValue(id)))
        ELSE Emit(d, [Instr("MakeClosure", dst, 0, 0) EXCEPT !.k = FunctionValue(id)])

-----------------------------------------------------------------------------
(* Conditions and loops *)

(* a jump to be patched that is taken when the condition does not hold *)
CompileCondition(c, e) ==
    IF IsFusedCompare(c, e)
    THEN Emit(c, [Instr(IF e.op = "<" THEN "TestLtConstJump" ELSE "TestLeConstJump",
                        0, c.locals[e.left.name], 0) EXCEPT !.k = Number(e.right.n)])
    ELSE IF IsFusedModEq(c, e)
    THEN Emit(c, [Instr("ModRegConstStrictEqConstJump", 0, c.locals[e.left.left.name], 0)
                    EXCEPT !.k = Number(e.left.right.n), !.m = Number(e.right.n)])
    ELSE Emit(CompileExpression(c, e), Instr("JumpIfNot", 0, c.nextTemp, 0))

RECURSIVE CompileAll(_, _), CompileAllFreeing(_, _)

CompileAll(c, stmts) ==
    IF c.err \/ stmts = <<>> THEN c ELSE CompileAll(CompileStatement(c, Head(stmts)), Tail(stmts))

CompileAllFreeing(c, stmts) ==
    IF c.err \/ stmts = <<>> THEN c
    ELSE CompileAllFreeing(FreeTemps(CompileStatement(c, Head(stmts))), Tail(stmts))

InBlockScope(c, stmts, Body(_)) ==
    ExitBlockScope(Body(EnterBlockScope([c EXCEPT !.last = NoReg], stmts)), c, stmts)

CompileBlock(c, stmts) == LET Body(d) == CompileAll(d, stmts) IN InBlockScope(c, stmts, Body)
CompileLoopBody(c, stmts) ==
    LET Body(d) == CompileAllFreeing(d, stmts) IN InBlockScope(c, stmts, Body)

CompileIf(c, e, dst) ==
    LET test == CompileCondition(c, e.cond)
        cons == CompileBlock(test, e.cons)
        Result(d) == IF d.last = NoReg THEN d ELSE Move(d, dst, d.last)
        over == Emit(Result(cons), JumpTo(Unpatched))
        other == PatchJump(over, Len(test.code), Here(over))
        alt == IF Absent(e.alt) THEN Emit(other, Instr("LoadNull", dst, 0, 0))
               ELSE Result(CompileBlock(other, e.alt.body))
    IN  PatchJump(alt, Len(over.code), Here(alt))

(* the loops around a statement, innermost last; the jumps out of them wait here *)
PushLoop(c, label) ==
    [c EXCEPT !.loops = Append(@, [label |-> label, breaks |-> {}, continues |-> {}])]

(* A mutated form: the jumps of continue keep their placeholder. *)
PopLoopForgettingContinue(c, continueAt, end) ==
    [PatchAll(c, LastOf(c.loops).breaks, end) EXCEPT !.loops = Front1(@), !.last = NoReg]

(* A mutated form: break goes where continue goes. *)
PopLoopStaying(c, continueAt, end) ==
    LET loop == LastOf(c.loops)
    IN  [PatchAll(c, loop.breaks \cup loop.continues, continueAt)
            EXCEPT !.loops = Front1(@), !.last = NoReg]

PopLoop(c, continueAt, end) ==
    LET loop == LastOf(c.loops)
        d == PatchAll(PatchAll(c, loop.breaks, end), loop.continues, continueAt)
    IN  [d EXCEPT !.loops = Front1(@), !.last = NoReg]

MatchingLoops(c, label) ==
    {i \in DOMAIN c.loops : label \in {"", c.loops[i].label}}

LeaveLoop(c, label, list) ==
    LET found == MatchingLoops(c, label)
        i == CHOOSE i \in found : \A j \in found : j <= i
        d == Emit(c, JumpTo(Unpatched))
        at == Len(d.code)
    IN  IF found = {} THEN Fail(c)
        ELSE IF list = "break" THEN [d EXCEPT !.loops[i].breaks = @ \cup {at}, !.last = NoReg]
        ELSE [d EXCEPT !.loops[i].continues = @ \cup {at}, !.last = NoReg]

CompileWhile(c, s, label) ==
    LET start == Here(c)
        test == PushLoop(CompileCondition(c, s.cond), label)
        fused == /\ s.body # <<>>
                 /\ LastOf(s.body).t = "Expression"
                 /\ IsFusedIncrement(test, LastOf(s.body).e)
                 /\ LastOf(s.body).e.left.name \notin DOMAIN test.globals
        last == LastOf(s.body).e
        Body(d) == CompileAllFreeing(d, IF fused THEN Front1(s.body) ELSE s.body)
        body == InBlockScope(test, s.body, Body)
        back == IF fused
                THEN Emit(body, [Instr("IncrementRegAndJump", 0, test.locals[last.left.name], 0)
                                    EXCEPT !.k = IncrementOf(last), !.to = start])
                ELSE Emit(body, JumpTo(start))
        done == PatchJump(back, Len(test.code), Here(back))
    IN  PopLoop(done, start, Here(done))

CompileDoWhile(c, s, label) ==
    LET body == CompileLoopBody(PushLoop(c, label), s.body)
        test == Emit(CompileExpression(body, s.cond), Instr("JumpIfNot", 0, body.nextTemp, 0))
        back == Emit(test, JumpTo(Here(c)))
        done == PatchJump(back, Len(test.code), Here(back))
    IN  PopLoop(done, Here(body), Here(done))

(* the slot of a loop variable that a function in the body captures *)
LoopCapture(c, s) ==
    IF s.init.t = "Let"
    THEN IF s.init.kind = "let" /\ s.init.name \in CapturedNames(s.body)
         THEN LET d == EnsureGlobal(c, s.init.name)
              IN  [d EXCEPT !.shadow = @ \cup {d.globals[s.init.name]}]
         ELSE c
    ELSE c

CompileForUpdate(c, s, start) ==
    LET fused == IsFusedIncrement(c, s.update)
        name == s.update.left.name
        r == c.locals[name]
        k == IncrementOf(s.update)
    IN  IF Absent(s.update) THEN Emit(c, JumpTo(start))
        ELSE IF ~fused THEN Emit(FreeTemps(CompileExpression(c, s.update)), JumpTo(start))
        ELSE IF name \in DOMAIN c.globals
        THEN Emit(MirrorLocalToGlobal(AddRegConst(c, r, k), name, r), JumpTo(start))
        ELSE Emit(c, [Instr("IncrementRegAndJump", 0, r, 0) EXCEPT !.k = k, !.to = start])

CompileFor(c, s, label) ==
    LET captured == LoopCapture(c, s)
        init == IF Absent(s.init) THEN captured ELSE CompileStatement(captured, s.init)
        start == Here(init)
        test == IF Absent(s.cond)
                THEN Emit(Emit(AllocTemp(init), Instr("LoadTrue", init.nextTemp, 0, 0)),
                          Instr("JumpIfNot", 0, init.nextTemp, 0))
                ELSE CompileCondition(init, s.cond)
        body == CompileLoopBody(PushLoop(test, label), s.body)
        back == CompileForUpdate(body, s, start)
        done == PopLoop(PatchJump(back, Len(test.code), Here(back)), Here(body), Here(back))
    IN  [done EXCEPT !.shadow = c.shadow]

(* a loop over the array of the items (for-of) or of the keys (for-in), with an
   index in a name of its own; src is the register of the array *)
CompileIteration(c, s, label, src, listName, indexName) ==
    LET list == StoreIdentifier(c, listName, src)
        index == EnsureLocal(list, indexName)
        init == Emit(index, LoadConst(index.locals[indexName], Number(0)))
        cond == Infix(Id(indexName), "<", Index(Id(listName), Str("length")))
        test == PushLoop(Emit(CompileExpression(init, cond),
                              Instr("JumpIfNot", 0, init.nextTemp, 0)), label)
        item == test.nextTemp
        read == CompileExpression(test, Index(Id(listName), Id(indexName)))
        bound == AssignTarget(read, s.target, item)
        body == CompileBlock(bound, s.body)
        step == CompileExpression(body, Assign(Id(indexName), "+=", One))
        back == Emit(step, JumpTo(Here(init)))
    IN  PopLoop(PatchJump(back, Len(test.code), Here(back)), Here(body), Here(back))

CompileForOf(c0, s, label) ==
    LET listName == MakeTempName(c0, "iter")
        c1 == CountTempName(c0)
        indexName == MakeTempName(c1, "i")
        c == CountTempName(c1)
        from == Call(Index(Id("Array"), Str("from")), <<s.iterable>>)
    IN  CompileIteration(CompileExpression(c, from), s, label, c.nextTemp, listName, indexName)

CompileForIn(c0, s, label) ==
    LET listName == MakeTempName(c0, "keys")
        c1 == CountTempName(c0)
        indexName == MakeTempName(c1, "ki")
        c == CountTempName(c1)
        d == CompileExpression(c, s.iterable)
        keys == Emit(AllocTemp(d), Instr("GetKeysIter", d.nextTemp, c.nextTemp, 0))
    IN  CompileIteration(keys, s, label, d.nextTemp, listName, indexName)

-----------------------------------------------------------------------------
(* switch: all tests first, then all bodies, each falling into the next *)

RECURSIVE CompileTests(_, _, _, _), CompileCases(_, _)

(* tests[i] is the jump to the body of the i-th case *)
CompileTests(c, cases, disc, tests) ==
    IF cases = <<>> THEN [c |-> c, tests |-> tests]
    ELSE IF Absent(Head(cases).test)
    THEN CompileTests(c, Tail(cases), disc, Append(tests, 0))
    ELSE LET d == CompileExpression(c, Head(cases).test)
             cmp == d.nextTemp
             f == Emit(Emit(AllocTemp(d), Instr("StrictEqual", cmp, disc, c.nextTemp)),
                       Instr("JumpIfTruthy", 0, cmp, 0))
         IN  CompileTests(RestoreTemps(f, c.nextTemp), Tail(cases), disc,
                          Append(tests, Len(f.code)))

(* starts[i] is where the body of the i-th case starts *)
CompileCases(c, cases) ==
    IF cases = <<>> THEN [c |-> c, starts |-> <<>>]
    ELSE LET rest == CompileCases(CompileAllFreeing(c, Head(cases).body), Tail(cases))
         IN  [rest EXCEPT !.starts = <<Here(c)>> \o @]

CompileSwitch(c, s, label) ==
    LET d == CompileExpression(PushLoop(c, label), s.disc)
        tested == CompileTests(d, s.cases, c.nextTemp, <<>>)
        other == Emit(tested.c, JumpTo(Unpatched))
        bodies == CompileCases(other, s.cases)
        end == Here(bodies.c)
        defaults == {i \in DOMAIN s.cases : tested.tests[i] = 0}
        last == CHOOSE i \in defaults : \A j \in defaults : j <= i
        target == IF defaults = {} THEN end ELSE bodies.starts[last]
        Patched(i) ==
            IF i \in {tested.tests[j] : j \in DOMAIN s.cases} \ {0}
            THEN bodies.starts[CHOOSE j \in DOMAIN s.cases : tested.tests[j] = i]
            ELSE IF i = Len(other.code) THEN target
            ELSE IF i \in LastOf(bodies.c.loops).breaks THEN end
            ELSE bodies.c.code[i].to
    IN  [bodies.c EXCEPT !.loops = Front1(@), !.last = NoReg,
            !.code = [i \in DOMAIN @ |-> [@[i] EXCEPT !.to = Patched(i)]]]

-----------------------------------------------------------------------------
(* throw, try and return.  An exception is a jump to the catch block of    *)
(* the innermost try statement of the same function; a return within a try *)
(* statement with a finally block is a flag, a value and a jump to it.     *)

TryContext(exception, hasFinally, value, flag) ==
    [exception |-> exception, throws |-> {}, hasFinally |-> hasFinally,
     value |-> value, flag |-> flag, returns |-> {}]

CompileThrow(c, s) ==
    LET d == CompileExpression(c, s.value)
        n == Len(c.trys)
        f == Emit(StoreIdentifier(d, c.trys[n].exception, c.nextTemp), JumpTo(Unpatched))
    IN  IF n = 0 THEN [Emit(d, Instr("Throw", 0, c.nextTemp, 0)) EXCEPT !.last = NoReg]
        ELSE [f EXCEPT !.trys[n].throws = @ \cup {Len(f.code)}, !.last = NoReg]

(* the value is in register r *)
CompileReturn(c, r) ==
    LET n == Len(c.trys)
        t == c.trys[n]
        d == StoreIdentifier(c, t.value, r)
        f == Emit(AllocTemp(d), Instr("LoadTrue", d.nextTemp, 0, 0))
        g == Emit(StoreIdentifier(f, t.flag, d.nextTemp), JumpTo(Unpatched))
        deferred == IF n = 0 THEN FALSE ELSE t.hasFinally
    IN  IF deferred THEN [g EXCEPT !.trys[n].returns = @ \cup {Len(g.code)}]
        ELSE Emit(c, Instr("Return", 0, r, 0))

CompileReturnVoid(c) ==
    LET n == Len(c.trys)
        deferred == IF n = 0 THEN FALSE ELSE c.trys[n].hasFinally
    IN  IF deferred
        THEN CompileReturn(Emit(AllocTemp(c), Instr("LoadUndef", c.nextTemp, 0, 0)), c.nextTemp)
        ELSE Emit(c, Instr("ReturnUndef", 0, 0, 0))

RECURSIVE CompileKeepingLast(_, _, _)
(* the result is that of the last statement that has one *)
CompileKeepingLast(c, stmts, last) ==
    IF c.err \/ stmts = <<>> THEN [c EXCEPT !.last = last]
    ELSE LET d == CompileStatement(c, Head(stmts))
         IN  CompileKeepingLast(d, Tail(stmts), IF d.last = NoReg THEN last ELSE d.last)

StoreInitial(c, op, name) ==
    StoreIdentifier(Emit(AllocTemp(c), Instr(op, c.nextTemp, 0, 0)), name, c.nextTemp)

PopTry(c) == [c EXCEPT !.trys = Front1(@)]

CompileFinally(c, s, value, flag) ==
    LET d == CompileAll(c, s.finalizer.body)
        test == Emit(CompileExpression(d, Id(flag)), Instr("JumpIfNot", 0, d.nextTemp, 0))
        f == Emit(CompileExpression(test, Id(value)), Instr("Return", 0, test.nextTemp, 0))
    IN  PatchJump(f, Len(test.code), Here(f))

(* the names of the exception, the returned value and the return flag *)
TryOf(c, s) ==
    TryContext(TempName("exc", c.counter), ~Absent(s.finalizer),
               TempName("ret_val", c.counter + 1), TempName("ret_flag", c.counter + 2))

OpenTry(c, t) ==
    IF t.hasFinally
    THEN StoreInitial(StoreInitial([c EXCEPT !.counter = @ + 3], "LoadNull", t.exception),
                      "LoadFalse", t.flag)
    ELSE StoreInitial([c EXCEPT !.counter = @ + 1], "LoadNull", t.exception)

CompileTryBlock(c, s, t) ==
    Emit(CompileKeepingLast([c EXCEPT !.trys = Append(@, t)], s.block.body, NoReg),
         JumpTo(Unpatched))

(* the exceptions of the block arrive here; the handler defers returns if there
   is a finally block, and its own exceptions are those of the same statement *)
CatchThrows(c, t) ==
    IF t.hasFinally THEN PatchAll(c, LastOf(c.trys).throws, Here(c))
    ELSE PopTry(PatchAll(c, LastOf(c.trys).throws, Here(c)))

BindException(c, s, t) ==
    IF Absent(s.param) THEN c
    ELSE StoreIdentifier(CompileExpression(c, Id(t.exception)), s.param.name, c.nextTemp)

CompileCatch(c, s, t) ==
    IF Absent(s.handler) THEN c
    ELSE CompileKeepingLast(BindException(c, s, t), s.handler.body, c.last)

(* the end of the block and the deferred returns arrive here *)
CompileFinallyPart(c, s, t, afterTry) ==
    IF ~t.hasFinally THEN PatchJump(c, afterTry, Here(c))
    ELSE [CompileFinally(PatchAll(PopTry(c), LastOf(c.trys).returns \cup {afterTry}, Here(c)),
                         s, t.value, t.flag) EXCEPT !.last = c.last]

CompileAfterTry(c, s, t) ==
    CompileFinallyPart(CompileCatch(CatchThrows(c, t), s, t), s, t, Len(c.code))

TryCode(c, s, t) == CompileAfterTry(CompileTryBlock(OpenTry(c, t), s, t), s, t)

CompileTry(c, s) == TryCode(c, s, TryOf(c, s))

-----------------------------------------------------------------------------
(* Statements: the register of the value of the statement is c.last *)

CompileLet(c, s) ==
    LET d == EnsureLocal(IF s.kind = "const" THEN [c EXCEPT !.consts = @ \cup {s.name}] ELSE c,
                         s.name)
        r == d.locals[s.name]
    IN  MirrorIfNeeded(CompileInto(d, s.value, r), s.name, r)

CompileLetPattern(c, s) ==
    LET names == PatternNames(s.pattern)
        bound == {names[i] : i \in DOMAIN names}
        d == PreDeclare(IF s.kind = "const" THEN [c EXCEPT !.consts = @ \cup bound] ELSE c, names)
    IN  AssignPattern(CompileExpression(d, s.value), s.pattern, d.nextTemp)

CompileFunctionDecl(c, s) ==
    StoreBinding(CompileExpression(c, Function(s.params, s.body, FALSE)), s.name, c.nextTemp)

(* a loop or a switch, labelled or not *)
CompileBreakable(c, s, label) ==
    CASE s.t = "While" -> CompileWhile(c, s, label)
      [] s.t = "DoWhile" -> CompileDoWhile(c, s, label)
      [] s.t = "For" -> CompileFor(c, s, label)
      [] s.t = "ForOf" -> CompileForOf(c, s, label)
      [] s.t = "ForIn" -> CompileForIn(c, s, label)
      [] s.t = "Switch" -> CompileSwitch(c, s, label)
      [] OTHER -> Fail(c)

Breakable == {"While", "DoWhile", "For", "ForOf", "ForIn", "Switch", "Labeled"}
LabelOf(s) == IF s.t = "Labeled" THEN s.label ELSE ""
Unlabelled(s) == IF s.t = "Labeled" THEN s.body ELSE s

StatementCode(c, s) ==
    LET NoValue(d) == [d EXCEPT !.last = NoReg]
    IN  CASE s.t = "Let" -> NoValue(CompileLet(c, s))
          [] s.t = "LetPattern" -> NoValue(CompileLetPattern(c, s))
          [] s.t = "Return" -> NoValue(CompileReturn(CompileExpression(c, s.value), c.nextTemp))
          [] s.t = "ReturnVoid" -> NoValue(CompileReturnVoid(c))
          [] s.t = "Expression" -> [CompileExpression(c, s.e) EXCEPT !.last = c.nextTemp]
          [] s.t = "Block" -> CompileBlock(c, s.body)
          [] s.t = "MultiLet" -> CompileAll(NoValue(c), s.body)
          [] s.t \in Breakable -> CompileBreakable(c, Unlabelled(s), LabelOf(s))
          [] s.t = "FunctionDecl" -> NoValue(CompileFunctionDecl(c, s))
          [] s.t = "Throw" -> CompileThrow(c, s)
          [] s.t = "Try" -> CompileTry(c, s)
          [] s.t = "Break" -> LeaveLoop(c, s.label, "break")
          [] s.t = "Continue" -> LeaveLoop(c, s.label, "continue")

-----------------------------------------------------------------------------
(* Expressions: the value goes to register dst *)

CompileDelete(c, e, dst) ==
    LET obj == c.nextTemp
        d == CompileExpression(c, e.value.left)
        f == CompileExpression(d, e.value.index)
        g == Emit(f, Instr("DeleteProp", dst, obj, d.nextTemp))
        name == e.value.left.name
        back == IF e.value.left.t = "Identifier"
                THEN IF name \in DOMAIN g.locals
                     THEN Emit(g, Instr("Move", g.locals[name], obj, 0))
                     ELSE IF name \in DOMAIN g.globals
                     THEN Emit(g, Instr("SetGlobal", 0, g.globals[name], obj))
                     ELSE g
                ELSE g
    IN  CASE e.value.t = "Index" -> Emit(back, Instr("LoadTrue", dst, 0, 0))
          [] e.value.t = "Identifier" -> Emit(c, Instr("LoadFalse", dst, 0, 0))
          [] OTHER -> Emit(CompileExpression(c, e.value), Instr("LoadTrue", dst, 0, 0))

RECURSIVE CompileSequence(_, _, _)
CompileSequence(c, exprs, dst) ==
    IF Len(exprs) = 1 THEN CompileInto(c, Head(exprs), dst)
    ELSE CompileSequence(CompileExpression(c, Head(exprs)), Tail(exprs), dst)

ExpressionCode(c, e, dst) ==
    CASE e.t = "Integer" -> Emit(c, LoadConst(dst, Number(e.n)))
      [] e.t = "String" -> Emit(c, LoadConst(dst, Text(e.s)))
      [] e.t = "Boolean" -> Emit(c, Instr(IF e.b THEN "LoadTrue" ELSE "LoadFalse", dst, 0, 0))
      [] e.t = "Null" -> Emit(c, Instr("LoadNull", dst, 0, 0))
      [] e.t = "Identifier" -> LoadIdentifierInto(c, e.name, dst)
      [] e.t = "Prefix" -> CompilePrefix(c, e, dst)
      [] e.t = "Void" -> CompileVoid(c, e, dst)
      [] e.t = "Typeof" -> CompileTypeof(c, e, dst)
      [] e.t = "Delete" -> CompileDelete(c, e, dst)
      [] e.t = "Infix" ->
            IF e.op = "," THEN CompileComma(c, e, dst)
            ELSE IF e.op \in LogicalOps THEN CompileLogical(c, e, dst)
            ELSE CompileInfix(c, e, dst)
      [] e.t = "If" -> CompileIf(c, e, dst)
      [] e.t = "Function" -> CompileFunction(c, e, dst)
      [] e.t = "Array" -> CompileArray(c, e, dst)
      [] e.t = "Hash" -> CompileHash(c, e, dst)
      [] e.t = "Index" -> CompileIndex(c, e, dst)
      [] e.t = "OptionalIndex" -> CompileOptionalIndex(c, e, dst)
      [] e.t = "Call" -> CompileCall(c, e, dst)
      [] e.t = "OptionalCall" -> CompileOptionalCall(c, e, dst)
      [] e.t = "Assign" -> CompileAssign(c, e.left, e.op, e.right, dst)
      [] e.t = "Update" -> CompileUpdate(c, e, dst)
      [] e.t = "Sequence" -> CompileSequence(c, e.exprs, dst)

Compile(c, x, dst) ==
    IF x.t \in StatementKinds THEN StatementCode(c, x) ELSE ExpressionCode(c, x, dst)

-----------------------------------------------------------------------------
(* A script *)

ProgramCompiler(stmts) == NewCompiler(CapturedNames(stmts), FALSE, << >>, 0, <<>>)

(* the code of a script with all of its functions *)
ProgramOf(c) ==
    [code |-> Append(c.code, IF c.last = NoReg THEN Instr("Halt", 0, 0, 0)
                             ELSE Instr("HaltValue", 0, c.last, 0)),
     registers |-> c.maxReg + 1, funcs |-> c.funcs, globals |-> c.nextGlobal, err |-> c.err]

CompileProgram(stmts) ==
    ProgramOf(CompileRest(HoistVars(ProgramCompiler(stmts), stmts), stmts, FALSE))
=============================================================================
