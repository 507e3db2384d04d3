---------------------------- MODULE ScriptMeaning ----------------------------
(***************************************************************************)
(* What a script means, whatever compiles and runs it: the semantics of    *)
(* ECMAScript for the statements and expressions of Syntax, evaluated      *)
(* directly on the tree.                                                   *)
(*                                                                         *)
(* A state st has the variables (a sequence of cells), the heap and the    *)
(* log.  An environment maps the names in scope to cells.  Evaluating an   *)
(* expression gives [st, v, t]: its value, or with t set the value that    *)
(* was thrown.  Executing a statement gives a completion [st, c, v, label]:*)
(* c is normal, break, continue, return or throw.                          *)
(***************************************************************************)
EXTENDS Values

Done(st, v) == [st |-> st, v |-> v, t |-> FALSE]
Thrown(st, v) == [st |-> st, v |-> v, t |-> TRUE]
Completion(st, c, v, label) == [st |-> st, c |-> c, v |-> v, label |-> label]
Normal(st, v) == Completion(st, "normal", v, "")
Throwing(r) == Completion(r.st, "throw", r.v, "")

(* go on with the value r, or stop where it was thrown *)
Then(r, More(_)) == IF r.t THEN r ELSE More(r)
ThenDo(r, More(_)) == IF r.t THEN Throwing(r) ELSE More(r)

TypeErrorThrown == Text("TypeError")

OperatorName ==
    [op \in {"+", "-", "*", "%", "===", "!==", "==", "!=", "<", "<=", ">", ">="} |->
        CASE op = "+" -> "Add" [] op = "-" -> "Sub" [] op = "*" -> "Mul" [] op = "%" -> "Mod"
          [] op = "===" -> "StrictEqual" [] op = "!==" -> "StrictNotEqual"
          [] op = "==" -> "Equal" [] op = "!=" -> "NotEqual"
          [] op = "<" -> "LessThan" [] op = "<=" -> "LessOrEqual"
          [] op = ">" -> "GreaterThan" [] op = ">=" -> "GreaterOrEqual"]

Operate(op, x, y) ==
    LET name == OperatorName[op]
    IN  IF name \in ArithmeticOps THEN Arithmetic(name, x, y) ELSE Boolean(Compare(name, x, y))

(* the operator of a compound assignment *)
OperatorOf(op) == CASE op = "+=" -> "+" [] op = "-=" -> "-" [] op = "*=" -> "*" [] op = "%=" -> "%"

(* does a short-circuit operator stop at the value v of its left side? *)
StopsAt(op, v) ==
    CASE op \in {"&&", "&&="} -> ~IsTrue(v)
      [] op \in {"||", "||="} -> IsTrue(v)
      [] op \in {"??", "??="} -> ~IsNullish(v)

-----------------------------------------------------------------------------
(* Names and scopes *)

(* every name a binding pattern binds *)
RECURSIVE BoundNames(_)
BoundNames(target) ==
    IF target.t = "Identifier" THEN {target.name}
    ELSE UNION {CASE target.items[i].t = "Hole" -> {}
                  [] target.items[i].t = "Rest" -> {target.items[i].name}
                  [] OTHER -> BoundNames(target.items[i].target)
                : i \in DOMAIN target.items}

(* the names the statements of a block declare for the block *)
RECURSIVE BlockNames(_)
BlockNames(stmts) ==
    UNION {CASE stmts[i].t = "Let" /\ stmts[i].kind # "var" -> {stmts[i].name}
             [] stmts[i].t = "LetPattern" /\ stmts[i].kind # "var" ->
                    BoundNames(stmts[i].pattern)
             [] stmts[i].t = "FunctionDecl" -> {stmts[i].name}
             [] stmts[i].t = "MultiLet" -> BlockNames(stmts[i].body)
             [] OTHER -> {}
           : i \in DOMAIN stmts}

(* the names of var declarations, at any depth but not in functions *)
RECURSIVE FunctionNames(_)
FunctionNames(stmts) ==
    UNION {LET s == stmts[i]
           IN  CASE s.t = "Let" /\ s.kind = "var" -> {s.name}
                 [] s.t = "LetPattern" /\ s.kind = "var" -> BoundNames(s.pattern)
                 [] s.t \in {"Block", "MultiLet", "While", "DoWhile", "ForOf", "ForIn"} ->
                        FunctionNames(s.body)
                 [] s.t = "For" -> FunctionNames(<<s.init>> \o s.body)
                 [] s.t = "Labeled" -> FunctionNames(<<s.body>>)
                 [] s.t = "Try" -> FunctionNames(<<s.block, s.handler, s.finalizer>>)
                 [] s.t = "Switch" ->
                        UNION {FunctionNames(s.cases[j].body) : j \in DOMAIN s.cases}
                 [] s.t = "Expression" ->
                        IF s.e.t = "If" THEN FunctionNames(s.e.cons \o <<s.e.alt>>) ELSE {}
                 [] OTHER -> {}
           : i \in DOMAIN stmts}

RECURSIVE Declare(_, _, _)
(* new cells for the names, with their present values if copied *)
Declare(names, env, st) ==
    IF names = {} THEN [env |-> env, st |-> st]
    ELSE LET n == CHOOSE n \in names : TRUE
             v == IF n \in DOMAIN env THEN st.vars[env[n]] ELSE UNDEFINED
         IN  Declare(names \ {n}, (n :> Len(st.vars) + 1) @@ env,
                     [st EXCEPT !.vars = Append(@, v)])

Fresh(names, env, st) ==
    Declare(names, [n \in DOMAIN env \ names |-> env[n]], st)

SetVariable(st, env, name, v) ==
    IF name \in DOMAIN env THEN [st EXCEPT !.vars[env[name]] = v] ELSE st

New(st, cell) == Done([st EXCEPT !.heap = Allocated(@, cell)], NewReference(st.heap))

FunctionCell(params, body, arrow, env) ==
    [t |-> "closure", params |-> params, body |-> body, arrow |-> arrow, env |-> env]

RECURSIVE HoistFunctions(_, _, _)
HoistFunctions(stmts, env, st) ==
    IF stmts = <<>> THEN st
    ELSE LET s == Head(stmts)
             f == New(st, FunctionCell(s.params, s.body, FALSE, env))
         IN  HoistFunctions(Tail(stmts), env,
                            IF s.t = "FunctionDecl" THEN SetVariable(f.st, env, s.name, f.v)
                            ELSE st)

-----------------------------------------------------------------------------
(* Evaluation *)

(* an expression, or a statement with its label *)
RECURSIVE Evaluate(_, _, _, _)
Eval(e, env, st) == Evaluate(e, env, st, "")
Exec(s, env, st, label) == Evaluate(s, env, st, label)

RECURSIVE ExecAll(_, _, _, _)
ExecAll(stmts, env, st, last) ==
    IF stmts = <<>> THEN Normal(st, last)
    ELSE LET Next(r) ==
                IF r.c # "normal" THEN r
                ELSE ExecAll(Tail(stmts), env, r.st,
                             IF Head(stmts).t = "Expression" THEN r.v ELSE last)
         IN  Next(Exec(Head(stmts), env, st, ""))

ExecBlock(stmts, env, st) ==
    LET inner == Fresh(BlockNames(stmts), env, st)
    IN  ExecAll(stmts, inner.env, HoistFunctions(stmts, inner.env, inner.st), UNDEFINED)

Several(st, vs) == [st |-> st, vs |-> vs, v |-> UNDEFINED, t |-> FALSE]

RECURSIVE EvalAll(_, _, _, _)
(* the values of the expressions, behind those in vs; of a spread, its items *)
EvalAll(exprs, env, st, vs) ==
    IF exprs = <<>> THEN Several(st, vs)
    ELSE LET e == Head(exprs)
             spread == e.t = "Spread"
         IN  Then(Eval(IF spread THEN e.value ELSE e, env, st),
                  LAMBDA r : EvalAll(Tail(exprs), env, r.st,
                                     vs \o IF spread THEN RestOf(r.st.heap, r.v, 0) ELSE <<r.v>>))

(* what a call gives when its body ends with r *)
Returned(r) ==
    IF r.c = "throw" THEN Thrown(r.st, r.v)
    ELSE Done(r.st, IF r.c = "return" THEN r.v ELSE UNDEFINED)

Apply(f, this, args, st) ==
    IF ~IsCallable(st.heap, f) THEN Thrown(st, TypeErrorThrown)
    ELSE LET c == st.heap[f.v]
             n == Len(c.params)
             names == {c.params[i].name : i \in DOMAIN c.params}
             own == names \cup FunctionNames(c.body) \cup (IF c.arrow THEN {} ELSE {"this"})
             scope == Fresh(own, c.env, st)
             Argument(i) == IF i <= Len(args) THEN args[i] ELSE UNDEFINED
             rest == New(scope.st, ArrayCell(SubSeq(args, n, Len(args))))
             hasRest == n > 0 /\ c.params[n].t = "Rest"
             entered == IF hasRest THEN rest.st ELSE scope.st
             Initial(i) ==
                LET p == {k \in DOMAIN c.params : scope.env[c.params[k].name] = i}
                IN  IF ~c.arrow /\ i = scope.env["this"] THEN this
                    ELSE IF p = {} THEN entered.vars[i]
                    ELSE LET k == CHOOSE k \in p : TRUE
                         IN  IF hasRest /\ k = n THEN rest.v ELSE Argument(k)
             bound == [entered EXCEPT !.vars =
                        [i \in DOMAIN @ |-> IF i > Len(st.vars) THEN Initial(i) ELSE @[i]]]
         IN  Returned(ExecBlock(c.body, scope.env, bound))

RECURSIVE CallEach(_, _, _, _, _, _)
(* f(item, index, array) for each item: the results *)
CallEach(f, items, array, i, out, st) ==
    IF i = Len(items) THEN Several(st, out)
    ELSE Then(Apply(f, UNDEFINED, <<items[i + 1], Number(i), array>>, st),
              LAMBDA r : CallEach(f, items, array, i + 1, Append(out, r.v), r.st))

CallMethodOf(obj, name, args, st) ==
    LET first == IF args = <<>> THEN UNDEFINED ELSE args[1]
        isArray == IsArray(st.heap, obj)
        isEach == isArray /\ name \in {Text("map"), Text("forEach")}
    IN  IF obj = Builtin("console")
        THEN Done([st EXCEPT !.log = Append(@, Logged(st.heap, first))], UNDEFINED)
        ELSE IF obj = Builtin("Array") THEN New(st, ArrayCell(RestOf(st.heap, first, 0)))
        ELSE IF isArray /\ name = Text("push")
        THEN Done([st EXCEPT !.heap[obj.v].items = @ \o args],
                  Number(Len(Items(st.heap, obj)) + Len(args)))
        ELSE IF isEach /\ ~IsCallable(st.heap, first) THEN Thrown(st, TypeErrorThrown)
        ELSE IF isEach
        THEN Then(CallEach(first, Items(st.heap, obj), obj, 0, <<>>, st),
                  LAMBDA r : IF name = Text("map") THEN New(r.st, ArrayCell(r.vs))
                             ELSE Done(r.st, UNDEFINED))
        ELSE Apply(ReadProperty(st.heap, obj, name), obj, args, st)

-----------------------------------------------------------------------------
(* Destructuring *)

(* v or, if it is undefined, the default *)
OrDefault(v, default, env, st) ==
    IF v = UNDEFINED /\ ~Absent(default) THEN Eval(default, env, st) ELSE Done(st, v)

RECURSIVE BindItems(_, _, _, _, _)

(* the names of the pattern take the parts of v *)
BindTarget(target, v, env, st) ==
    IF target.t = "Identifier" THEN Done(SetVariable(st, env, target.name, v), v)
    ELSE BindItems(target, 1, v, env, st)

BindItems(pattern, i, v, env, st) ==
    LET item == pattern.items[i]
        isArray == pattern.t = "ArrayPattern"
        key == IF isArray THEN Number(i - 1) ELSE Text(item.key.s)
        keys == {pattern.items[j].key.s : j \in {k \in DOMAIN pattern.items :
                                                    pattern.items[k].t = "Prop"}}
        rest == New(st, IF isArray THEN ArrayCell(RestOf(st.heap, v, i - 1))
                        ELSE WithoutKeys(st.heap, v, keys))
        Bound ==
            CASE item.t = "Hole" -> Done(st, v)
              [] item.t = "Rest" -> BindTarget(Id(item.name), rest.v, env, rest.st)
              [] OTHER -> Then(OrDefault(ReadProperty(st.heap, v, key), item.default, env, st),
                               LAMBDA part : BindTarget(item.target, part.v, env, part.st))
    IN  IF i > Len(pattern.items) THEN Done(st, v)
        ELSE Then(Bound, LAMBDA r : BindItems(pattern, i + 1, v, env, r.st))

RECURSIVE AssignParts(_, _, _, _, _)
RECURSIVE AssignTo(_, _, _, _)
(* the same for the array or the object literal on the left of an assignment *)
AssignTo(target, v, env, st) ==
    CASE target.t = "Assign" ->
            Then(OrDefault(v, target.right, env, st),
                 LAMBDA r : AssignTo(target.left, r.v, env, r.st))
      [] target.t = "Array" -> AssignParts(target.items, 1, v, env, st)
      [] target.t = "Hash" -> AssignParts(target.pairs, 1, v, env, st)
      [] OTHER -> Done(SetVariable(st, env, target.name, v), v)

AssignParts(parts, i, v, env, st) ==
    LET p == parts[i]
        isPair == "key" \in DOMAIN p
        isRest == IF isPair THEN p.key = Str("__fl_rest__") ELSE p.t = "Spread"
        keys == {parts[j].key.s : j \in DOMAIN parts}
        rest == New(st, IF isPair THEN WithoutKeys(st.heap, v, keys)
                        ELSE ArrayCell(RestOf(st.heap, v, i - 1)))
        key == IF isPair THEN Text(p.key.s) ELSE Number(i - 1)
    IN  IF i > Len(parts) THEN Done(st, v)
        ELSE Then(AssignTo(IF isRest \/ isPair THEN p.value ELSE p,
                           IF isRest THEN rest.v ELSE ReadProperty(st.heap, v, key),
                           env, IF isRest THEN rest.st ELSE st),
                  LAMBDA r : AssignParts(parts, i + 1, v, env, r.st))

-----------------------------------------------------------------------------
(* Expressions *)

IsMember(e) == e.t \in {"Index", "OptionalIndex"}

(* obj.name(args), with the object as this *)
CallMember(e, object, env) ==
    IF e.fn.t = "OptionalIndex" /\ IsNullish(object.v) THEN Done(object.st, UNDEFINED)
    ELSE Then(Eval(e.fn.index, env, object.st), LAMBDA key :
         IF e.t = "OptionalCall" /\ IsNullish(ReadProperty(key.st.heap, object.v, key.v))
         THEN Done(key.st, UNDEFINED)
         ELSE Then(EvalAll(e.args, env, key.st, <<>>), LAMBDA args :
                   CallMethodOf(object.v, key.v, args.vs, args.st)))

CallValue(e, fn, env) ==
    IF e.t = "OptionalCall" /\ IsNullish(fn.v) THEN Done(fn.st, UNDEFINED)
    ELSE Then(EvalAll(e.args, env, fn.st, <<>>), LAMBDA args :
              Apply(fn.v, UNDEFINED, args.vs, args.st))

EvalCall(e, env, st) ==
    Then(Eval(IF IsMember(e.fn) THEN e.fn.left ELSE e.fn, env, st), LAMBDA r :
         IF IsMember(e.fn) THEN CallMember(e, r, env) ELSE CallValue(e, r, env))

RECURSIVE PairExprs(_)
PairExprs(pairs) ==
    IF pairs = <<>> THEN <<>>
    ELSE <<Head(pairs).key, Head(pairs).value>> \o PairExprs(Tail(pairs))

(* op(old value, right), where old is the value r of the target *)
Combine(op, r, right, env) ==
    Then(Eval(right, env, r.st), LAMBDA w :
         IF op \in {"=", "&&=", "||=", "??="} THEN w
         ELSE Done(w.st, Operate(OperatorOf(op), r.v, w.v)))

(* the target, whose value is old, is written unless the operator stops there *)
AssignOver(e, env, old, Write(_)) ==
    IF e.op \in {"&&=", "||=", "??="} /\ StopsAt(e.op, old.v) THEN old
    ELSE Then(Combine(e.op, old, e.right, env), Write)

AssignName(e, env, st) ==
    AssignOver(e, env, Eval(e.left, env, st),
               LAMBDA v : Done(SetVariable(v.st, env, e.left.name, v.v), v.v))

AssignMember(e, env, object, key) ==
    AssignOver(e, env, Done(key.st, ReadProperty(key.st.heap, object.v, key.v)),
               LAMBDA v : Done([v.st EXCEPT !.heap = WriteProperty(@, object.v, key.v, v.v)], v.v))

EvalAssign(e, env, st) ==
    CASE e.left.t = "Identifier" -> AssignName(e, env, st)
      [] e.left.t = "Index" ->
            Then(Eval(e.left.left, env, st), LAMBDA object :
            Then(Eval(e.left.index, env, object.st), LAMBDA key :
                 AssignMember(e, env, object, key)))
      [] OTHER ->
            Then(Eval(e.right, env, st), LAMBDA r : AssignTo(e.left, r.v, env, r.st))

EvalUpdate(e, env, st) ==
    LET old == Eval(e.target, env, st)
    IN  Then(Eval(Assign(e.target, IF e.op = "++" THEN "+=" ELSE "-=", Num(1)), env, st),
             LAMBDA new : IF e.prefix THEN new ELSE Done(new.st, old.v))

EvalDelete(e, env, st) ==
    CASE e.value.t = "Identifier" -> Done(st, FALSE_VALUE)
      [] e.value.t = "Index" ->
            Then(Eval(e.value.left, env, st), LAMBDA object :
            Then(Eval(e.value.index, env, object.st), LAMBDA key :
                 Done([key.st EXCEPT !.heap = DeleteProperty(@, object.v, key.v)], TRUE_VALUE)))
      [] OTHER -> Then(Eval(e.value, env, st), LAMBDA r : Done(r.st, TRUE_VALUE))

(* the value of the block a condition selects *)
EvalIf(e, env, st) ==
    ThenDo(Eval(e.cond, env, st), LAMBDA test :
        IF ~IsTrue(test.v) /\ Absent(e.alt) THEN Normal(test.st, UNDEFINED)
        ELSE ExecBlock(IF IsTrue(test.v) THEN e.cons ELSE e.alt.body, env, test.st))

ValueOf(r) == IF r.c = "throw" THEN Thrown(r.st, r.v) ELSE Done(r.st, r.v)

Variable(name, env, st) ==
    IF name \in DOMAIN env THEN st.vars[env[name]]
    ELSE IF name \in {"console", "Array", "Object"} THEN Builtin(name)
    ELSE UNDEFINED

EvalInfix(e, left, env) ==
    IF e.op \in {"&&", "||", "??"} /\ StopsAt(e.op, left.v) THEN left
    ELSE Then(Eval(e.right, env, left.st), LAMBDA right :
              IF e.op \in {"&&", "||", "??", ","} THEN right
              ELSE Done(right.st, Operate(e.op, left.v, right.v)))

EvalMember(e, object, env) ==
    IF e.t = "OptionalIndex" /\ IsNullish(object.v) THEN Done(object.st, UNDEFINED)
    ELSE Then(Eval(e.index, env, object.st), LAMBDA key :
              Done(key.st, ReadProperty(key.st.heap, object.v, key.v)))

(* the expressions in turn: a new array, a new object, the last value *)
EvalSeveral(e, env, st) ==
    Then(EvalAll(CASE e.t = "Array" -> e.items [] e.t = "Hash" -> PairExprs(e.pairs)
                   [] e.t = "Sequence" -> e.exprs,
                 env, st, <<>>),
         LAMBDA all :
            CASE e.t = "Array" -> New(all.st, ArrayCell(all.vs))
              [] e.t = "Hash" -> New(all.st, HashOfPairs(all.st.heap, all.vs))
              [] e.t = "Sequence" -> Done(all.st, all.vs[Len(all.vs)]))

Expression(e, env, st) ==
    CASE e.t = "Integer" -> Done(st, Number(e.n))
      [] e.t = "String" -> Done(st, Text(e.s))
      [] e.t = "Boolean" -> Done(st, Boolean(e.b))
      [] e.t = "Null" -> Done(st, NULL)
      [] e.t = "Identifier" -> Done(st, Variable(e.name, env, st))
      [] e.t = "Prefix" ->
            Then(Eval(e.right, env, st), LAMBDA r :
                 Done(r.st, IF e.op = "!" THEN Boolean(~IsTrue(r.v)) ELSE Negate(r.v)))
      [] e.t = "Void" -> Then(Eval(e.value, env, st), LAMBDA r : Done(r.st, UNDEFINED))
      [] e.t = "Typeof" ->
            Then(Eval(e.value, env, st), LAMBDA r :
                 Done(r.st, Text(TypeofName(r.st.heap, r.v))))
      [] e.t = "Delete" -> EvalDelete(e, env, st)
      [] e.t = "Infix" -> Then(Eval(e.left, env, st), LAMBDA left : EvalInfix(e, left, env))
      [] e.t = "If" -> ValueOf(EvalIf(e, env, st))
      [] e.t = "Function" -> New(st, FunctionCell(e.params, e.body, e.arrow, env))
      [] e.t \in {"Array", "Hash", "Sequence"} -> EvalSeveral(e, env, st)
      [] e.t \in {"Index", "OptionalIndex"} ->
            Then(Eval(e.left, env, st), LAMBDA object : EvalMember(e, object, env))
      [] e.t \in {"Call", "OptionalCall"} -> EvalCall(e, env, st)
      [] e.t = "Assign" -> EvalAssign(e, env, st)
      [] e.t = "Update" -> EvalUpdate(e, env, st)

-----------------------------------------------------------------------------
(* Statements.  label is the label of the statement, if it has one. *)

Leaves(r, c, label) == r.c = c /\ r.label \in {"", label}

(* one turn after another: loop has the condition, the update, the body, the
   names that are new in every turn, and the label *)
RECURSIVE Loop(_, _, _, _)

LoopUpdate(loop, next) ==
    ThenDo(IF Absent(loop.update) THEN Done(next.st, UNDEFINED)
           ELSE Eval(loop.update, next.env, next.st),
           LAMBDA r : Loop(loop, next.env, r.st, FALSE))

(* the body has ended with r *)
LoopAgain(loop, env, r) ==
    IF Leaves(r, "break", loop.label) THEN Normal(r.st, UNDEFINED)
    ELSE IF r.c # "normal" /\ ~Leaves(r, "continue", loop.label) THEN r
    ELSE LoopUpdate(loop, Declare(loop.fresh, env, r.st))

Loop(loop, env, st, first) ==
    ThenDo(IF first \/ Absent(loop.cond) THEN Done(st, TRUE_VALUE) ELSE Eval(loop.cond, env, st),
           LAMBDA test : IF ~IsTrue(test.v) THEN Normal(test.st, UNDEFINED)
                         ELSE LoopAgain(loop, env, ExecBlock(loop.body, env, test.st)))

ExecFor(s, env, st, label) ==
    LET names == IF s.init.t \in {"Let", "LetPattern", "MultiLet"} THEN BlockNames(<<s.init>>) ELSE {}
        scope == Fresh(names, env, st)
        loop == [cond |-> s.cond, update |-> s.update, body |-> s.body, fresh |-> names,
                 label |-> label]
        From(init) == IF init.c = "throw" THEN init ELSE Loop(loop, scope.env, init.st, FALSE)
    IN  From(IF Absent(s.init) THEN Normal(st, UNDEFINED)
             ELSE Exec(s.init, scope.env, scope.st, ""))

RECURSIVE ForEachItem(_, _, _, _, _)
ForEachItem(s, items, env, st, label) ==
    IF items = <<>> THEN Normal(st, UNDEFINED)
    ELSE LET scope == Fresh(BoundNames(s.target), env, st)
             Again(r) ==
                IF Leaves(r, "break", label) THEN Normal(r.st, UNDEFINED)
                ELSE IF r.c # "normal" /\ ~Leaves(r, "continue", label) THEN r
                ELSE ForEachItem(s, Tail(items), env, r.st, label)
         IN  ThenDo(BindTarget(s.target, Head(items), scope.env, scope.st),
                    LAMBDA bound : Again(ExecBlock(s.body, scope.env, bound.st)))

ExecIteration(s, env, st, label) ==
    ThenDo(Eval(s.iterable, env, st), LAMBDA r :
           ForEachItem(s, IF s.t = "ForOf" THEN RestOf(r.st.heap, r.v, 0)
                          ELSE PropertyNames(r.st.heap, r.v),
                       env, r.st, label))

RECURSIVE SelectCase(_, _, _, _, _)
(* the first case whose test equals the value, tests evaluated in turn; 0 if none *)
SelectCase(cases, i, v, env, st) ==
    IF i > Len(cases) THEN Done(st, 0)
    ELSE IF Absent(cases[i].test) THEN SelectCase(cases, i + 1, v, env, st)
    ELSE Then(Eval(cases[i].test, env, st), LAMBDA r :
              IF Compare("StrictEqual", v, r.v) THEN Done(r.st, i)
              ELSE SelectCase(cases, i + 1, v, env, r.st))

RECURSIVE BodiesFrom(_, _)
BodiesFrom(cases, i) ==
    IF i > Len(cases) THEN <<>> ELSE cases[i].body \o BodiesFrom(cases, i + 1)

(* the bodies from the selected case on, or from default on, or none *)
ExecSwitch(s, env, st, label) ==
    LET defaults == {i \in DOMAIN s.cases : Absent(s.cases[i].test)}
        From(i) == IF i # 0 THEN i
                   ELSE IF defaults = {} THEN Len(s.cases) + 1
                   ELSE CHOOSE d \in defaults : TRUE
        Left(r) == IF Leaves(r, "break", label) THEN Normal(r.st, UNDEFINED) ELSE r
        In(scope, v) ==
            ThenDo(SelectCase(s.cases, 1, v, scope.env, scope.st), LAMBDA found :
                   Left(ExecAll(BodiesFrom(s.cases, From(found.v)), scope.env, found.st, UNDEFINED)))
    IN  ThenDo(Eval(s.disc, env, st), LAMBDA disc :
               In(Fresh(BlockNames(BodiesFrom(s.cases, 1)), env, disc.st), disc.v))

(* the handler, with the exception bound to its parameter *)
ExecHandler(s, r, env) ==
    LET scope == Fresh(IF Absent(s.param) THEN {} ELSE BoundNames(s.param), env, r.st)
    IN  ThenDo(IF Absent(s.param) THEN Done(scope.st, UNDEFINED)
               ELSE BindTarget(s.param, r.v, scope.env, scope.st),
               LAMBDA bound : ExecBlock(s.handler.body, scope.env, bound.st))

(* a finally block that ends normally leaves the completion r as it is *)
ExecFinally(s, r, env) ==
    LET After(final) == IF final.c # "normal" THEN final ELSE [r EXCEPT !.st = final.st]
    IN  IF Absent(s.finalizer) THEN r ELSE After(ExecBlock(s.finalizer.body, env, r.st))

ExecTry(s, env, st) ==
    LET Handled(r) ==
            IF r.c = "throw" /\ ~Absent(s.handler) THEN ExecHandler(s, r, env) ELSE r
    IN  ExecFinally(s, Handled(ExecBlock(s.block.body, env, st)), env)

Loops(s, env, st, label) ==
    Loop([cond |-> s.cond, update |-> None, body |-> s.body, fresh |-> {}, label |-> label],
         env, st, s.t = "DoWhile")

(* a break to the label of the statement ends there *)
EndOfLabeled(r, label) ==
    IF r.c = "break" /\ r.label = label THEN Normal(r.st, UNDEFINED) ELSE r

Statement(s, env, st, label) ==
    CASE s.t = "Let" ->
            ThenDo(Eval(s.value, env, st), LAMBDA r :
                   Normal(SetVariable(r.st, env, s.name, r.v), UNDEFINED))
      [] s.t = "LetPattern" ->
            ThenDo(Then(Eval(s.value, env, st), LAMBDA r : BindTarget(s.pattern, r.v, env, r.st)),
                   LAMBDA r : Normal(r.st, UNDEFINED))
      [] s.t = "Return" ->
            ThenDo(Eval(s.value, env, st), LAMBDA r : Completion(r.st, "return", r.v, ""))
      [] s.t = "ReturnVoid" -> Completion(st, "return", UNDEFINED, "")
      [] s.t = "Throw" -> Throwing(Eval(s.value, env, st))
      [] s.t = "Expression" ->
            IF s.e.t = "If" THEN EvalIf(s.e, env, st)
            ELSE ThenDo(Eval(s.e, env, st), LAMBDA r : Normal(r.st, r.v))
      [] s.t = "Block" -> ExecBlock(s.body, env, st)
      [] s.t = "MultiLet" -> ExecAll(s.body, env, st, UNDEFINED)
      [] s.t = "FunctionDecl" -> Normal(st, UNDEFINED)
      [] s.t \in {"While", "DoWhile"} -> Loops(s, env, st, label)
      [] s.t = "For" -> ExecFor(s, env, st, label)
      [] s.t \in {"ForOf", "ForIn"} -> ExecIteration(s, env, st, label)
      [] s.t = "Switch" -> ExecSwitch(s, env, st, label)
      [] s.t = "Try" -> ExecTry(s, env, st)
      [] s.t = "Break" -> Completion(st, "break", UNDEFINED, s.label)
      [] s.t = "Continue" -> Completion(st, "continue", UNDEFINED, s.label)
      [] s.t = "Labeled" -> EndOfLabeled(Exec(s.body, env, st, s.label), s.label)

Evaluate(x, env, st, label) ==
    IF x.t \in StatementKinds THEN Statement(x, env, st, label) ELSE Expression(x, env, st)

-----------------------------------------------------------------------------
(* what a script logs, its value (of an expression at its end), and whether it
   ends with an uncaught exception *)
MeaningOf(r, last) ==
    [log |-> r.st.log, value |-> Logged(r.st.heap, r.v), failed |-> r.c = "throw",
     hasValue |-> IF last.t = "Expression" THEN last.e.t # "If" ELSE FALSE]

Meaning(stmts) ==
    LET empty == [vars |-> <<>>, heap |-> <<>>, log |-> <<>>]
        scope == Fresh(FunctionNames(stmts), << >>, empty)
    IN  MeaningOf(ExecBlock(stmts, scope.env, scope.st), stmts[Len(stmts)])
=============================================================================
