------------------------------- MODULE Syntax -------------------------------
(***************************************************************************)
(* Scripts as trees: the statements and expressions of ast.rs that the     *)
(* parser produces and both compilers consume.  Names are strings, numbers *)
(* are integers; a list of statements is a sequence.  An absent part is    *)
(* None.                                                                   *)
(***************************************************************************)
EXTENDS Integers, Sequences, FiniteSets, TLC

(***************************************************************************)
(* Values: what a register, a stack slot or a global holds.  Every value   *)
(* has a kind, a number (of an object: its address) and a string, so that  *)
(* any two values can be compared.                                         *)
(***************************************************************************)
Value(k, v, s) == [k |-> k, v |-> v, s |-> s]
Number(n) == Value("num", n, "")
Text(s) == Value("str", 0, s)
TRUE_VALUE == Value("bool", 1, "")
FALSE_VALUE == Value("bool", 0, "")
Boolean(b) == IF b THEN TRUE_VALUE ELSE FALSE_VALUE
NULL == Value("null", 0, "")
UNDEFINED == Value("undef", 0, "")
FunctionValue(f) == Value("fn", f, "")
Builtin(name) == Value("builtin", 0, name)
Reference(address) == Value("obj", address, "")

IsNumber(x) == x.k = "num"
IsObject(x) == x.k = "obj"
IsNullish(x) == x.k \in {"null", "undef"}
Truthy(x) ==
    /\ x \notin {FALSE_VALUE, NULL, UNDEFINED, Number(0)}
    /\ x # Text("")

None == [t |-> "None"]
Absent(part) == part.t = "None"

-----------------------------------------------------------------------------
(* Expressions *)

Id(name) == [t |-> "Identifier", name |-> name]
Num(n) == [t |-> "Integer", n |-> n]
Bool(b) == [t |-> "Boolean", b |-> b]
Str(s) == [t |-> "String", s |-> s]
Null == [t |-> "Null"]
Prefix(op, right) == [t |-> "Prefix", op |-> op, right |-> right]
Void(value) == [t |-> "Void", value |-> value]
Typeof(value) == [t |-> "Typeof", value |-> value]
Delete(value) == [t |-> "Delete", value |-> value]
Infix(left, op, right) == [t |-> "Infix", left |-> left, op |-> op, right |-> right]
IfExpr(cond, cons, alt) == [t |-> "If", cond |-> cond, cons |-> cons, alt |-> alt]
Function(params, body, arrow) ==
    [t |-> "Function", params |-> params, body |-> body, arrow |-> arrow]
Array(items) == [t |-> "Array", items |-> items]
Hash(pairs) == [t |-> "Hash", pairs |-> pairs]
KeyValue(key, value) == [key |-> key, value |-> value]
Spread(value) == [t |-> "Spread", value |-> value]
Index(left, index) == [t |-> "Index", left |-> left, index |-> index]
OptionalIndex(left, index) == [t |-> "OptionalIndex", left |-> left, index |-> index]
Call(fn, args) == [t |-> "Call", fn |-> fn, args |-> args]
OptionalCall(fn, args) == [t |-> "OptionalCall", fn |-> fn, args |-> args]
Assign(left, op, right) == [t |-> "Assign", left |-> left, op |-> op, right |-> right]
Update(target, op, prefix) ==
    [t |-> "Update", target |-> target, op |-> op, prefix |-> prefix]
Sequence(exprs) == [t |-> "Sequence", exprs |-> exprs]
This == [t |-> "This"]
Super == [t |-> "Super"]
NewTarget == [t |-> "NewTarget"]
ImportMeta == [t |-> "ImportMeta"]
Float(text) == [t |-> "Float", text |-> text]
RegExp(pattern, flags) == [t |-> "RegExp", pattern |-> pattern, flags |-> flags]
Await(value) == [t |-> "Await", value |-> value]
Yield(value, delegate) == [t |-> "Yield", value |-> value, delegate |-> delegate]
NewOf(callee, args) == [t |-> "New", callee |-> callee, args |-> args]
Class(name, extends, members) ==
    [t |-> "Class", name |-> name, extends |-> extends, members |-> members]
(* a function, declared or not, that is async, a generator or both *)
Coroutine(kind, fn) == [t |-> "Coroutine", kind |-> kind, fn |-> fn]
(* the entries of an object literal besides KeyValue and Spread *)
MethodEntry(key, fn) == [t |-> "MethodEntry", key |-> key, fn |-> fn]
Getter(key, body) == [t |-> "Getter", key |-> key, body |-> body]
Setter(key, param, body) == [t |-> "Setter", key |-> key, param |-> param, body |-> body]

-----------------------------------------------------------------------------
(* Statements *)

Let(kind, name, value) == [t |-> "Let", kind |-> kind, name |-> name, value |-> value]
LetPattern(kind, pattern, value) ==
    [t |-> "LetPattern", kind |-> kind, pattern |-> pattern, value |-> value]
Return(value) == [t |-> "Return", value |-> value]
ReturnVoid == [t |-> "ReturnVoid"]
Expr(e) == [t |-> "Expression", e |-> e]
Block(body) == [t |-> "Block", body |-> body]
MultiLet(body) == [t |-> "MultiLet", body |-> body]
While(cond, body) == [t |-> "While", cond |-> cond, body |-> body]
DoWhile(body, cond) == [t |-> "DoWhile", body |-> body, cond |-> cond]
For(init, cond, update, body) ==
    [t |-> "For", init |-> init, cond |-> cond, update |-> update, body |-> body]
ForOf(target, iterable, body) ==
    [t |-> "ForOf", target |-> target, iterable |-> iterable, body |-> body]
ForIn(target, iterable, body) ==
    [t |-> "ForIn", target |-> target, iterable |-> iterable, body |-> body]
FunctionDecl(name, params, body) ==
    [t |-> "FunctionDecl", name |-> name, params |-> params, body |-> body]
Throw(value) == [t |-> "Throw", value |-> value]
Try(block, param, handler, finalizer) ==
    [t |-> "Try", block |-> block, param |-> param,
     handler |-> handler, finalizer |-> finalizer]
Labeled(label, body) == [t |-> "Labeled", label |-> label, body |-> body]
Break(label) == [t |-> "Break", label |-> label]
Continue(label) == [t |-> "Continue", label |-> label]
Switch(disc, cases) == [t |-> "Switch", disc |-> disc, cases |-> cases]
Case(test, body) == [t |-> "Case", test |-> test, body |-> body]

ClassDecl(name, extends, members) ==
    [t |-> "ClassDecl", name |-> name, extends |-> extends, members |-> members]
Debugger == [t |-> "Debugger"]

(* the members of a class; accessor is "get", "set" or "" *)
Method(name, fn, static, accessor) ==
    [t |-> "Method", name |-> name, fn |-> fn, static |-> static, accessor |-> accessor]
Field(name, value, static) ==
    [t |-> "Field", name |-> name, value |-> value, static |-> static]
StaticBlock(body) == [t |-> "StaticBlock", body |-> body]

StatementKinds ==
    {"Let", "LetPattern", "Return", "ReturnVoid", "Expression", "Block", "MultiLet",
     "While", "DoWhile", "For", "ForOf", "ForIn", "FunctionDecl", "Throw", "Try",
     "Labeled", "Break", "Continue", "Switch", "ClassDecl", "Debugger"}

(* a binding pattern: a target is a name (Id) or a pattern *)
Item(target, default) == [t |-> "Item", target |-> target, default |-> default]
Rest(name) == [t |-> "Rest", name |-> name]
Hole == [t |-> "Hole"]
Prop(key, target, default) ==
    [t |-> "Prop", key |-> key, target |-> target, default |-> default]
ArrayPattern(items) == [t |-> "ArrayPattern", items |-> items]
ObjectPattern(items) == [t |-> "ObjectPattern", items |-> items]
=============================================================================
