------------------------------ MODULE ScriptText ------------------------------
(***************************************************************************)
(* How a script is written, whatever reads it: the grammar of ECMAScript   *)
(* for the trees of Syntax, as the tokens of a tree with no more           *)
(* parentheses than the grammar asks for.                                  *)
(*                                                                         *)
(* A text is a sequence of words (tokens without a line) and of marks: End *)
(* where a statement ends that takes a semicolon, Line behind a statement  *)
(* that takes none, Stop where a word on the same line has to be kept      *)
(* apart, Open and Close around a body that needs no braces.  A layout     *)
(* makes tokens of it.                                                     *)
(***************************************************************************)
EXTENDS Syntax

Word(kind, lit) == [k |-> kind, lit |-> lit]
W(word) == <<Word(word, word)>>
Name(name) == <<Word("Ident", name)>>
End == <<Word("End", "")>>
Line == <<Word("Line", "")>>
Stop == <<Word("Stop", "")>>
Open == <<Word("Open", "")>>
Close == <<Word("Close", "")>>

RECURSIVE Concat(_)
Concat(texts) == IF texts = <<>> THEN <<>> ELSE Head(texts) \o Concat(Tail(texts))

RECURSIVE Separated(_, _)
Separated(texts, separator) ==
    CASE texts = <<>> -> <<>>
      [] Len(texts) = 1 -> texts[1]
      [] OTHER -> texts[1] \o separator \o Separated(Tail(texts), separator)

Listed(texts) == Separated(texts, W(","))
Parens(text) == W("(") \o text \o W(")")
Brackets(text) == W("[") \o text \o W("]")
Braces(text) == W("{") \o text \o W("}")

-----------------------------------------------------------------------------
(* The levels of the expression grammar, from the comma to the primary     *)

Comma == 0
Assignment == 1
Conditional == 2
ShortCircuit == 3
BitOr == 5
Exponentiation == 13
Unary == 14
Postfix == 15
CallLevel == 16
Member == 17
Primary == 18

InfixLevel(op) ==
    CASE op = "," -> Comma
      [] op \in {"??", "||"} -> ShortCircuit
      [] op = "&&" -> 4
      [] op = "|" -> BitOr
      [] op = "^" -> 6
      [] op = "&" -> 7
      [] op \in {"==", "!=", "===", "!=="} -> 8
      [] op \in {"<", ">", "<=", ">=", "in", "instanceof"} -> 9
      [] op \in {"<<", ">>", ">>>"} -> 10
      [] op \in {"+", "-"} -> 11
      [] op \in {"*", "/", "%"} -> 12
      [] op = "**" -> Exponentiation

RECURSIVE Level(_)
Level(e) ==
    CASE e.t = "Sequence" -> Comma
      [] e.t \in {"Assign", "Yield"} -> Assignment
      [] e.t = "Function" -> IF e.arrow THEN Assignment ELSE Primary
      [] e.t = "Coroutine" -> Level(e.fn)
      [] e.t = "If" -> Conditional
      [] e.t = "Infix" -> InfixLevel(e.op)
      [] e.t \in {"Prefix", "Typeof", "Void", "Delete", "Await"} -> Unary
      [] e.t = "Update" -> IF e.prefix THEN Unary ELSE Postfix
      [] e.t \in {"Call", "OptionalCall", "OptionalIndex"} -> CallLevel
      [] e.t = "Index" -> IF Level(e.left) = CallLevel THEN CallLevel ELSE Member
      [] e.t = "New" -> Member
      [] OTHER -> Primary

(* the levels the two sides of an operator need; ?? mixes with neither of  *)
(* the other short-circuit operators                                       *)
SideLevels(e) ==
    CASE e.op = "**" -> <<Postfix, Exponentiation>>
      [] e.op = "??" -> <<IF e.left.t = "Infix" /\ e.left.op = "??" THEN ShortCircuit ELSE BitOr, BitOr>>
      [] e.op = "||" -> <<IF e.left.t = "Infix" /\ e.left.op = "??" THEN 4 ELSE ShortCircuit, 4>>
      [] OTHER -> <<InfixLevel(e.op), InfixLevel(e.op) + 1>>

-----------------------------------------------------------------------------
(* Texts *)

RECURSIVE Text_(_, _)
Written(e, level) == IF Level(e) < level THEN Parens(Text_(e, "expression")) ELSE Text_(e, "expression")
Texts_(things, what) == [i \in DOMAIN things |-> Text_(things[i], what)]

Body_(stmts) == Braces(Concat(Texts_(stmts, "statement")))

ParameterText(param) == IF param.t = "Rest" THEN W("...") \o Name(param.name) ELSE Name(param.name)
ParametersText(params) == Parens(Listed([i \in DOMAIN params |-> ParameterText(params[i])]))

FunctionText(f) == ParametersText(f.params) \o Body_(f.body)

(* an arrow function of one expression needs no braces, unless it begins with one *)
ArrowBody(body) ==
    IF Len(body) = 1 /\ body[1].t = "Expression" /\ body[1].e.t # "If"
    THEN LET text == Written(body[1].e, Assignment)
         IN  IF text[1].k = "{" THEN Parens(text) ELSE text
    ELSE Body_(body)

ArrowText(f) ==
    (IF Len(f.params) = 1 /\ f.params[1].t = "Identifier" THEN ParameterText(f.params[1])
     ELSE ParametersText(f.params))
    \o W("=>") \o ArrowBody(f.body)

(* async and * around what a function is otherwise *)
Marked(kind) ==
    (IF kind \in {"async", "async generator"} THEN W("async") ELSE <<>>)
Star(kind) == IF kind \in {"generator", "async generator"} THEN W("*") ELSE <<>>

FunctionExpression(f, kind) ==
    Marked(kind) \o (IF f.arrow THEN ArrowText(f) ELSE W("function") \o Star(kind) \o FunctionText(f))

PropertyName(name) ==
    IF name \in {"default", "get", "new", "of"} THEN W(name)
    ELSE IF name = "#x" THEN W("#") \o Name("x") ELSE Name(name)

IndexText(index, dot) ==
    IF index.t = "String" THEN dot \o PropertyName(index.s)
    ELSE (IF dot = W(".") THEN <<>> ELSE dot) \o Brackets(Written(index, Comma))

IntText(n) == <<[k |-> "Int", lit |-> n, fits |-> TRUE]>>

KeyText(key) ==
    CASE key.t = "String" -> Name(key.s)
      [] key.t = "Integer" -> IntText(key.n)
      [] OTHER -> Brackets(Written(key, Assignment))

MethodText(fn) ==
    IF fn.t = "Coroutine" THEN FunctionText(fn.fn) ELSE FunctionText(fn)

IsSpreadItem(entry) == "t" \in DOMAIN entry /\ entry.t = "Spread"
ItemText(item) ==
    IF IsSpreadItem(item) THEN W("...") \o Written(item.value, Assignment)
    ELSE Written(item, Assignment)
ArgumentsText(items) == Listed([i \in DOMAIN items |-> ItemText(items[i])])

EntryText(entry) ==
    IF "t" \notin DOMAIN entry
    THEN IF entry.key.t = "String" /\ entry.value = Id(entry.key.s) THEN Name(entry.key.s)
         ELSE KeyText(entry.key) \o W(":") \o Written(entry.value, Assignment)
    ELSE CASE entry.t = "Spread" -> ItemText(entry)
           [] entry.t = "Getter" -> W("get") \o KeyText(entry.key) \o Parens(<<>>) \o Body_(entry.body)
           [] entry.t = "Setter" ->
                 W("set") \o KeyText(entry.key) \o Parens(Name(entry.param)) \o Body_(entry.body)
           [] entry.t = "MethodEntry" ->
                 (IF entry.fn.t = "Coroutine" THEN W("*") ELSE <<>>)
                   \o KeyText(entry.key) \o MethodText(entry.fn)

MemberText(m) ==
    IF m.t = "StaticBlock" THEN W("static") \o Body_(m.body)
    ELSE (IF m.static THEN W("static") ELSE <<>>)
           \o (IF m.t = "Method" THEN (IF m.accessor = "" THEN <<>> ELSE W(m.accessor))
                                        \o PropertyName(m.name) \o FunctionText(m.fn) \o Line
               ELSE PropertyName(m.name)
                      \o (IF Absent(m.value) THEN <<>> ELSE W("=") \o Written(m.value, Assignment)) \o End)

ClassText(c) ==
    W("class") \o (IF c.name = "" THEN <<>> ELSE Name(c.name))
      \o (IF Absent(c.extends) THEN <<>> ELSE W("extends") \o Written(c.extends, CallLevel))
      \o Braces(Concat([i \in DOMAIN c.members |-> MemberText(c.members[i])]))

TernaryText(e) ==
    Written(e.cond, ShortCircuit) \o W("?") \o Written(e.cons[1].e, Assignment)
      \o W(":") \o Written(e.alt.body[1].e, Assignment)

ExpressionText(e) ==
    CASE e.t = "Identifier" -> IF e.name = "undefined" THEN W("undefined") ELSE Name(e.name)
      [] e.t = "Integer" -> IntText(e.n)
      [] e.t = "Float" -> <<Word("Float", e.text)>>
      [] e.t = "String" -> <<Word("String", e.s)>>
      [] e.t = "RegExp" -> <<[k |-> "Regex", lit |-> e.pattern, flags |-> e.flags]>>
      [] e.t = "Boolean" -> W(IF e.b THEN "true" ELSE "false")
      [] e.t = "Null" -> W("null")
      [] e.t = "This" -> W("this")
      [] e.t = "Super" -> W("super")
      [] e.t = "NewTarget" -> W("new") \o W(".") \o Name("target")
      [] e.t = "ImportMeta" -> W("import") \o W(".") \o Name("meta")
      [] e.t = "Prefix" -> W(e.op) \o Written(e.right, Unary)
      [] e.t = "Typeof" -> W("typeof") \o Written(e.value, Unary)
      [] e.t = "Void" -> W("void") \o Written(e.value, Unary)
      [] e.t = "Delete" -> W("delete") \o Written(e.value, Unary)
      [] e.t = "Await" -> W("await") \o Written(e.value, Unary)
      [] e.t = "Yield" ->
            W("yield") \o (IF e.delegate THEN W("*") ELSE <<>>) \o Written(e.value, Assignment)
      [] e.t = "Infix" ->
            Written(e.left, SideLevels(e)[1]) \o W(e.op) \o Written(e.right, SideLevels(e)[2])
      [] e.t = "If" -> TernaryText(e)
      [] e.t = "Assign" -> Written(e.left, Postfix) \o W(e.op) \o Written(e.right, Assignment)
      [] e.t = "Update" -> IF e.prefix THEN W(e.op) \o Written(e.target, Unary)
                           ELSE Written(e.target, CallLevel) \o W(e.op)
      [] e.t = "Sequence" -> Listed([i \in DOMAIN e.exprs |-> Written(e.exprs[i], Assignment)])
      [] e.t = "Function" -> FunctionExpression(e, "")
      [] e.t = "Coroutine" -> FunctionExpression(e.fn, e.kind)
      [] e.t = "Class" -> ClassText(e)
      [] e.t = "Array" -> Brackets(ArgumentsText(e.items))
      [] e.t = "Hash" -> Braces(Listed([i \in DOMAIN e.pairs |-> EntryText(e.pairs[i])]))
      [] e.t = "Index" -> Written(e.left, CallLevel) \o IndexText(e.index, W("."))
      [] e.t = "OptionalIndex" -> Written(e.left, CallLevel) \o IndexText(e.index, W("?."))
      [] e.t = "Call" -> Written(e.fn, CallLevel) \o Parens(ArgumentsText(e.args))
      [] e.t = "OptionalCall" -> Written(e.fn, CallLevel) \o W("?.") \o Parens(ArgumentsText(e.args))
      [] e.t = "New" -> W("new") \o Written(e.callee, Member) \o Parens(ArgumentsText(e.args))

-----------------------------------------------------------------------------
(* Patterns *)

DefaultText(default) == IF Absent(default) THEN <<>> ELSE W("=") \o Written(default, Assignment)
TargetText(target) == IF target.t = "Identifier" THEN Name(target.name) ELSE Text_(target, "pattern")

PatternItem(item) ==
    CASE item.t = "Hole" -> <<>>
      [] item.t = "Rest" -> W("...") \o Name(item.name)
      [] item.t = "Item" -> TargetText(item.target) \o DefaultText(item.default)
      [] item.t = "Prop" ->
            (IF item.key.t = "String" /\ item.target = Id(item.key.s) THEN Name(item.key.s)
             ELSE KeyText(item.key) \o W(":") \o TargetText(item.target))
            \o DefaultText(item.default)

(* a hole at the end needs a comma behind it *)
PatternText(pattern) ==
    LET items == Listed([i \in DOMAIN pattern.items |-> PatternItem(pattern.items[i])])
    IN  IF pattern.t = "ObjectPattern" THEN Braces(items)
        ELSE Brackets(items \o IF pattern.items # <<>> /\ pattern.items[Len(pattern.items)] = Hole
                               THEN W(",") ELSE <<>>)

-----------------------------------------------------------------------------
(* Statements *)

(* a declaration without a value is one of undefined *)
Declarator(let) ==
    Name(let.name) \o (IF let.value = Id("undefined") THEN <<>>
                       ELSE W("=") \o Written(let.value, Assignment))

Declaration(s) ==
    CASE s.t = "Let" -> W(s.kind) \o Declarator(s)
      [] s.t = "MultiLet" ->
            W(s.body[1].kind) \o Listed([i \in DOMAIN s.body |-> Declarator(s.body[i])])
      [] s.t = "LetPattern" ->
            W(s.kind) \o PatternText(s.pattern) \o W("=") \o Written(s.value, Assignment)

(* an expression statement must not look like a declaration or a block *)
StatementText(e) ==
    LET text == Written(e, Comma)
    IN  IF text[1].k \in {"{", "function", "class", "async", "let"} THEN Parens(text) ELSE text

(* the body of a loop or a branch *)
Branch(stmts) ==
    IF Len(stmts) = 1 /\ \/ stmts[1].t \in {"Return", "ReturnVoid", "Throw", "Break", "Continue"}
                         \/ stmts[1].t = "Expression" /\ stmts[1].e.t # "If"
    THEN Open \o Text_(stmts[1], "statement") \o Close
    ELSE Body_(stmts)

RECURSIVE IfText(_)
IfText(e) ==
    W("if") \o Parens(Written(e.cond, Comma)) \o Branch(e.cons)
      \o (CASE Absent(e.alt) -> <<>>
            [] ~Absent(e.alt) /\ Len(e.alt.body) = 1 /\ e.alt.body[1].t = "Expression"
                 /\ e.alt.body[1].e.t = "If" -> W("else") \o IfText(e.alt.body[1].e)
            [] OTHER -> W("else") \o Branch(e.alt.body))

ForText(s) ==
    W("for")
      \o Parens((CASE Absent(s.init) -> <<>>
                   [] s.init.t = "Expression" -> Written(s.init.e, Comma)
                   [] OTHER -> Declaration(s.init))
                \o W(";") \o (IF Absent(s.cond) THEN <<>> ELSE Written(s.cond, Comma))
                \o W(";") \o (IF Absent(s.update) THEN <<>> ELSE Written(s.update, Comma)))
      \o Branch(s.body) \o Line

IterationText(s, word) ==
    W("for") \o Parens(W("let") \o TargetText(s.target) \o W(word) \o Written(s.iterable, Assignment))
      \o Branch(s.body) \o Line

CaseText(c) ==
    (IF Absent(c.test) THEN W("default") ELSE W("case") \o Written(c.test, Comma)) \o W(":")
      \o Concat(Texts_(c.body, "statement"))

TryText(s) ==
    W("try") \o Body_(s.block.body)
      \o (IF Absent(s.handler) THEN <<>>
          ELSE W("catch") \o (IF Absent(s.param) THEN <<>> ELSE Parens(Name(s.param.name)))
                 \o Body_(s.handler.body))
      \o (IF Absent(s.finalizer) THEN <<>> ELSE W("finally") \o Body_(s.finalizer.body)) \o Line

DeclarationOf(f, kind) ==
    Marked(kind) \o W("function") \o Star(kind) \o Name(f.name) \o FunctionText(f) \o Line

Jump(word, label) == W(word) \o (IF label = "" THEN <<>> ELSE Name(label)) \o End

OfStatement(s) ==
    CASE s.t = "Let" /\ s.value = Id("undefined") -> Declaration(s) \o W(";") \o Line
      [] s.t = "Let" /\ s.value # Id("undefined") -> Declaration(s) \o End
      [] s.t \in {"MultiLet", "LetPattern"} -> Declaration(s) \o End
      [] s.t = "Return" -> W("return") \o Written(s.value, Comma) \o End
      [] s.t = "ReturnVoid" -> W("return") \o Stop
      [] s.t = "Expression" /\ s.e.t = "If" -> IfText(s.e) \o Line
      [] s.t = "Expression" /\ s.e.t # "If" -> StatementText(s.e) \o End
      [] s.t = "Block" -> Body_(s.body) \o Line
      [] s.t = "While" -> W("while") \o Parens(Written(s.cond, Comma)) \o Branch(s.body) \o Line
      [] s.t = "DoWhile" -> W("do") \o Branch(s.body) \o W("while") \o Parens(Written(s.cond, Comma)) \o End
      [] s.t = "For" -> ForText(s)
      [] s.t = "ForOf" -> IterationText(s, "of")
      [] s.t = "ForIn" -> IterationText(s, "in")
      [] s.t = "FunctionDecl" -> DeclarationOf(s, "")
      [] s.t = "Coroutine" -> DeclarationOf(s.fn, s.kind)
      [] s.t = "ClassDecl" -> ClassText(s) \o Line
      [] s.t = "Throw" -> W("throw") \o Written(s.value, Comma) \o End
      [] s.t = "Try" -> TryText(s)
      [] s.t = "Labeled" -> Name(s.label) \o W(":") \o Text_(s.body, "statement")
      [] s.t = "Break" -> Jump("break", s.label)
      [] s.t = "Continue" -> Jump("continue", s.label)
      [] s.t = "Switch" ->
            W("switch") \o Parens(Written(s.disc, Comma))
              \o Braces(Concat([i \in DOMAIN s.cases |-> CaseText(s.cases[i])])) \o Line
      [] s.t = "Debugger" -> W("debugger") \o End

Text_(x, what) ==
    CASE what = "expression" -> ExpressionText(x)
      [] what = "pattern" -> PatternText(x)
      [] what = "statement" -> OfStatement(x)

ScriptText(stmts) == Concat(Texts_(stmts, "statement"))

-----------------------------------------------------------------------------
(* Layouts *)

AtLine(word, line, nl) == word @@ [line |-> line, nl |-> nl]
Eof == Word("Eof", "")

Semicolon == Word(";", ";")

Resolved(word) ==
    CASE word.k = "Open" -> Word("{", "{") [] word.k = "Close" -> Word("}", "}") [] OTHER -> word

(* a semicolon behind every statement that takes one, all on one line *)
RECURSIVE OnOneLine(_)
OnOneLine(text) ==
    IF text = <<>> THEN <<AtLine(Eof, 1, FALSE)>>
    ELSE (CASE Head(text).k \in {"End", "Stop"} -> <<AtLine(Semicolon, 1, FALSE)>>
            [] Head(text).k = "Line" -> <<>>
            [] OTHER -> <<AtLine(Resolved(Head(text)), 1, FALSE)>>) \o OnOneLine(Tail(text))

(* a line for every statement, and a semicolon only in front of a line that *)
(* would go on with the statement otherwise                                *)
Continuing == {"(", "[", "Template", "+", "-", "++", "--", "Regex"}
Continued(rest) == rest # <<>> /\ Head(rest).k \in Continuing

RECURSIVE OnLines(_, _, _)
OnLines(text, line, nl) ==
    IF text = <<>> THEN <<AtLine(Eof, line, nl)>>
    ELSE IF Head(text).k \in {"End", "Stop", "Line"}
         THEN (IF Head(text).k = "End" /\ Continued(Tail(text)) THEN <<AtLine(Semicolon, line, nl)>> ELSE <<>>)
              \o OnLines(Tail(text), IF nl THEN line ELSE line + 1, TRUE)
         ELSE <<AtLine(Resolved(Head(text)), line, nl)>> \o OnLines(Tail(text), line, FALSE)

(* no semicolons at the end of a block, and no braces that can be spared *)
RECURSIVE Compact(_)
Compact(text) ==
    IF text = <<>> THEN <<AtLine(Eof, 1, FALSE)>>
    ELSE (CASE \/ Head(text).k \in {"Line", "Open", "Close"}
               \/ Head(text).k = "End" /\ (Len(text) = 1 \/ text[2].k = "}") -> <<>>
            [] \/ Head(text).k = "Stop"
               \/ Head(text).k = "End" /\ Len(text) > 1 /\ text[2].k # "}" ->
                  <<AtLine(Semicolon, 1, FALSE)>>
            [] OTHER -> <<AtLine(Head(text), 1, FALSE)>>) \o Compact(Tail(text))

LaidOut(text, layout) ==
    CASE layout = "semicolons" -> OnOneLine(text)
      [] layout = "lines" -> OnLines(text, 1, FALSE)
      [] layout = "compact" -> Compact(text)
=============================================================================
