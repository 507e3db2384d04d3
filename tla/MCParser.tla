------------------------------- MODULE MCParser -------------------------------
(***************************************************************************)
(* The scripts of the parser's run: every form of an expression in every   *)
(* place of every other, every statement in front of and inside of every   *)
(* other, scripts of their own for the forms that are not written as they  *)
(* are read, and all short sequences over small vocabularies.              *)
(***************************************************************************)
EXTENDS ParserProperties

NoSources == {}

a == Id("a")
b == Id("b")
c == Id("c")
f == Id("f")
z == Expr(Id("z"))
Literal(entries) == Hash(entries)

AllLayouts == {"semicolons", "lines", "compact"}
Written(tree, layouts) == [text |-> Grammar!ScriptText(tree), layouts |-> layouts, tree |-> tree]

-----------------------------------------------------------------------------
(* Expressions *)

Around == \* forms with one place for an expression besides the operators'
    {"-", "!", "+", "~", "typeof", "void", "delete", "await", "condition", "consequence",
     "alternative", "assigned", "added", "assignee", "arrow", "asyncArrow", "function", "callee",
     "argument", "spreadArgument", "optionalCallee", "optionalArgument", "object", "index",
     "optionalObject", "optionalIndex", "constructor", "constructed", "item", "spreadItem",
     "value", "key", "spreadEntry", "yield", "delegate", "left", "right", "increment",
     "decrement", "superclass", "field"}

Form(form, e) ==
    CASE form \in {"-", "!", "+", "~"} -> Prefix(form, e)
      [] form = "typeof" -> Typeof(e)
      [] form = "void" -> Void(e)
      [] form = "delete" -> Delete(e)
      [] form = "await" -> Await(e)
      [] form = "condition" -> IfExpr(e, <<Expr(a)>>, Block(<<Expr(c)>>))
      [] form = "consequence" -> IfExpr(a, <<Expr(e)>>, Block(<<Expr(c)>>))
      [] form = "alternative" -> IfExpr(a, <<Expr(c)>>, Block(<<Expr(e)>>))
      [] form = "assigned" -> Assign(a, "=", e)
      [] form = "added" -> Assign(Index(a, Str("p")), "+=", e)
      [] form = "assignee" -> Assign(Index(e, Str("p")), "??=", a)
      [] form = "arrow" -> Function(<<a>>, <<Expr(e)>>, TRUE)
      [] form = "asyncArrow" -> Coroutine("async", Function(<<a, Rest("c")>>, <<Expr(e)>>, TRUE))
      [] form = "function" -> Function(<<a, b>>, <<Return(e)>>, FALSE)
      [] form = "callee" -> Call(e, <<a>>)
      [] form = "argument" -> Call(f, <<a, e, c>>)
      [] form = "spreadArgument" -> Call(f, <<Spread(e), a>>)
      [] form = "optionalCallee" -> OptionalCall(e, <<a>>)
      [] form = "optionalArgument" -> OptionalCall(f, <<e>>)
      [] form = "object" -> Index(e, Str("p"))
      [] form = "index" -> Index(a, Prefix("-", e))
      [] form = "optionalObject" -> OptionalIndex(e, Str("p"))
      [] form = "optionalIndex" -> OptionalIndex(a, e)
      [] form = "constructor" -> NewOf(e, <<a>>)
      [] form = "constructed" -> NewOf(f, <<e>>)
      [] form = "item" -> Array(<<a, e>>)
      [] form = "spreadItem" -> Array(<<Spread(e), a>>)
      [] form = "value" -> Literal(<<KeyValue(Str("p"), e), KeyValue(Str("a"), a)>>)
      [] form = "key" -> Literal(<<KeyValue(Typeof(e), a)>>)
      [] form = "spreadEntry" -> Literal(<<Spread(e), KeyValue(Num(1), a)>>)
      [] form = "yield" -> Yield(e, FALSE)
      [] form = "delegate" -> Yield(e, TRUE)
      [] form = "left" -> Infix(e, ",", a)
      [] form = "right" -> Infix(a, ",", e)
      [] form = "increment" -> Update(Index(e, Str("p")), "++", TRUE)
      [] form = "decrement" -> Update(Index(e, Str("p")), "--", FALSE)
      [] form = "superclass" -> Class("C", e, <<>>)
      [] form = "field" -> Class("", None, <<Field("a", e, FALSE), Field("b", None, TRUE)>>)

Forms == {<<form, "">> : form \in Around} \cup (InfixOperators \X {"l", "r"})
Apply(form, e) ==
    CASE form[2] = "" -> Form(form[1], e)
      [] form[2] = "l" -> Infix(e, form[1], a)
      [] form[2] = "r" -> Infix(a, form[1], e)

(* What the parser is known to get wrong (README, "Known divergences"): an *)
(* assignment in a branch of a ternary or in a yield, and a list of        *)
(* expressions that is not in parentheses of its own.                      *)
Misread(outer, inner) ==
    \/ outer[1] \in {"consequence", "alternative", "yield", "delegate"}
       /\ inner[1] \in {"assigned", "added", "assignee"}
    \/ outer[1] \in {"function", "optionalIndex"} /\ inner[1] \in {"left", "right"}

(* a list of expressions is no statement for this parser, and a ternary as *)
(* a statement has the tree of an if statement                             *)
AsStatements(outer, e) ==
    IF outer[1] \in {"left", "right"} \/ e.t = "If" THEN <<Let("const", "x", e), z>>
    ELSE <<Let("const", "x", e), Expr(e), z>>

Expressions ==
    [pair \in {<<o, i>> \in Forms \X Forms : ~Misread(o, i)} |->
        Written(AsStatements(pair[1], Apply(pair[1], Apply(pair[2], b))),
                {IF pair[2][2] = "l" THEN "semicolons" ELSE "lines"})]

Operands ==
    <<Num(7), Float("0.5"), Str("s"), RegExp("x", "g"), Bool(TRUE), Bool(FALSE), Null, Undefined, This,
      Super, NewTarget, ImportMeta, Array(<<>>), Literal(<<>>), Call(Super, <<>>),
      Index(Super, Str("new")), Index(b, Str("default")), Index(b, Str("#x")), Function(<<>>, <<>>, TRUE),
      Function(<<>>, <<>>, FALSE), Class("", None, <<>>), Coroutine("generator", Function(<<>>, <<>>, FALSE)),
      Coroutine("async generator", Function(<<Rest("a")>>, <<>>, FALSE)),
      Coroutine("async", Function(<<>>, <<Return(a)>>, FALSE)), Function(<<Rest("a")>>, <<Expr(a)>>, TRUE)>>

Atoms ==
    [pair \in Forms \X (DOMAIN Operands) |->
        Written(AsStatements(pair[1], Apply(pair[1], Operands[pair[2]])), {"lines"})]

-----------------------------------------------------------------------------
(* Statements *)

Test == Infix(a, "<", b)
Assigned == Expr(Assign(a, "=", b))
Called == Expr(Call(f, <<a>>))
Statements ==
    [let |-> Let("let", "x", a), empty |-> Let("let", "x", Undefined),
     several |-> MultiLet(<<Let("var", "x", a), Let("var", "y", Undefined), Let("var", "w", b)>>),
     array |-> LetPattern("const", ArrayPattern(<<Item(a, None), Hole, Item(b, c), Rest("r")>>), f),
     object |-> LetPattern("let", ObjectPattern(<<Prop(Str("a"), a, None), Prop(Str("b"), b, c),
                    Prop(Str("c"), ArrayPattern(<<Item(f, None)>>), None), Rest("r")>>), f),
     assign |-> Assigned, call |-> Called, name |-> z,
     iife |-> Expr(Call(Function(<<>>, <<Called>>, FALSE), <<>>)),
     literal |-> Expr(Assign(Literal(<<KeyValue(Str("a"), a)>>), "=", b)),
     postfix |-> Expr(Update(a, "++", FALSE)), prefix |-> Expr(Update(a, "++", TRUE)),
     return |-> Return(a), returnVoid |-> ReturnVoid, throw |-> Throw(Array(<<a>>)),
     break |-> Break(""), outer |-> Break("o"), continue |-> Continue(""), next |-> Continue("o"),
     debugger |-> Debugger,
     function |-> FunctionDecl("f", <<a, Rest("b")>>, <<Return(a)>>),
     generator |-> Coroutine("generator", FunctionDecl("f", <<>>, <<Expr(Yield(a, TRUE))>>)),
     async |-> Coroutine("async", FunctionDecl("f", <<a>>, <<Expr(Await(a))>>)),
     asyncGenerator |-> Coroutine("async generator", FunctionDecl("f", <<a>>, <<>>)),
     class |-> ClassDecl("C", f, <<Method("constructor", Function(<<a>>, <<Expr(Call(Super, <<a>>))>>, FALSE), FALSE, ""),
                                   Method("a", Function(<<>>, <<Return(This)>>, FALSE), FALSE, "get"),
                                   Method("a", Function(<<b>>, <<>>, FALSE), TRUE, "set"),
                                   Method("get", Function(<<>>, <<>>, FALSE), FALSE, ""),
                                   Field("#x", a, FALSE), Field("s", None, TRUE), StaticBlock(<<Assigned>>)>>),
     block |-> Block(<<Let("let", "x", a), Assigned>>), nested |-> Block(<<Block(<<>>)>>),
     if |-> Expr(IfExpr(Test, <<Called>>, None)),
     else |-> Expr(IfExpr(Test, <<Called>>, Block(<<Assigned>>))),
     elseIf |-> Expr(IfExpr(Test, <<Called, Called>>, Block(<<Expr(IfExpr(a, <<ReturnVoid>>, Block(<<Assigned>>)))>>))),
     while |-> While(Test, <<Called>>), do |-> DoWhile(<<Assigned>>, Test),
     for |-> For(Let("let", "x", a), Test, Update(a, "++", FALSE), <<Called>>),
     forever |-> For(None, None, None, <<Break("")>>),
     forAll |-> For(MultiLet(<<Let("var", "x", a), Let("var", "y", Undefined)>>), Test,
                    Sequence(<<Update(a, "++", FALSE), Assign(b, "-=", c)>>), <<>>),
     forEach |-> For(Expr(Assign(a, "=", b)), Test, None, <<Called, Called>>),
     of |-> ForOf(a, b, <<Called>>), ofPattern |-> ForOf(ArrayPattern(<<Item(a, None)>>), b, <<Called>>),
     in |-> ForIn(a, b, <<Called>>),
     catch |-> Try(Block(<<Called>>), a, Block(<<Assigned>>), None),
     catchAll |-> Try(Block(<<>>), None, Block(<<Assigned>>), Block(<<Called>>)),
     finally |-> Try(Block(<<Called>>), None, None, Block(<<Called>>)),
     switch |-> Switch(a, <<Case(b, <<>>), Case(c, <<Called, Break("")>>), Case(None, <<ReturnVoid>>)>>),
     labeled |-> Labeled("o", While(Test, <<Continue("o")>>))]
StatementNames == DOMAIN Statements

(* Known divergences: what follows an if statement is taken for a part of  *)
(* it if it starts like an operator.                                       *)
Continues(first, second) ==
    /\ first \in {"if", "else", "elseIf"}
    /\ second \in {"iife", "literal", "prefix"}

Pairs ==
    [pair \in {<<m, n>> \in StatementNames \X StatementNames : ~Continues(m, n)} |->
        Written(<<Statements[pair[1]], Statements[pair[2]]>>, AllLayouts)]

Contexts ==
    {"if", "else", "while", "do", "for", "of", "in", "try", "catch", "finally", "case", "default",
     "block", "function", "method", "getter", "setter", "static", "arrow", "expression", "generator"}

Within(context, s) ==
    LET body == <<s>> IN
    CASE context = "if" -> Expr(IfExpr(a, body, Block(<<Called>>)))
      [] context = "else" -> Expr(IfExpr(a, <<Called>>, Block(body)))
      [] context = "while" -> While(a, body)
      [] context = "do" -> DoWhile(body, a)
      [] context = "for" -> For(None, a, None, body)
      [] context = "of" -> ForOf(b, a, body)
      [] context = "in" -> ForIn(b, a, body)
      [] context = "try" -> Try(Block(body), b, Block(<<>>), None)
      [] context = "catch" -> Try(Block(<<>>), b, Block(body), None)
      [] context = "finally" -> Try(Block(<<>>), None, None, Block(body))
      [] context = "case" -> Switch(a, <<Case(b, body), Case(c, body)>>)
      [] context = "default" -> Switch(a, <<Case(None, body), Case(c, <<Called>>)>>)
      [] context = "block" -> Block(<<Let("let", "q", b)>> \o body)
      [] context = "function" -> FunctionDecl("g", <<>>, body)
      [] context = "method" -> ClassDecl("D", None, <<Method("m", Function(<<>>, body, FALSE), FALSE, "")>>)
      [] context = "getter" -> Let("let", "q", Literal(<<Getter(Str("m"), body), KeyValue(Str("n"), a)>>))
      [] context = "setter" -> Let("let", "q", Literal(<<KeyValue(Str("n"), a), Setter(Index(a, b), "v", body)>>))
      [] context = "static" -> ClassDecl("D", None, <<StaticBlock(body), Field("n", a, FALSE)>>)
      [] context = "arrow" -> Let("let", "q", Function(<<>>, <<Let("let", "q", b)>> \o body, TRUE))
      [] context = "expression" -> Expr(Call(f, <<Function(<<>>, body, FALSE)>>))
      [] context = "generator" ->
            Let("let", "q", Literal(<<MethodEntry(Str("m"), Coroutine("generator", Function(<<>>, body, FALSE))),
                                      MethodEntry(Str("n"), Function(<<a>>, <<>>, FALSE)), Spread(b)>>))

Nested ==
    [pair \in Contexts \X StatementNames |->
        Written(<<Within(pair[1], Statements[pair[2]]), z>>, AllLayouts)]

-----------------------------------------------------------------------------
(* Forms that are not read as they are written *)

W(word) == Grammar!W(word)
N(name) == Grammar!Name(name)
I(n) == Grammar!IntText(n)
End == Grammar!End
RECURSIVE Words(_)
Words(texts) == IF texts = <<>> THEN <<>> ELSE Head(texts) \o Words(Tail(texts))
Source(texts, tree) == [text |-> Words(texts), layouts |-> AllLayouts, tree |-> tree]

T(text) == [isExpr |-> FALSE, text |-> text]
OnLine(word) == Grammar!AtLine(word, 1, FALSE)
Interpolated(text) ==
    [isExpr |-> TRUE, toks |-> [i \in DOMAIN text |-> OnLine(text[i])] \o <<OnLine(Grammar!Eof)>>]
Template(parts) == <<[k |-> "Template", lit |-> parts]>>
Strings(one, two) ==
    Literal(<<KeyValue(Num(0), Str(one)), KeyValue(Num(1), Str(two)), KeyValue(Str("length"), Num(2)),
              KeyValue(Str("raw"), Array(<<Str(one), Str(two)>>))>>)

Defaulted(name, default) ==
    Expr(Assign(Id(name), "=", IfExpr(Infix(Typeof(Id(name)), "===", Str("undefined")),
                                      <<Expr(default)>>, Block(<<Expr(Id(name))>>))))
Object(name) == ObjectPattern(<<Prop(Str(name), Id(name), None)>>)
One == Id("__fl_param_0")
Two == Id("__fl_param_1")

Given ==
    <<Source(<<Template(<<T("s")>>), End>>, <<Expr(Str("s"))>>),
      Source(<<W("let"), N("x"), W("="), Template(<<T("s"), Interpolated(N("a") \o W("+") \o N("b")), T("t")>>),
               W("*"), N("c"), End>>,
             <<Let("let", "x", Infix(Infix(Infix(Str("s"), "+", Infix(a, "+", b)), "+", Str("t")), "*", c))>>),
      Source(<<N("f"), Template(<<T("s"), Interpolated(N("f") \o W("(") \o N("a") \o W(")")), T("t")>>), W("."), N("p"), End>>,
             <<Expr(Index(Call(f, <<Strings("s", "t"), Call(f, <<a>>)>>), Str("p")))>>),
      Source(<<W("function"), N("f"), W("("), N("a"), W("="), I(1), W(","), N("b"), W("="), N("a"), W(")"),
               W("{"), W("return"), N("a"), End, W("}"), N("z"), End>>,
             <<FunctionDecl("f", <<a, b>>, <<Defaulted("a", Num(1)), Defaulted("b", a), Return(a)>>), z>>),
      Source(<<N("f"), W("("), W("("), W("{"), N("a"), W("}"), W(","), W("["), N("b"), W("]"), W("="), N("c"),
               W(","), W("..."), N("r"), W(")"), W("=>"), N("a"), W(")"), End>>,
             <<Expr(Call(f, <<Function(<<One, Two, Rest("r")>>,
                 <<LetPattern("let", Object("a"), One), Defaulted("__fl_param_1", c),
                   LetPattern("let", ArrayPattern(<<Item(b, None)>>), Two), Expr(a)>>, TRUE)>>))>>),
      Source(<<W("let"), N("x"), W("="), W("async"), W("("), W("["), N("a"), W("]"), W(")"), W("=>"), W("{"),
               W("}"), End>>,
             <<Let("let", "x", Coroutine("async", Function(<<One>>,
                 <<LetPattern("let", ArrayPattern(<<Item(a, None)>>), One)>>, TRUE)))>>),
      Source(<<W("let"), N("x"), W("="), W("async"), N("a"), W("=>"), N("a"), End>>,
             <<Let("let", "x", Coroutine("async", Function(<<a>>, <<Expr(a)>>, TRUE)))>>),
      Source(<<N("f"), W("("), N("a"), W(","), W(")"), End, N("x"), W("="), W("["), N("a"), W(","), W("]"), End>>,
             <<Expr(Call(f, <<a>>)), Expr(Assign(Id("x"), "=", Array(<<a>>)))>>),
      Source(<<W("const"), W("{"), W("["), N("a"), W("]"), W(":"), N("b"), W("="), N("c"), W(","), W("}"), W("="),
               N("f"), End>>,
             <<LetPattern("const", ObjectPattern(<<Prop(a, b, c)>>), f)>>),
      Source(<<W("const"), W("{"), <<Grammar!Word("String", "p")>>, W(":"), N("b"), W("}"), W("="), N("f"), End>>,
             <<LetPattern("const", ObjectPattern(<<Prop(Str("p"), b, None)>>), f)>>),
      Source(<<W("let"), W("["), W(","), N("a"), W(","), W("]"), W("="), N("f"), End>>,
             <<LetPattern("let", ArrayPattern(<<Hole, Item(a, None)>>), f)>>),
      Source(<<N("a"), W("="), N("b"), W("="), W("("), N("c"), W(")"), End>>,
             <<Expr(Assign(a, "=", Assign(b, "=", c)))>>),
      Source(<<W("new"), N("f"), W("."), N("p"), W("["), N("a"), W("]"), End>>,
             <<Expr(NewOf(Index(Index(f, Str("p")), a), <<>>))>>),
      Source(<<N("a"), W("?"), N("b"), W(":"), N("c"), End>>,
             <<Expr(IfExpr(a, <<Expr(b)>>, Block(<<Expr(c)>>)))>>),
      Source(<<W("yield"), End>>, <<Expr(Yield(Undefined, FALSE))>>),
      Source(<<W("class"), N("C"), W("{"), W(";"), W("static"), W("get"), W("#"), N("x"), W("("), W(")"), W("{"),
               W("}"), W("get"), W(";"), W("#"), N("y"), W("("), W(")"), W("{"), W("}"), W("}"), N("z"), End>>,
             <<ClassDecl("C", None, <<Method("#x", Function(<<>>, <<>>, FALSE), TRUE, "get"), Field("get", None, FALSE),
                                      Method("#y", Function(<<>>, <<>>, FALSE), FALSE, "")>>), z>>),
      Source(<<N("x"), W("="), W("{"), W("get"), W("["), N("a"), W("]"), W("("), W(")"), W("{"), W("}"), W("set"),
               N("p"), W("("), N("b"), W(")"), W("{"), W("}"), W(","), W("*"), W("["), N("c"), W("]"), W("("),
               W(")"), W("{"), W("}"), N("m"), W("("), N("a"), W("="), N("b"), W(")"), W("{"), W("}"), W("}"), End>>,
             <<Expr(Assign(Id("x"), "=", Literal(<<Getter(a, <<>>), Setter(Str("p"), "b", <<>>),
                 MethodEntry(c, Coroutine("generator", Function(<<>>, <<>>, FALSE))),
                 MethodEntry(Str("m"), Function(<<a>>, <<Defaulted("a", b)>>, FALSE))>>)))>>)>>

-----------------------------------------------------------------------------
(* All sequences over a vocabulary *)

Vocabularies ==
    {{"a", "+", "(", ")", "=>", ","},                 \* groups and arrow functions
     {"a", "(", ")", "=>", "{", "}"},
     {"a", "=", "[", "]", ",", "...", "let"},          \* patterns
     {"a", "return", ";", "{", "}", "++", "Line"},    \* where a statement ends
     {"a", "if", "else", "(", ")", "{", "}"},          \* branches
     {"a", "function", "async", "(", ")", "{", "}"},   \* functions
     {"a", "class", "static", "=", ";", "{", "}"},     \* classes
     {"a", ".", "?.", "new", "[", "]", "("},          \* chains
     {"a", "{", "}", "get", "(", ")", ","},            \* literals
     {"a", "{", "}", "*", "(", ")"}}

TextOf(words) ==
    [i \in DOMAIN words |-> CASE words[i] = "a" -> N("a")[1]
                              [] words[i] = "Line" -> Grammar!Line[1]
                              [] OTHER -> W(words[i])[1]]

MaxLength == 5
Sentences ==
    {TextOf(words) : words \in UNION {UNION {[1 .. n -> v] : n \in 0 .. MaxLength} : v \in Vocabularies}}

Families == <<Expressions, Atoms, Pairs, Nested, Given>>
=============================================================================
