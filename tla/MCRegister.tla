----------------------------- MODULE MCRegister -----------------------------
(***************************************************************************)
(* The scripts of the register machine's runs.  Every way to leave a       *)
(* statement is put in every statement that can contain it, two deep, and  *)
(* scripts of their own exercise the other instructions.                   *)
(***************************************************************************)
EXTENDS ScriptProperties

Log(e) == Expr(Call(Index(Id("console"), Str("log")), <<e>>))
LogNum(n) == Log(Num(n))
AssignTo(name, e) == Expr(Assign(Id(name), "=", e))
Plus(e, n) == Infix(e, "+", Num(n))
Less(name, n) == Infix(Id(name), "<", Num(n))
NoElse == None
IfThen(cond, body) == Expr(IfExpr(cond, body, NoElse))

(* the name a statement at depth d counts with *)
Counter(d) == IF d = 1 THEN "i" ELSE "j"

Contexts == {"while", "do", "for", "of", "in", "if", "else", "case", "default", "block",
             "labeled", "try", "catch", "finally", "function"}

(* the statements around body; more is logged behind it *)
In(context, d, body) ==
    LET v == Counter(d)
        more == body \o <<Log(Id(v))>>
        count == AssignTo(v, Plus(Id(v), 1))
        start == <<Let("let", v, Num(0))>>
        list == Array(<<Num(1), Num(2)>>)
        object == Hash(<<KeyValue(Str("a"), Num(1)), KeyValue(Str("b"), Num(2))>>)
        otherwise == Block(<<LogNum(8)>>)
        hit == Str("x")
    IN  CASE context = "while" -> start \o <<While(Less(v, 2), <<count>> \o more)>>
          [] context = "do" -> start \o <<DoWhile(<<count>> \o more, Less(v, 2))>>
          [] context = "for" ->
                <<For(Let("let", v, Num(0)), Less(v, 2), Update(Id(v), "++", FALSE), more)>>
          [] context = "of" -> <<ForOf(Id(v), list, more)>>
          [] context = "in" -> <<ForIn(Id(v), object, more)>>
          [] context = "if" -> start \o <<Expr(IfExpr(Less(v, 1), more, otherwise))>>
          [] context = "else" -> start \o <<Expr(IfExpr(Less(v, 0), <<LogNum(8)>>, Block(more)))>>
          [] context = "case" ->
                start \o <<Switch(Id(v), <<Case(Num(1), <<LogNum(6)>>), Case(Num(0), more),
                                           Case(Num(2), <<LogNum(7)>>), Case(None, <<LogNum(8)>>)>>)>>
          [] context = "default" ->
                start \o <<Switch(Id(v), <<Case(Num(1), <<LogNum(6)>>), Case(None, more),
                                           Case(Num(2), <<LogNum(7)>>)>>)>>
          [] context = "block" -> start \o <<Block(<<Let("let", v, Num(5))>> \o more), Log(Id(v))>>
          [] context = "labeled" ->
                start \o <<Labeled("outer", While(Less(v, 2), <<count>> \o more))>>
          [] context = "try" ->
                start \o <<Try(Block(more), Id("e"), Block(<<Log(Id("e"))>>), None)>>
          [] context = "catch" ->
                start \o <<Try(Block(<<Throw(hit)>>), Id("e"), Block(more), None)>>
          [] context = "finally" ->
                start \o <<Try(Block(more), Id("e"), Block(<<Log(Id("e"))>>),
                               Block(<<LogNum(9)>>))>>
          [] context = "function" ->
                start \o <<Let("let", "f", Function(<<Id("p")>>, more \o <<Log(Id("p"))>>, TRUE)),
                           Log(Call(Id("f"), <<Num(3)>>)), Log(Id(v))>>

Leaves == {"log", "break", "continue", "return", "returnVoid", "throw", "outer", "next", "set"}

Leaf(leaf) ==
    CASE leaf = "log" -> LogNum(1)
      [] leaf = "break" -> Break("")
      [] leaf = "continue" -> Continue("")
      [] leaf = "return" -> Return(Num(4))
      [] leaf = "returnVoid" -> ReturnVoid
      [] leaf = "throw" -> Throw(Str("y"))
      [] leaf = "outer" -> Break("outer")
      [] leaf = "next" -> Continue("outer")
      [] leaf = "set" -> Expr(Assign(Id("i"), "+=", Num(1)))

Loops == {"while", "do", "for", "of", "in", "labeled"}
PerTurn == {"for", "of", "in"}  \* loops that declare their variable
Switches == {"case", "default"}

(* the positions in path of one of the contexts, within the innermost function *)
Around(path, contexts) ==
    LET functions == {k \in DOMAIN path : path[k] = "function"}
    IN  {k \in DOMAIN path : path[k] \in contexts /\ \A f \in functions : f < k}

(* may the leaf stand in the contexts, outermost first? *)
Legal(path, leaf) ==
    CASE leaf = "break" -> Around(path, Loops \cup Switches) # {}
      [] leaf = "continue" -> Around(path, Loops) # {}
      [] leaf \in {"outer", "next"} -> Around(path, {"labeled"}) # {}
      [] leaf \in {"return", "returnVoid"} -> "function" \in {path[k] : k \in DOMAIN path}
      [] OTHER -> TRUE

(* What the compiler is known to get wrong (README, "Known divergences"):
   continue in a switch, leaving a try statement with a finally block by break
   or continue, an exception that leaves a function, and a closure's
   assignment to the variable of a for loop. *)
Divergent(path, leaf) ==
    LET targets == Around(path, IF leaf \in {"outer", "next"} THEN {"labeled"}
                                ELSE IF leaf = "continue" THEN Loops ELSE Loops \cup Switches)
        crossed == Around(path, {"finally"} \cup IF leaf = "continue" THEN Switches ELSE {})
    IN  CASE leaf \in {"break", "continue", "outer", "next"} ->
                \E k \in crossed : \A t \in targets : t < k
          [] leaf = "throw" -> \E f \in DOMAIN path : path[f] = "function" /\
                                  \E t \in 1 .. f - 1 : path[t] \in {"try", "finally"}
          [] leaf = "set" -> \E f \in DOMAIN path : path[f] = "function" /\
                                \E l \in 1 .. f - 1 : path[l] \in PerTurn
          [] OTHER -> FALSE

Script(path, leaf) ==
    LET deepest == In(path[Len(path)], Len(path), <<Leaf(leaf)>>)
    IN  IF Len(path) = 1 THEN deepest ELSE In(path[1], 1, deepest)

Paths == [1 .. 1 -> Contexts] \cup [1 .. 2 -> Contexts]

Choices == {<<p, l>> \in Paths \X Leaves : Legal(p, l) /\ ~Divergent(p, l)}
Nested == [choice \in Choices |-> Script(choice[1], choice[2])]

-----------------------------------------------------------------------------
(* Every operator assigns to every kind of target; a function that changes the
   targets may be called in between.  The result is used or not. *)

Targets ==
    [x |-> Id("x"), local |-> Id("w"), prop |-> Index(Id("o"), Str("a")),
     own |-> Index(Id("u"), Str("a")), absent |-> Index(Id("u"), Str("z")),
     key |-> Index(Id("u"), Id("k")), item |-> Index(Id("v"), Num(1)),
     deep |-> Index(Index(Id("o"), Str("q")), Str("a"))]
TargetNames == <<"x", "local", "prop", "own", "absent", "key", "item", "deep">>

Plain == {"=", "+=", "%="}
Logical == {"&&=", "||=", "??="}
RightSides == {"const", "fused", "sum", "call", "undefined"}
Uses == {"statement", "logged", "bound", "value"}

RightSide(kind, target) ==
    CASE kind = "const" -> Num(2)
      [] kind = "fused" -> Plus(target, 1)
      [] kind = "sum" -> Infix(Index(Id("u"), Str("a")), "+", Index(Id("u"), Str("b")))
      [] kind = "call" -> Call(Id("g"), <<Num(3)>>)
      [] kind = "undefined" -> Void(Num(0))

Object1 == Hash(<<KeyValue(Str("a"), Num(1)), KeyValue(Str("b"), Num(2)),
                  KeyValue(Str("q"), Hash(<<KeyValue(Str("a"), Num(5))>>))>>)

(* g has side effects on x and o *)
Setting ==
    <<Let("let", "x", Num(1)), Let("let", "w", Num(1)), Let("let", "y", Num(3)),
      Let("let", "k", Str("a")), Let("let", "o", Object1), Let("let", "u", Object1),
      Let("let", "v", Array(<<Num(7), Num(8)>>)),
      FunctionDecl("g", <<Id("p")>>,
                   <<Expr(Assign(Id("x"), "+=", Num(10))),
                     Expr(Assign(Index(Id("o"), Str("a")), "+=", Num(10))),
                     Return(Infix(Id("x"), "+", Id("p")))>>)>>

LogTargets == [i \in DOMAIN TargetNames |-> Log(Targets[TargetNames[i]])]

Used(use, e) ==
    CASE use \in {"statement", "value"} -> <<Expr(e)>>
      [] use = "logged" -> <<Log(e)>>
      [] use = "bound" -> <<Let("let", "r", e), Log(Id("r"))>>

(* the value of a script is that of its last statement *)
Behind(use, stmts) == IF use = "value" THEN <<>> ELSE stmts

(* More known divergences: the value of a logical assignment to a property is
   its old value, and u.z = u.a + u.b has none. *)
NoValue(target, op, right) ==
    /\ target \notin {"x", "local"}
    /\ op \in Logical \/ (op = "=" /\ right = "sum" /\ target \in {"own", "absent"})

AssignmentChoices ==
    {c \in (DOMAIN Targets) \X (Plain \cup Logical) \X RightSides \X Uses :
        /\ NoValue(c[1], c[2], c[3]) => c[4] = "statement"
        /\ c[4] \in {"bound", "value"} => c[3] \in {"fused", "call"}}

Assignments ==
    [c \in AssignmentChoices |->
        LET target == Targets[c[1]]
        IN  Setting \o Used(c[4], Assign(target, c[2], RightSide(c[3], target)))
                    \o Behind(c[4], LogTargets)]

Updates ==
    [c \in (DOMAIN Targets \ {"absent"}) \X {"++", "--"} \X BOOLEAN \X Uses |->
        Setting \o Used(c[4], Update(Targets[c[1]], c[2], c[3])) \o Behind(c[4], LogTargets)]

-----------------------------------------------------------------------------
(* Expressions in the places that treat them specially *)

Operands1 ==
    [number |-> Num(2), zero |-> Num(0), name |-> Id("x"), null |-> Null,
     missing |-> Index(Id("u"), Str("z")), text |-> Str("t"),
     call |-> Call(Id("g"), <<Num(3)>>), object |-> Id("u")]

Unaries == {"!", "-", "typeof", "void", "delete", "optional", "optionalKey", "optionalCall",
            "optionalMethod", "spread", "index", "comma", "sequence"}

Unary1(op, e) ==
    CASE op \in {"!", "-"} -> Prefix(op, e)
      [] op = "typeof" -> Typeof(e)
      [] op = "void" -> Void(e)
      [] op = "delete" -> Delete(e)
      [] op = "optional" -> OptionalIndex(e, Str("a"))
      [] op = "optionalKey" -> OptionalIndex(e, Id("k"))
      [] op = "optionalCall" -> OptionalCall(Index(e, Str("m")), <<Num(1)>>)
      [] op = "optionalMethod" -> Call(OptionalIndex(Index(e, Str("q")), Str("m")), <<Num(1)>>)
      [] op = "spread" -> Index(Array(<<Num(1), Spread(Array(<<e, Num(6)>>)), Num(4)>>), Num(1))
      [] op = "index" -> Index(Hash(<<KeyValue(Str("a"), e), KeyValue(Str("b"), Num(2))>>), Id("k"))
      [] op = "comma" -> Infix(e, ",", Num(6))
      [] op = "sequence" -> Sequence(<<Num(1), e, Plus(e, 1)>>)

Binaries == {"+", "-", "*", "%", "===", "!==", "<", "<=", ">", ">=", "&&", "||", "??"}

Uses2 == {"logged", "tested", "looped", "value"}

Used2(use, e) ==
    CASE use = "tested" -> <<Expr(IfExpr(e, <<LogNum(1)>>, Block(<<LogNum(2)>>)))>>
      [] use = "looped" ->
            <<While(e, <<LogNum(1), Break("")>>),
              For(Let("let", "t", Num(0)), Infix(Less("t", 2), "&&", e),
                  Assign(Id("t"), "=", Plus(Id("t"), 1)), <<Log(Id("t"))>>)>>
      [] OTHER -> Used(use, e)

UnaryScripts ==
    [c \in Unaries \X (DOMAIN Operands1) \X Uses2 |->
        Setting \o Used2(c[3], Unary1(c[1], Operands1[c[2]]))
                \o Behind(c[3], <<Log(Targets.x), Log(Targets.prop)>>)]

BinaryScripts ==
    [c \in Binaries \X {"number", "zero", "null"}
                    \X {"name", "call", "text"} \X {"logged", "looped"} |->
        Setting \o Used2(c[4], Infix(Operands1[c[2]], c[1], Operands1[c[3]])) \o <<Log(Targets.x)>>]

-----------------------------------------------------------------------------
(* Patterns: where they are bound, and what from *)

Name(n) == Item(Id(n), None)
Key(k) == Prop(Str(k), Id(k), None)
Patterns ==
    [items |-> ArrayPattern(<<Name("a"), Hole, Name("b")>>),
     defaults |-> ArrayPattern(<<Item(Id("a"), Num(6)), Item(Id("b"), Id("a"))>>),
     rest |-> ArrayPattern(<<Name("a"), Rest("b")>>),
     nested |-> ArrayPattern(<<Item(ArrayPattern(<<Name("a")>>), Array(<<Num(9)>>)),
                               Item(ObjectPattern(<<Key("b")>>), None)>>),
     props |-> ObjectPattern(<<Key("b"), Prop(Str("a"), Id("c"), None)>>),
     values |-> ObjectPattern(<<Prop(Str("a"), Id("a"), Call(Id("g"), <<Num(1)>>)),
                                Prop(Str("b"), Id("b"), Num(6))>>),
     others |-> ObjectPattern(<<Key("a"), Rest("c")>>),
     inner |-> ObjectPattern(<<Prop(Str("q"), ObjectPattern(<<Key("a")>>), None),
                               Prop(Str("l"), ArrayPattern(<<Name("b")>>), Array(<<Num(4)>>))>>)]

(* the same as the left side of an assignment *)
Literals ==
    [items |-> Array(<<Id("a"), Id("b")>>),
     defaults |-> Array(<<Assign(Id("a"), "=", Num(6)), Assign(Id("b"), "=", Id("a"))>>),
     rest |-> Array(<<Id("a"), Spread(Id("b"))>>),
     nested |-> Array(<<Array(<<Id("a"), Id("b")>>)>>),
     props |-> Hash(<<KeyValue(Str("b"), Id("b")), KeyValue(Str("a"), Id("c"))>>),
     values |-> Hash(<<KeyValue(Str("a"), Assign(Id("a"), "=", Num(6)))>>),
     others |-> Hash(<<KeyValue(Str("a"), Id("a")), KeyValue(Str("__fl_rest__"), Id("c"))>>),
     inner |-> Hash(<<KeyValue(Str("q"), Hash(<<KeyValue(Str("a"), Id("b"))>>))>>)]

Sources ==
    [object |-> Object1, array |-> Array(<<Num(4), Num(5), Num(6)>>), empty |-> Array(<<>>),
     arrays |-> Array(<<Array(<<Num(4)>>), Hash(<<KeyValue(Str("b"), Num(3))>>)>>),
     spread |-> Hash(<<KeyValue(Str("a"), Num(8)), KeyValue(Str("__fl_rest__"), Id("o")),
                       KeyValue(Str("b"), Void(Num(0)))>>)]

LogNames == <<Log(Id("a")), Log(Id("b")), Log(Typeof(Id("c"))), Log(Index(Id("c"), Str("b"))),
              Log(Index(Id("b"), Str("length"))), Log(Index(Id("b"), Num(0)))>>

(* captured: a function refers to the names; a call in between reloads them.
   A name that a pattern declares is never captured here (README, "Known
   divergences"): the function would not see it. *)
Places == {"let", "captured", "of", "var", "assign"}

Declared ==
    <<MultiLet(<<Let("let", "a", Num(1)), Let("let", "b", Num(2)), Let("let", "c", Num(3))>>)>>

Bound(place, name, source) ==
    LET more == <<Expr(Call(Id("g"), <<Num(1)>>))>> \o LogNames
        show == FunctionDecl("show", <<>>, LogNames)
        assign == Expr(Assign(Literals[name], "=", source))
    IN  CASE place = "let" -> <<LetPattern("let", Patterns[name], source)>> \o more
          [] place = "captured" ->
                Declared \o <<show, assign, Expr(Call(Id("show"), <<>>))>> \o more
          [] place = "of" -> <<ForOf(Patterns[name], Array(<<source, source>>), more)>>
          [] place = "var" -> <<Block(<<LetPattern("var", Patterns[name], source)>>)>> \o more
          [] place = "assign" -> Declared \o <<assign>> \o more

Bindings ==
    [c \in Places \X (DOMAIN Patterns) \X (DOMAIN Sources) |->
        Setting \o Bound(c[1], c[2], Sources[c[3]])]
-----------------------------------------------------------------------------
(* Calls: how a function is called, and what it does *)

Ways == {"name", "method", "optional", "spread", "inside", "map", "forEach", "literal", "key",
         "result", "operand", "missing", "value", "empty", "noCallback"}
Bodies == {"params", "rest", "recursive", "outer", "local", "closure", "throw", "nothing",
           "mutual", "object", "switch"}

Both == <<Num(4), Num(5)>>
BodyOf(body) ==
    CASE body = "params" -> Function(<<Id("p"), Id("q"), Id("r")>>,
                                     <<Log(Id("q")), Return(Infix(Id("p"), "+", Typeof(Id("r"))))>>, TRUE)
      [] body = "rest" -> Function(<<Id("p"), Rest("q")>>,
                                   <<Log(Id("p")), Return(Index(Id("q"), Str("length")))>>, FALSE)
      [] body = "recursive" ->
            Function(<<Id("n")>>,
                     <<Expr(IfExpr(Infix(Id("n"), "<=", Num(2)), <<Return(Num(1))>>, None)),
                       Return(Infix(Call(Id("f"), <<Infix(Id("n"), "-", Num(1))>>), "+", Id("n")))>>, TRUE)
      [] body = "outer" ->
            Function(<<Id("p")>>, <<Expr(Assign(Id("x"), "+=", Id("p"))), Return(Id("x"))>>, TRUE)
      [] body = "local" ->
            Function(<<Id("p")>>,
                     <<Let("let", "m", Plus(Id("p"), 1)), Expr(Call(Id("g"), <<Id("m")>>)),
                       Return(Infix(Id("m"), "*", Id("p")))>>, FALSE)
      [] body = "closure" ->
            Function(<<Id("p")>>,
                     <<Let("let", "m", Num(1)),
                       Let("let", "h", Function(<<Id("n")>>,
                            <<Expr(Assign(Id("m"), "+=", Id("n"))), Return(Id("m"))>>, TRUE)),
                       Expr(Call(Id("h"), <<Id("p")>>)), Return(Call(Id("h"), <<Num(2)>>))>>, FALSE)
      [] body = "throw" -> Function(<<Id("p")>>, <<Throw(Id("p"))>>, FALSE)
      [] body = "nothing" -> Function(<<>>, <<ReturnVoid>>, TRUE)
      [] body = "mutual" ->
            Function(<<Id("p")>>, <<Return(Call(Id("g"), <<Call(Id("g"), <<Id("p")>>)>>))>>, TRUE)
      [] body = "object" ->
            Function(<<Id("p")>>, <<Return(Hash(<<KeyValue(Str("a"), Id("p"))>>))>>, FALSE)
      [] body = "switch" ->
            Function(<<Id("p")>>,
                     <<Switch(Id("p"), <<Case(Num(4), <<Break("")>>), Case(Num(5), <<Return(Num(1))>>)>>)>>,
                     FALSE)

Caller(way) ==
    LET f == Id("f")
        both == Array(Both)
    IN  CASE way = "name" -> Log(Call(f, Both))
          [] way = "method" -> Log(Call(Index(Hash(<<KeyValue(Str("m"), f)>>), Str("m")), Both))
          [] way = "optional" -> Log(OptionalCall(f, Both))
          [] way = "spread" -> Log(Call(f, <<Num(3), Spread(both)>>))
          [] way = "inside" -> FunctionDecl("h", <<Id("p")>>, <<Return(Call(f, <<Id("p")>>))>>)
          [] way = "map" -> Log(Index(Call(Index(both, Str("map")), <<f>>), Num(1)))
          [] way = "forEach" -> Log(Call(Index(Id("v"), Str("forEach")), <<f>>))
          [] way = "literal" -> Log(Call(Function(<<Id("p")>>, <<Return(Call(f, <<Id("p")>>))>>, TRUE), Both))
          [] way = "key" -> Log(Call(Index(Array(<<f>>), Num(0)), Both))
          [] way = "value" -> Expr(Call(f, Both))
          [] way = "missing" -> Log(Call(Index(Id("x"), Str("m")), <<Call(f, Both)>>))
          [] way = "empty" ->
                Log(Index(Call(Index(Array(<<>>), Str("map")), <<f>>), Str("length")))
          [] way = "noCallback" -> Log(Call(Index(Array(<<>>), Str("forEach")), <<>>))
          [] way = "result" -> AssignTo("w", Call(f, <<Call(f, Both)>>))
          [] way = "operand" ->
                Log(Infix(Id("x"), "+", Infix(Call(f, Both), "-", Index(Id("o"), Str("a")))))

Calls ==
    [c \in Ways \X Bodies |->
        Setting \o <<Let("let", "f", BodyOf(c[2])), Caller(c[1])>>
                \o (IF c[1] = "inside" THEN <<Log(Call(Id("h"), Both)), Log(Call(Id("h"), Both))>> ELSE <<>>)
                \o Behind(c[1], <<Log(Targets.x), Log(Targets.local), Log(Targets.prop)>>)]
-----------------------------------------------------------------------------
(* Loops: conditions and updates that are fused, closures over the variable *)

Conditions ==
    [less |-> Less("i", 3), atMost |-> Infix(Id("i"), "<=", Num(2)), name |-> Infix(Id("i"), "<", Id("y")),
     remainder |-> Infix(Infix(Id("i"), "%", Num(2)), "===", Num(0)), const |-> Prefix("!", Less("i", 1)),
     none |-> None]
ForUpdates ==
    [plus |-> Assign(Id("i"), "+=", Num(1)), sum |-> Assign(Id("i"), "=", Plus(Id("i"), 1)),
     post |-> Update(Id("i"), "++", FALSE), other |-> Assign(Id("i"), "+=", Id("x")), none |-> None]
LoopBodies == {"plain", "closure", "captured", "if"}

LoopBody(body) ==
    CASE body = "plain" -> <<Log(Id("i"))>>
      [] body = "closure" ->
            <<Expr(Call(Index(Id("fs"), Str("push")), <<Function(<<>>, <<Return(Id("i"))>>, TRUE)>>))>>
      [] body = "captured" ->
            <<Let("let", "h", Function(<<Id("p")>>, <<Return(Infix(Id("i"), "+", Id("p")))>>, TRUE)),
              Log(Call(Id("h"), <<Num(1)>>))>>
      [] body = "if" ->
            <<Expr(IfExpr(Conditions.remainder, <<Log(Id("i")), Continue("")>>,
                          Block(<<Expr(IfExpr(Conditions.less, <<LogNum(5)>>, None))>>))), LogNum(6)>>

Looped ==
    [c \in (DOMAIN Conditions) \X (DOMAIN ForUpdates) \X LoopBodies \X {"while", "for"} |->
        LET stop == Expr(IfExpr(Infix(Id("i"), ">", Num(3)), <<Break("")>>, None))
            more == IF c[2] = "none" THEN <<AssignTo("i", Plus(Id("i"), 1))>> ELSE <<>>
            count == IF c[2] = "none" THEN <<>> ELSE <<Expr(ForUpdates[c[2]])>>
        IN  Setting \o <<Let("let", "fs", Array(<<>>))>> \o
            (IF c[4] = "for"
             THEN <<For(Let("let", "i", Num(0)), Conditions[c[1]], ForUpdates[c[2]],
                        <<stop>> \o more \o LoopBody(c[3]))>>
             ELSE <<Let("let", "i", Num(0)),
                    While(IF c[1] = "none" THEN Bool(TRUE) ELSE Conditions[c[1]],
                          <<stop>> \o more \o count \o LoopBody(c[3]))>>)
            \o <<ForOf(Id("f"), Id("fs"), <<Log(Call(Id("f"), <<>>))>>)>>]

Families ==
    <<Nested, Assignments, Updates, UnaryScripts, BinaryScripts, Bindings, Calls, Looped>>
=============================================================================
