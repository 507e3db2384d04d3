------------------------------- MODULE Parser -------------------------------
(***************************************************************************)
(* The parser: recursive descent for statements and patterns, precedence   *)
(* climbing for expressions, two tokens of lookahead, and no backtracking  *)
(* but the probe for the parameters of an arrow function.                  *)
(*                                                                         *)
(* A parser p is the tokens, the position `at' of the current token,       *)
(* whether errors were reported so far (failed), whether the parse         *)
(* function that returned it has found something (ok: its Some or None),   *)
(* and what it has found (node).  A token has a kind k, its literal, the   *)
(* line it is on and whether white space with a line break precedes it     *)
(* (nl); keywords and operators are their own kinds.  A template token has *)
(* its parts, texts and the tokens of interpolations in turn, in the place *)
(* of its literal.                                                         *)
(***************************************************************************)
EXTENDS Syntax

CONSTANT Sources   \* the token sequences to parse

VARIABLES
    tokens,    \* the script
    position,  \* the parser's current token
    statements,\* the statements parsed so far
    failed,    \* whether errors have been reported
    outcome    \* "parsing", "accepted" or "rejected"

vars == <<tokens, position, statements, failed, outcome>>

-----------------------------------------------------------------------------
(* Tokens and lookahead *)

Parser(toks, at, hasErrors) ==
    [toks |-> toks, at |-> at, failed |-> hasErrors, ok |-> TRUE, node |-> None]

(* the last token is Eof, and the lexer goes on to return it *)
TokenAt(p, i) == IF i <= Len(p.toks) THEN p.toks[i] ELSE p.toks[Len(p.toks)]
Cur(p) == TokenAt(p, p.at)
Peek(p) == TokenAt(p, p.at + 1)
Is(p, kind) == Cur(p).k = kind
PeekIs(p, kind) == Peek(p).k = kind

NextToken(p) == IF p.at < Len(p.toks) THEN [p EXCEPT !.at = @ + 1] ELSE p

Some(p, node) == [p EXCEPT !.node = node]

(* A mutated form: giving up without an error. *)
ErrorUnreported(p) == [p EXCEPT !.ok = FALSE]

Error(p) == [p EXCEPT !.ok = FALSE, !.failed = TRUE]

(* the ? operator: go on with what was found, or return the None *)
Then(p, More(_)) == IF p.ok THEN More(p) ELSE p

ExpectPeek(p, kind, More(_)) ==
    IF PeekIs(p, kind) THEN More(NextToken(p)) ELSE Error(p)

(* most statements swallow a semicolon if there is one *)
Optional(p, kind) == IF PeekIs(p, kind) THEN NextToken(p) ELSE p

Undefined == Id("undefined")

-----------------------------------------------------------------------------
(* Precedences *)

Lowest == 0
AtAssign == 1
AtProduct == 13
AtPrefix == 14
AtCall == 16
AtIndex == 17

AssignOperators ==
    {"=", "+=", "-=", "*=", "/=", "%=", "**=", "&=", "|=", "^=", "<<=", ">>=", ">>>=",
     "&&=", "||=", "??="}

TokenPrecedence(kind) ==
    CASE kind \in AssignOperators -> AtAssign
      [] kind = "?" -> 2
      [] kind = "||" -> 3
      [] kind = "??" -> 4
      [] kind = "&&" -> 5
      [] kind = "|" -> 6
      [] kind = "^" -> 7
      [] kind = "&" -> 8
      [] kind \in {"==", "!=", "===", "!=="} -> 9
      [] kind \in {"<", ">", "<=", ">=", "in", "instanceof"} -> 10
      [] kind \in {"<<", ">>", ">>>"} -> 11
      [] kind \in {"+", "-"} -> 12
      [] kind \in {"/", "*", "%"} -> AtProduct
      [] kind = "**" -> 15
      [] kind \in {"(", "Template"} -> AtCall
      [] kind \in {"++", "--", "[", ".", "?."} -> AtIndex
      [] OTHER -> Lowest

InfixOperators ==
    {"||", "??", "&&", "|", "^", "&", "==", "!=", "===", "!==", "<", ">", "<=", ">=", "in",
     "instanceof", "<<", ">>", ">>>", "+", "-", "/", "*", "%", "**"}

DeclarationWords == {"let", "const", "var"}
AccessorWords == {"get", "set"}
PatternStarts == {"[", "{"}

(* the words that may follow a dot *)
IdentifierNames ==
    {"Ident", "function", "let", "var", "const", "true", "false", "if", "else", "return",
     "null", "undefined", "while", "for", "break", "continue", "throw", "try", "catch",
     "finally", "class", "extends", "new", "this", "super", "static", "async", "await", "of",
     "in", "do", "switch", "case", "default", "get", "set", "typeof", "instanceof", "void",
     "delete", "yield", "import", "debugger"}

-----------------------------------------------------------------------------
(* The parse functions that others call, by name *)

RECURSIVE Parse(_, _, _)
Statement(p) == Parse(p, "statement", None)
Block_(p) == Parse(p, "block", None)
Body(p) == Parse(p, "body", None)
Expression(p, precedence) == Parse(p, "expression", precedence)
Arguments(p, end) == Parse(p, "list", end)
Pattern(p) == Parse(p, "pattern", None)
Target(p) == Parse(p, "target", None)
Parameters(p) == Parse(p, "parameters", None)
IfExpression(p) == Parse(p, "if", None)
ClassTail(p) == Parse(p, "class", None)

-----------------------------------------------------------------------------
(* Statements *)

(* a statement that was not understood leaves the parser where it stopped; *)
(* the loop around it skips one token and goes on                          *)
RECURSIVE ParseStatements(_, _, _)
ParseStatements(p, ends, out) ==
    IF Cur(p).k \in ends \cup {"Eof"} THEN Some(p, out)
    ELSE LET r == Statement(p)
         IN  ParseStatements(NextToken([r EXCEPT !.ok = TRUE]), ends,
                             IF r.ok THEN Append(out, r.node) ELSE out)

ParseProgram(p) == ParseStatements(p, {}, <<>>)

ParseBlock(p) == ParseStatements(NextToken(p), {"}"}, <<>>)

(* the body of a loop or a branch: a block, or one statement *)
ParseBody(p) ==
    IF PeekIs(p, "{") THEN Block_(NextToken(p))
    ELSE LET r == Statement(NextToken(p))
         IN  [r EXCEPT !.ok = TRUE, !.node = IF r.ok THEN <<r.node>> ELSE <<>>]

ParseExpressionStatement(p) ==
    Then(Expression(p, Lowest), LAMBDA e : Some(Optional(e, ";"), Expr(e.node)))

ParseLabeled(p) ==
    Then(Statement(NextToken(NextToken(p))), LAMBDA body :
         Some(body, Labeled(Cur(p).lit, body.node)))

(* a label has to be on the same line *)
ParseJump(p) ==
    LET Jump(label) == IF Is(p, "break") THEN Break(label) ELSE Continue(label)
    IN  IF PeekIs(p, "Ident") /\ ~Peek(p).nl
        THEN Some(Optional(NextToken(p), ";"), Jump(Peek(p).lit))
        ELSE Some(Optional(p, ";"), Jump(""))

ParseThrow(p) ==
    Then(Expression(NextToken(p), Lowest), LAMBDA e : Some(Optional(e, ";"), Throw(e.node)))

ParseReturn(p) ==
    LET q == NextToken(p)
    IN  CASE PeekIs(p, ";") -> Some(q, ReturnVoid)
          [] Peek(p).line # Cur(p).line -> Some(p, ReturnVoid)
          [] OTHER -> IF Cur(q).k \in {"}", "Eof"} THEN Some(q, ReturnVoid)
                      ELSE Then(Expression(q, Lowest), LAMBDA e :
                                Some(Optional(e, ";"), Return(e.node)))

ParseFinally(p, block, param, handler) ==
    IF PeekIs(p, "finally")
    THEN ExpectPeek(NextToken(p), "{", LAMBDA q :
         Then(Block_(q), LAMBDA f : Some(f, Try(block, param, handler, Block(f.node)))))
    ELSE IF Absent(handler) THEN Error(p)
    ELSE Some(p, Try(block, param, handler, None))

ParseCatchBlock(p, block, param) ==
    ExpectPeek(p, "{", LAMBDA q :
    Then(Block_(q), LAMBDA h : ParseFinally(h, block, param, Block(h.node))))

ParseCatch(p, block) ==
    CASE ~PeekIs(p, "catch") -> ParseFinally(p, block, None, None)
      [] PeekIs(NextToken(p), "{") -> ParseCatchBlock(NextToken(p), block, None)
      [] OTHER -> ExpectPeek(NextToken(p), "(", LAMBDA q :
                  ExpectPeek(q, "Ident", LAMBDA param :
                  ExpectPeek(param, ")", LAMBDA r :
                  ParseCatchBlock(r, block, Id(Cur(param).lit)))))

ParseTry(p) ==
    ExpectPeek(p, "{", LAMBDA q : Then(Block_(q), LAMBDA b : ParseCatch(b, Block(b.node))))

(* ( condition ), from the token before the parenthesis *)
ParseCondition(p) ==
    ExpectPeek(p, "(", LAMBDA q :
    Then(Expression(NextToken(q), Lowest), LAMBDA e :
    ExpectPeek(e, ")", LAMBDA r : r)))

ParseWhile(p) ==
    Then(ParseCondition(p), LAMBDA cond :
    Then(Body(cond), LAMBDA body : Some(body, While(cond.node, body.node))))

ParseDoWhile(p) ==
    Then(Body(p), LAMBDA body :
    ExpectPeek(body, "while", LAMBDA q :
    Then(ParseCondition(q), LAMBDA cond :
         Some(Optional(cond, ";"), DoWhile(body.node, cond.node)))))

ParseCaseBody(p, test) ==
    Then(ParseStatements(NextToken(p), {"case", "default", "}"}, <<>>), LAMBDA body :
         Some(body, Case(test, body.node)))

ParseCase(p) ==
    CASE Is(p, "case") ->
            Then(Expression(NextToken(p), Lowest), LAMBDA test :
            ExpectPeek(test, ":", LAMBDA q : ParseCaseBody(q, test.node)))
      [] Is(p, "default") -> ExpectPeek(p, ":", LAMBDA q : ParseCaseBody(q, None))
      [] OTHER -> Error(p)

RECURSIVE ParseCases(_, _, _)
ParseCases(p, disc, out) ==
    IF Cur(p).k \in {"}", "Eof"} THEN Some(p, Switch(disc, out))
    ELSE Then(ParseCase(p), LAMBDA c : ParseCases(c, disc, Append(out, c.node)))

ParseSwitch(p) ==
    Then(ParseCondition(p), LAMBDA disc :
    ExpectPeek(disc, "{", LAMBDA q : ParseCases(NextToken(q), disc.node, <<>>)))

-----------------------------------------------------------------------------
(* Declarations *)

(* = value, or undefined *)
ParseInitializer(p, missing) ==
    IF PeekIs(p, "=") THEN Expression(NextToken(NextToken(p)), Lowest) ELSE Some(p, missing)

RECURSIVE ParseDeclarators(_, _, _)
ParseDeclarators(p, kind, out) ==
    IF ~PeekIs(p, ",") THEN Some(p, IF Len(out) = 1 THEN out[1] ELSE MultiLet(out))
    ELSE ExpectPeek(NextToken(p), "Ident", LAMBDA name :
         Then(ParseInitializer(name, Undefined), LAMBDA value :
              ParseDeclarators(value, kind,
                               Append(out, Let(kind, Cur(name).lit, value.node)))))

EndOfDeclaration(p, kind, first) ==
    Then(ParseDeclarators(p, kind, <<first>>), LAMBDA r : Optional(r, ";"))

ParseLetName(p, kind) ==
    LET name == Cur(p).lit
    IN  IF Peek(p).k \in {";", ","} THEN EndOfDeclaration(p, kind, Let(kind, name, Undefined))
        ELSE ExpectPeek(p, "=", LAMBDA q :
             Then(Expression(NextToken(q), Lowest), LAMBDA value :
                  EndOfDeclaration(value, kind, Let(kind, name, value.node))))

ParseLetPattern(p, kind) ==
    Then(Pattern(p), LAMBDA pattern :
    ExpectPeek(pattern, "=", LAMBDA q :
    Then(Expression(NextToken(q), Lowest), LAMBDA value :
         Some(Optional(value, ";"), LetPattern(kind, pattern.node, value.node)))))

ParseLet(p) ==
    CASE PeekIs(p, "Ident") -> ParseLetName(NextToken(p), Cur(p).k)
      [] Peek(p).k \in PatternStarts -> ParseLetPattern(NextToken(p), Cur(p).k)
      [] OTHER -> Error(p)

Wrapped(kind, fn) == IF kind = "" THEN fn ELSE Coroutine(kind, fn)

(* parameters and body, from the opening parenthesis; assigning defaults   *)
(* and taking patterns apart comes first in the body                       *)
ParseFunctionTail(p) ==
    Then(Parameters(p), LAMBDA ps :
    ExpectPeek(ps, "{", LAMBDA q :
    Then(Block_(q), LAMBDA b :
         Some(b, [params |-> ps.node.names, body |-> ps.node.prologue \o b.node]))))

ParseFunctionDeclaration(p, kind) ==
    ExpectPeek(p, "Ident", LAMBDA name :
    ExpectPeek(name, "(", LAMBDA q :
    Then(ParseFunctionTail(q), LAMBDA f :
         Some(f, Wrapped(kind, FunctionDecl(Cur(name).lit, f.node.params, f.node.body))))))

ParseClassDeclaration(p) ==
    ExpectPeek(p, "Ident", LAMBDA name :
    Then(ClassTail(name), LAMBDA c :
         Some(c, ClassDecl(Cur(name).lit, c.node.extends, c.node.members))))

-----------------------------------------------------------------------------
(* For loops *)

RECURSIVE ParseRest(_, _)
ParseRest(p, out) ==
    IF ~PeekIs(p, ",") THEN Some(p, out)
    ELSE Then(Expression(NextToken(NextToken(p)), Lowest), LAMBDA e :
              ParseRest(e, Append(out, e.node)))

ParseSequence(p) ==
    Then(Expression(p, Lowest), LAMBDA first :
    Then(ParseRest(first, <<first.node>>), LAMBDA all :
         Some(all, IF Len(all.node) = 1 THEN first.node ELSE Sequence(all.node))))

ParseForBody(p, init, test, update) ==
    Then(Body(p), LAMBDA body : Some(body, For(init, test, update, body.node)))

(* from the second semicolon *)
ParseForUpdate(p, init, test) ==
    IF PeekIs(p, ")") THEN ParseForBody(NextToken(p), init, test, None)
    ELSE Then(ParseSequence(NextToken(p)), LAMBDA update :
         ExpectPeek(update, ")", LAMBDA q : ParseForBody(q, init, test, update.node)))

(* from the first semicolon *)
ParseForTest(p, init) ==
    IF PeekIs(p, ";") THEN ParseForUpdate(NextToken(p), init, None)
    ELSE Then(Expression(NextToken(p), Lowest), LAMBDA test :
         ExpectPeek(test, ";", LAMBDA q : ParseForUpdate(q, init, test.node)))

ParseForInit(p) ==
    IF Is(p, ";") THEN ParseForTest(p, None)
    ELSE Then(Expression(p, Lowest), LAMBDA e :
         ExpectPeek(e, ";", LAMBDA q : ParseForTest(q, Expr(e.node))))

ParseForDeclaration(p, kind, name) ==
    Then(ParseInitializer(p, Undefined), LAMBDA value :
    Then(ParseDeclarators(value, kind, <<Let(kind, name, value.node)>>), LAMBDA init :
    ExpectPeek(init, ";", LAMBDA q : ParseForTest(q, init.node))))

(* for-of and for-in, from the token before the word *)
ParseIteration(p, binding) ==
    LET Loop(iterable, body) == IF PeekIs(p, "of") THEN ForOf(binding, iterable, body)
                                ELSE ForIn(binding, iterable, body)
    IN
    Then(Expression(NextToken(NextToken(p)), Lowest), LAMBDA iterable :
    ExpectPeek(iterable, ")", LAMBDA q :
    Then(Body(q), LAMBDA body : Some(body, Loop(iterable.node, body.node)))))

ParseForHead(p, kind, binding) ==
    CASE PeekIs(p, "of") -> ParseIteration(p, binding)
      [] ~PeekIs(p, "of") /\ binding.t # "Identifier" -> Error(p)
      [] PeekIs(p, "in") /\ binding.t = "Identifier" -> ParseIteration(p, binding)
      [] OTHER -> ParseForDeclaration(p, kind, binding.name)

(* from let, const or var *)
ParseForBinding(p) ==
    CASE PeekIs(p, "Ident") -> ParseForHead(NextToken(p), Cur(p).k, Id(Peek(p).lit))
      [] Peek(p).k \in PatternStarts ->
            Then(Pattern(NextToken(p)), LAMBDA r : ParseForHead(r, Cur(p).k, r.node))
      [] OTHER -> Error(p)

ParseFor(p) ==
    ExpectPeek(p, "(", LAMBDA q :
        IF Peek(q).k \in DeclarationWords THEN ParseForBinding(NextToken(q))
        ELSE ParseForInit(NextToken(q)))

-----------------------------------------------------------------------------
(* Binding patterns, from the bracket *)

RECURSIVE ParseItems(_, _, _)
AfterItem(p, items) ==
    CASE PeekIs(p, ",") -> ParseItems(NextToken(p), items, TRUE)
      [] PeekIs(p, "]") -> ParseItems(p, items, FALSE)
      [] OTHER -> Error(p)

ParseItem(p, items, expected) ==
    CASE Is(p, ",") -> ParseItems(p, IF expected THEN Append(items, Hole) ELSE items, TRUE)
      [] Is(p, "...") ->
            ExpectPeek(p, "Ident", LAMBDA q :
                IF Peek(q).k \in {"=", ","} THEN Error(q)
                ELSE ParseItems(q, Append(items, Rest(Cur(q).lit)), FALSE))
      [] Cur(p).k \in PatternStarts \cup {"Ident"} ->
            Then(Target(p), LAMBDA target :
            Then(ParseInitializer(target, None), LAMBDA default :
                 AfterItem(default, Append(items, Item(target.node, default.node)))))
      [] OTHER -> Error(p)

ParseItems(p, items, expected) ==
    IF PeekIs(p, "]") THEN Some(NextToken(p), ArrayPattern(items))
    ELSE ParseItem(NextToken(p), items, expected)

EndProps(p, props) == ExpectPeek(p, "}", LAMBDA q : Some(q, ObjectPattern(props)))

RECURSIVE ParseProps(_, _)
(* the target and the default of a key; alias says that the key is no name *)
ParsePropTarget(p, props, key, alias) ==
    IF alias /\ ~PeekIs(p, ":") THEN Error(p)
    ELSE Then(IF PeekIs(p, ":") THEN Target(NextToken(NextToken(p))) ELSE Some(p, Id(Cur(p).lit)),
              LAMBDA target :
         Then(ParseInitializer(target, None), LAMBDA default :
              IF PeekIs(default, ",")
              THEN ParseProps(NextToken(default),
                              Append(props, Prop(key, target.node, default.node)))
              ELSE EndProps(default, Append(props, Prop(key, target.node, default.node)))))

ParseProp(p, props) ==
    CASE Is(p, "...") ->
            ExpectPeek(p, "Ident", LAMBDA q :
                IF Peek(q).k \in {"=", ","} THEN Error(q)
                ELSE ParseProps(q, Append(props, Rest(Cur(q).lit))))
      [] Is(p, "Ident") -> ParsePropTarget(p, props, Str(Cur(p).lit), FALSE)
      [] Is(p, "String") -> ParsePropTarget(p, props, Str(Cur(p).lit), TRUE)
      [] Is(p, "[") ->
            Then(Expression(NextToken(p), Lowest), LAMBDA key :
            ExpectPeek(key, "]", LAMBDA q : ParsePropTarget(q, props, key.node, TRUE)))
      [] OTHER -> Error(p)

ParseProps(p, props) ==
    IF PeekIs(p, "}") THEN EndProps(p, props) ELSE ParseProp(NextToken(p), props)

ParsePattern(p) ==
    CASE Is(p, "[") -> ParseItems(p, <<>>, TRUE)
      [] Is(p, "{") -> ParseProps(p, <<>>)
      [] OTHER -> Error(p)

ParseTarget(p) == IF Is(p, "Ident") THEN Some(p, Id(Cur(p).lit)) ELSE ParsePattern(p)

-----------------------------------------------------------------------------
(* Parameters: names, and what the body has to do first *)

(* name = typeof name === "undefined" ? default : name *)
DefaultAssignment(name, default) ==
    Expr(Assign(Id(name), "=",
                IfExpr(Infix(Typeof(Id(name)), "===", Str("undefined")), <<Expr(default)>>,
                       Block(<<Expr(Id(name))>>))))

PatternParameter(n) == "__fl_param_" \o ToString(n)

EndParameters(p, names, prologue) ==
    ExpectPeek(p, ")", LAMBDA q : Some(q, [names |-> names, prologue |-> prologue]))

(* the default of a parameter, as the statements that assign it *)
ParseDefault(p, name) ==
    IF ~PeekIs(p, "=") THEN Some(p, <<>>)
    ELSE Then(Expression(NextToken(NextToken(p)), AtAssign), LAMBDA e :
              Some(e, <<DefaultAssignment(name, e.node)>>))

RECURSIVE ParseParameter(_, _, _, _)
AfterParameter(p, names, prologue, patterns) ==
    IF PeekIs(p, ",") THEN ParseParameter(NextToken(NextToken(p)), names, prologue, patterns)
    ELSE EndParameters(p, names, prologue)

ParseRestParameter(p, names, prologue) ==
    IF ~Is(p, "Ident") \/ ~PeekIs(p, ")") THEN Error(p)
    ELSE EndParameters(p, Append(names, Rest(Cur(p).lit)), prologue)

ParsePatternParameter(p, names, prologue, n) ==
    Then(Pattern(p), LAMBDA pattern :
    Then(ParseDefault(pattern, PatternParameter(n)), LAMBDA default :
         AfterParameter(default, Append(names, Id(PatternParameter(n))),
                        prologue \o default.node
                          \o <<LetPattern("let", pattern.node, Id(PatternParameter(n)))>>,
                        n + 1)))

ParseParameter(p, names, prologue, patterns) ==
    CASE Is(p, "...") -> ParseRestParameter(NextToken(p), names, prologue)
      [] Is(p, "Ident") ->
            Then(ParseDefault(p, Cur(p).lit), LAMBDA default :
                 AfterParameter(default, Append(names, Id(Cur(p).lit)),
                                prologue \o default.node, patterns))
      [] Cur(p).k \in PatternStarts -> ParsePatternParameter(p, names, prologue, patterns)
      [] OTHER -> Error(p)

ParseParameters(p) ==
    IF PeekIs(p, ")") THEN EndParameters(p, <<>>, <<>>)
    ELSE ParseParameter(NextToken(p), <<>>, <<>>, 0)

-----------------------------------------------------------------------------
(* Functions *)

(* the body of an arrow function, at its first token *)
ParseArrowBody(p, params, prologue, kind) ==
    LET Arrow(body) == Wrapped(kind, Function(params, prologue \o body, TRUE))
    IN  IF Is(p, "{") THEN Then(Block_(p), LAMBDA b : Some(b, Arrow(b.node)))
        ELSE Then(Expression(p, Lowest), LAMBDA e : Some(e, Arrow(<<Expr(e.node)>>)))

ParseArrowOfName(p, kind) ==
    ExpectPeek(p, "=>", LAMBDA q : ParseArrowBody(NextToken(q), <<Id(Cur(p).lit)>>, <<>>, kind))

ParseArrowOfParen(p, kind) ==
    Then(Parameters(p), LAMBDA ps :
    ExpectPeek(ps, "=>", LAMBDA q :
         ParseArrowBody(NextToken(q), ps.node.names, ps.node.prologue, kind)))

(* does a parameter list and an arrow start at the parenthesis? A copy of  *)
(* the parser tries, and its errors are forgotten                          *)
IsArrowParameterList(p) ==
    LET probe == Parameters(p)
    IN  probe.ok /\ PeekIs(probe, "=>")

ParseFunctionLiteral(p, kind) ==
    LET generator == Is(p, "function") /\ PeekIs(p, "*")
        full == CASE ~generator -> kind
                  [] kind = "" -> "generator"
                  [] OTHER -> "async generator"
    IN  ExpectPeek(IF generator THEN NextToken(p) ELSE p, "(", LAMBDA q :
        Then(ParseFunctionTail(q), LAMBDA f :
             Some(f, Wrapped(full, Function(f.node.params, f.node.body, FALSE)))))

ParseAsync(p) ==
    LET q == NextToken(p)
    IN  CASE PeekIs(p, "function") -> ParseFunctionLiteral(q, "async")
          [] PeekIs(p, "(") -> ParseArrowOfParen(q, "async")
          [] PeekIs(p, "Ident") -> IF PeekIs(q, "=>") THEN ParseArrowOfName(q, "async") ELSE Error(q)
          [] OTHER -> Error(p)

-----------------------------------------------------------------------------
(* Classes *)

PrivateName(name) == "#" \o name

IsAccessor(p) == Cur(p).k \in AccessorWords /\ Peek(p).k \notin {"(", "=", ";", "}"}

(* a method if a parenthesis follows the name, else a field *)
ParseMemberValue(p, name, static, accessor) ==
    IF PeekIs(p, "(")
    THEN Then(ParseFunctionTail(NextToken(p)), LAMBDA f :
              Some(f, Method(name, Function(f.node.params, f.node.body, FALSE), static, accessor)))
    ELSE Then(ParseInitializer(p, None), LAMBDA value :
              Some(Optional(value, ";"), Field(name, value.node, static)))

ParseAccessorMember(p, static, accessor) ==
    IF Is(p, "#") THEN ParseMemberValue(NextToken(p), PrivateName(Peek(p).lit), static, accessor)
    ELSE ParseMemberValue(p, Cur(p).lit, static, accessor)

ParseNamedMember(p, static, private) ==
    CASE IsAccessor(p) -> ParseAccessorMember(NextToken(p), static, Cur(p).k)
      [] ~IsAccessor(p) /\ Cur(p).k \in AccessorWords \cup {"Ident"} ->
            ParseMemberValue(p, IF private THEN PrivateName(Cur(p).lit) ELSE Cur(p).lit, static, "")
      [] OTHER -> Error(p)

ParsePrivateMember(p, static) ==
    ParseNamedMember(IF Is(p, "#") THEN NextToken(p) ELSE p, static, Is(p, "#"))

ParseMember(p) ==
    CASE Is(p, "static") /\ PeekIs(p, "{") ->
            Then(Block_(NextToken(p)), LAMBDA b : Some(b, StaticBlock(b.node)))
      [] Is(p, "static") /\ ~PeekIs(p, "{") -> ParsePrivateMember(NextToken(p), TRUE)
      [] OTHER -> ParsePrivateMember(p, FALSE)

RECURSIVE ParseMembers(_, _)
ParseMembers(p, out) ==
    CASE Cur(p).k \in {"}", "Eof"} -> Some(p, out)
      [] Is(p, ";") -> ParseMembers(NextToken(p), out)
      [] OTHER -> Then(ParseMember(p), LAMBDA m :
                       ParseMembers(NextToken(m), Append(out, m.node)))

ParseExtends(p) ==
    IF PeekIs(p, "extends") THEN Expression(NextToken(NextToken(p)), Lowest) ELSE Some(p, None)

(* what follows the name of a class *)
ParseClassTail(p) ==
    Then(ParseExtends(p), LAMBDA super :
    ExpectPeek(super, "{", LAMBDA q :
    Then(ParseMembers(NextToken(q), <<>>), LAMBDA m :
         Some(m, [extends |-> super.node, members |-> m.node]))))

ParseClassExpression(p) ==
    LET named == PeekIs(p, "Ident")
    IN  Then(ClassTail(Optional(p, "Ident")), LAMBDA c :
             Some(c, Class(IF named THEN Peek(p).lit ELSE "", c.node.extends, c.node.members)))

-----------------------------------------------------------------------------
(* Array and object literals, arguments *)

ParseListItem(p) ==
    IF ~Is(p, "...") THEN Expression(p, Lowest)
    ELSE Then(Expression(NextToken(p), Lowest), LAMBDA e : Some(e, Spread(e.node)))

RECURSIVE ParseListItems(_, _, _)
ParseListItems(p, end, out) ==
    Then(ParseListItem(p), LAMBDA item :
         CASE PeekIs(item, ",") /\ PeekIs(NextToken(item), end) ->
                 Some(NextToken(NextToken(item)), Append(out, item.node))
           [] PeekIs(item, ",") /\ ~PeekIs(NextToken(item), end) ->
                 ParseListItems(NextToken(NextToken(item)), end, Append(out, item.node))
           [] OTHER -> ExpectPeek(item, end, LAMBDA q : Some(q, Append(out, item.node))))

ParseExpressionList(p, end) ==
    IF PeekIs(p, end) THEN Some(NextToken(p), <<>>) ELSE ParseListItems(NextToken(p), end, <<>>)

ParseArray(p) == Then(Arguments(p, "]"), LAMBDA items : Some(items, Array(items.node)))

(* a name as a key stands for itself *)
StoredKey(key) == IF key.t = "Identifier" THEN Str(key.name) ELSE key

ParseComputedKey(p) ==
    Then(Expression(NextToken(p), Lowest), LAMBDA key :
    ExpectPeek(key, "]", LAMBDA q : q))

RECURSIVE ParseEntries(_, _)
EndHash(p, entries) == ExpectPeek(p, "}", LAMBDA q : Some(q, Hash(entries)))

(* entries with a body do not need a comma behind them *)
AfterBody(p, entries) == ParseEntries(Optional(p, ","), Append(entries, p.node))
AfterValue(p, entries) ==
    IF PeekIs(p, ",") THEN ParseEntries(NextToken(p), entries) ELSE EndHash(p, entries)

ParseSpreadEntry(p, entries) ==
    Then(Expression(NextToken(p), Lowest), LAMBDA e : AfterValue(e, Append(entries, Spread(e.node))))

ParseAccessorKey(p) == IF Is(p, "[") THEN ParseComputedKey(p) ELSE Some(p, Str(Cur(p).lit))

ParseGetterBody(p, key, entries) ==
    ExpectPeek(p, ")", LAMBDA q : ExpectPeek(q, "{", LAMBDA r :
    Then(Block_(r), LAMBDA b : AfterBody(Some(b, Getter(key, b.node)), entries))))

ParseSetterBody(p, key, entries) ==
    ExpectPeek(p, "Ident", LAMBDA param : ExpectPeek(param, ")", LAMBDA q :
    ExpectPeek(q, "{", LAMBDA r :
    Then(Block_(r), LAMBDA b :
         AfterBody(Some(b, Setter(key, Cur(param).lit, b.node)), entries)))))

ParseAccessorEntry(p, entries) ==
    Then(ParseAccessorKey(NextToken(p)), LAMBDA key : ExpectPeek(key, "(", LAMBDA q :
         IF Is(p, "get") THEN ParseGetterBody(q, key.node, entries)
         ELSE ParseSetterBody(q, key.node, entries)))

ParseMethodEntry(p, key, kind, entries) ==
    Then(ParseFunctionTail(p), LAMBDA f :
         LET method == Wrapped(kind, Function(f.node.params, f.node.body, FALSE))
         IN  AfterBody(Some(f, MethodEntry(key, method)), entries))

ParseGeneratorKey(p) ==
    CASE Is(p, "[") -> ParseComputedKey(p)
      [] Is(p, "Ident") -> Some(p, Str(Cur(p).lit))
      [] OTHER -> Expression(p, AtIndex)

ParseGeneratorEntry(p, entries) ==
    Then(ParseGeneratorKey(NextToken(p)), LAMBDA key :
    ExpectPeek(key, "(", LAMBDA q : ParseMethodEntry(q, key.node, "generator", entries)))

(* what follows the key: a method, a value, or nothing if the key is a name *)
ParseKeyed(p, computed, entries) ==
    LET key == IF computed THEN p.node ELSE StoredKey(p.node)
    IN  CASE PeekIs(p, "(") -> ParseMethodEntry(NextToken(p), key, "", entries)
          [] PeekIs(p, ":") ->
                Then(Expression(NextToken(NextToken(p)), Lowest), LAMBDA value :
                     AfterValue(value, Append(entries, KeyValue(key, value.node))))
          [] Peek(p).k \in {",", "}"} /\ ~computed /\ p.node.t = "Identifier" ->
                AfterValue(p, Append(entries, KeyValue(key, p.node)))
          [] OTHER -> Error(p)

(* a key is parsed like an operand that no call may follow *)
ParseKeyedEntry(p, entries) ==
    Then(IF Is(p, "[") THEN ParseComputedKey(p) ELSE Expression(p, AtIndex), LAMBDA key :
         ParseKeyed(key, Is(p, "["), entries))

IsAccessorEntry(p) == Cur(p).k \in AccessorWords /\ Peek(p).k \notin {":", ",", "}", "("}

ParseEntry(p, entries) ==
    CASE Is(p, "...") -> ParseSpreadEntry(p, entries)
      [] IsAccessorEntry(p) -> ParseAccessorEntry(p, entries)
      [] Is(p, "*") -> ParseGeneratorEntry(p, entries)
      [] OTHER -> ParseKeyedEntry(p, entries)

ParseEntries(p, entries) ==
    IF PeekIs(p, "}") THEN EndHash(p, entries) ELSE ParseEntry(NextToken(p), entries)

ParseHash(p) == ParseEntries(p, <<>>)

-----------------------------------------------------------------------------
(* Templates: a part is a text, or the tokens of an interpolation *)

(* an interpolation is parsed by a parser of its own as a script of one expression *)
ParseInterpolation(toks) ==
    LET r == ParseProgram(Parser(toks, 1, FALSE))
    IN  [r EXCEPT !.ok = ~r.failed /\ Len(r.node) = 1 /\ r.node[1].t = "Expression"]

PartExpression(part) ==
    IF part.isExpr THEN LET r == ParseInterpolation(part.toks)
                        IN  IF r.ok THEN r.node[1].e ELSE None
    ELSE Str(part.text)

Parts(p) == [i \in DOMAIN Cur(p).lit |-> PartExpression(Cur(p).lit[i])]
IsText(part) == ~part.isExpr
TextsOf(parts) == [i \in DOMAIN SelectSeq(parts, IsText) |-> SelectSeq(parts, IsText)[i].text]

(* a + b + ... *)
RECURSIVE Concatenation(_, _)
Concatenation(left, rest) ==
    IF rest = <<>> THEN left ELSE Concatenation(Infix(left, "+", Head(rest)), Tail(rest))

ParseTemplate(p) ==
    LET parts == Parts(p)
    IN  IF \E i \in DOMAIN parts : Absent(parts[i]) THEN Error(p)
        ELSE Some(p, Concatenation(Head(parts), Tail(parts)))

(* the strings of a tagged template are an object like an array *)
StringsObject(texts) ==
    Hash([i \in DOMAIN texts |-> KeyValue(Num(i - 1), Str(texts[i]))]
           \o <<KeyValue(Str("length"), Num(Len(texts))),
                KeyValue(Str("raw"), Array([i \in DOMAIN texts |-> Str(texts[i])]))>>)

ParseTagged(p) ==
    LET literal == Cur(p).lit
        exprs == [i \in 1 .. Len(literal) \div 2 |-> Parts(p)[2 * i]]
    IN  IF \E i \in DOMAIN exprs : Absent(exprs[i]) THEN Error(p)
        ELSE Some(p, Call(p.node, <<StringsObject(TextsOf(literal))>> \o exprs))

-----------------------------------------------------------------------------
(* Expressions *)

ParseUnary(p) ==
    LET k == Cur(p).k
        Operation(e) == CASE k = "await" -> Await(e)
                          [] k = "typeof" -> Typeof(e)
                          [] k = "void" -> Void(e)
                          [] k = "delete" -> Delete(e)
                          [] OTHER -> Prefix(k, e)
    IN  Then(Expression(NextToken(p), AtPrefix), LAMBDA e : Some(e, Operation(e.node)))

IsUpdateTarget(e) == e.t \in {"Identifier", "Index"}

ParseUpdatePrefix(p) ==
    Then(Expression(NextToken(p), AtPrefix), LAMBDA e :
         IF IsUpdateTarget(e.node) THEN Some(e, Update(e.node, Cur(p).k, TRUE)) ELSE Error(e))

ParseUpdatePostfix(p) ==
    IF IsUpdateTarget(p.node) THEN Some(p, Update(p.node, Cur(p).k, FALSE)) ELSE Error(p)

RECURSIVE ParseCommas(_)
ParseCommas(p) ==
    IF ~PeekIs(p, ",") THEN ExpectPeek(p, ")", LAMBDA q : q)
    ELSE Then(Expression(NextToken(NextToken(p)), Lowest), LAMBDA right :
              ParseCommas(Some(right, Infix(p.node, ",", right.node))))

ParseGrouped(p) ==
    IF IsArrowParameterList(p) THEN ParseArrowOfParen(p, "")
    ELSE Then(Expression(NextToken(p), Lowest), LAMBDA first : ParseCommas(first))

(* new.target and import.meta *)
ParseMeta(p, word, meta) ==
    IF Peek(NextToken(p)).lit = word THEN Some(NextToken(NextToken(p)), meta)
    ELSE Error(NextToken(p))

ParseNew(p) ==
    IF PeekIs(p, ".") THEN ParseMeta(p, "target", NewTarget)
    ELSE Then(Expression(NextToken(p), AtCall), LAMBDA callee :
              IF ~PeekIs(callee, "(") THEN Some(callee, NewOf(callee.node, <<>>))
              ELSE Then(Arguments(NextToken(callee), ")"), LAMBDA args :
                        Some(args, NewOf(callee.node, args.node))))

ParseImportMeta(p) == IF PeekIs(p, ".") THEN ParseMeta(p, "meta", ImportMeta) ELSE Error(p)

ParseYield(p) ==
    LET delegate == PeekIs(p, "*")
    IN  IF Peek(p).k \in {";", "}", ")", "]", ",", "Eof"} THEN Some(p, Yield(Undefined, FALSE))
        ELSE Then(Expression(NextToken(Optional(p, "*")), AtAssign), LAMBDA e :
                  Some(e, Yield(e.node, delegate)))

(* a literal that is no i64 is None, and nothing is reported *)
ParseInt(p) == [p EXCEPT !.ok = Cur(p).fits, !.node = Num(Cur(p).lit)]

(* the operand an expression starts with *)
ParseOperand(p) ==
    LET k == Cur(p).k
    IN  CASE k = "Ident" -> IF PeekIs(p, "=>") THEN ParseArrowOfName(p, "") ELSE Some(p, Id(Cur(p).lit))
          [] k = "Int" -> ParseInt(p)
          [] k = "Float" -> Some(p, Float(Cur(p).lit))
          [] k = "String" -> Some(p, Str(Cur(p).lit))
          [] k = "Regex" -> Some(p, RegExp(Cur(p).lit, Cur(p).flags))
          [] k = "Template" -> ParseTemplate(p)
          [] k \in {"true", "false"} -> Some(p, Bool(k = "true"))
          [] k = "null" -> Some(p, Null)
          [] k = "undefined" -> Some(p, Undefined)
          [] k \in {"!", "-", "+", "~", "await", "typeof", "void", "delete"} -> ParseUnary(p)
          [] k \in {"++", "--"} -> ParseUpdatePrefix(p)
          [] k = "(" -> ParseGrouped(p)
          [] k = "if" -> IfExpression(p)
          [] k = "function" -> ParseFunctionLiteral(p, "")
          [] k = "this" -> Some(p, This)
          [] k = "super" -> Some(p, Super)
          [] k = "yield" -> ParseYield(p)
          [] k = "new" -> ParseNew(p)
          [] k = "import" -> ParseImportMeta(p)
          [] k = "class" -> ParseClassExpression(p)
          [] k = "async" -> ParseAsync(p)
          [] k = "[" -> ParseArray(p)
          [] k = "{" -> ParseHash(p)
          [] OTHER -> Error(p)

(* A mutated form: ** groups to the left as well. *)
AllToTheLeft(operator) == TokenPrecedence(operator)

(* all operators but ** group to the left *)
RightPrecedence(operator) == IF operator = "**" THEN AtProduct ELSE TokenPrecedence(operator)

ParseInfix(p) ==
    Then(Expression(NextToken(p), RightPrecedence(Cur(p).k)), LAMBDA right :
         Some(right, Infix(p.node, Cur(p).k, right.node)))

(* what may stand left of = : the items of a pattern are names, patterns   *)
(* and either with a default, and only the last may be a rest; whatever is *)
(* no literal is not looked at                                             *)
RECURSIVE ValidTarget(_)
ValidItem(e) ==
    \/ e.t \in {"Identifier", "Array", "Hash"} /\ ValidTarget(e)
    \/ e.t = "Assign" /\ e.op = "=" /\ ValidTarget(e.left)

IsKeyValue(entry) == DOMAIN entry = DOMAIN KeyValue(None, None)
IsSpread(e) == "t" \in DOMAIN e /\ e.t = "Spread"

ValidItems(items) ==
    \A i \in DOMAIN items : IF IsSpread(items[i])
                            THEN i = Len(items) /\ items[i].value.t = "Identifier"
                            ELSE ValidItem(items[i])

(* no accessors and methods, and the values are items *)
ValidEntries(entries) ==
    /\ \A i \in DOMAIN entries : IsSpread(entries[i]) \/ IsKeyValue(entries[i])
    /\ ValidItems([i \in DOMAIN entries |-> IF IsSpread(entries[i]) THEN entries[i]
                                           ELSE entries[i].value])

ValidTarget(e) ==
    CASE e.t = "Array" -> ValidItems(e.items)
      [] e.t = "Hash" -> ValidEntries(e.pairs)
      [] OTHER -> TRUE

ParseAssign(p) ==
    IF Is(p, "=") /\ ~ValidTarget(p.node) THEN Error(p)
    ELSE Then(Expression(NextToken(p), Lowest), LAMBDA right :
              Some(right, Assign(p.node, Cur(p).k, right.node)))

ParseTernary(p) ==
    Then(Expression(NextToken(p), AtAssign), LAMBDA consequence :
    ExpectPeek(consequence, ":", LAMBDA q :
    Then(Expression(NextToken(q), AtAssign), LAMBDA alternative :
         Some(alternative, IfExpr(p.node, <<Expr(consequence.node)>>,
                                  Block(<<Expr(alternative.node)>>))))))

ParseElse(p, cond, cons) ==
    CASE ~PeekIs(p, "else") -> Some(p, IfExpr(cond, cons, None))
      [] PeekIs(NextToken(p), "if") ->
            Then(IfExpression(NextToken(NextToken(p))), LAMBDA other :
                 Some(other, IfExpr(cond, cons, Block(<<Expr(other.node)>>))))
      [] OTHER -> Then(Body(NextToken(p)), LAMBDA other :
                       Some(other, IfExpr(cond, cons, Block(other.node))))

ParseIf(p) ==
    Then(ParseCondition(p), LAMBDA cond :
    Then(Body(cond), LAMBDA cons : ParseElse(cons, cond.node, cons.node)))

ParseCall(p) == Then(Arguments(p, ")"), LAMBDA args : Some(args, Call(p.node, args.node)))

(* left[index] or left?.[index] *)
Indexed(left, index, optional) ==
    IF optional THEN OptionalIndex(left, index) ELSE Index(left, index)

ParseIndex(p, optional) ==
    Then(Expression(NextToken(p), Lowest), LAMBDA index :
    ExpectPeek(index, "]", LAMBDA q : Some(q, Indexed(p.node, index.node, optional))))

ParsePropertyName(p, optional) ==
    IF Peek(p).k \in IdentifierNames
    THEN Some(NextToken(p), Indexed(p.node, Str(Peek(p).lit), optional))
    ELSE Error(p)

ParseOptionalChain(p) ==
    CASE PeekIs(p, "(") ->
            Then(Arguments(NextToken(p), ")"), LAMBDA args : Some(args, OptionalCall(p.node, args.node)))
      [] PeekIs(p, "[") -> ParseIndex(NextToken(p), TRUE)
      [] OTHER -> ParsePropertyName(p, TRUE)

ParseDot(p) ==
    IF ~PeekIs(p, "#") THEN ParsePropertyName(p, FALSE)
    ELSE ExpectPeek(NextToken(p), "Ident", LAMBDA q :
             Some(q, Index(p.node, Str(PrivateName(Cur(q).lit)))))

(* the operator at the current token, applied to what is left of it *)
ParseOperator(p) ==
    LET k == Cur(p).k
    IN  CASE k \in InfixOperators -> ParseInfix(p)
          [] k = "?" -> ParseTernary(p)
          [] k \in {"++", "--"} -> ParseUpdatePostfix(p)
          [] k \in AssignOperators -> ParseAssign(p)
          [] k = "(" -> ParseCall(p)
          [] k = "?." -> ParseOptionalChain(p)
          [] k = "[" -> ParseIndex(p, FALSE)
          [] k = "." -> ParseDot(p)
          [] k = "Template" -> ParseTagged(p)

(* operators that bind tighter than what is left of the expression *)
RECURSIVE ParseOperators(_, _)
ParseOperators(p, precedence) ==
    IF precedence < TokenPrecedence(Peek(p).k)
    THEN Then(ParseOperator(NextToken(p)), LAMBDA left : ParseOperators(left, precedence))
    ELSE p

ParseExpression(p, precedence) ==
    Then(ParseOperand(p), LAMBDA left : ParseOperators(left, precedence))

-----------------------------------------------------------------------------
(* Statements by their first tokens *)

(* a brace opens a block if the next token can only start a statement *)
BlockStarts ==
    {"let", "const", "var", "for", "while", "do", "if", "return", "function", "class", "try",
     "throw", "switch", "break", "continue", "}", "{"}

ParseAsyncStatement(p) ==
    LET q == NextToken(p)
    IN  CASE PeekIs(p, "function") /\ PeekIs(q, "*") ->
                ParseFunctionDeclaration(NextToken(q), "async generator")
          [] PeekIs(p, "function") /\ PeekIs(q, "Ident") -> ParseFunctionDeclaration(q, "async")
          [] PeekIs(p, "function") /\ Peek(q).k \notin {"*", "Ident"} ->
                Then(ParseFunctionLiteral(q, "async"), LAMBDA e :
                     Some(Optional(e, ";"), Expr(e.node)))
          [] OTHER -> ParseExpressionStatement(p)

ParseStatement(p) ==
    LET k == Cur(p).k
    IN  CASE k = "Ident" /\ PeekIs(p, ":") -> ParseLabeled(p)
          [] k \in DeclarationWords -> ParseLet(p)
          [] k = "return" -> ParseReturn(p)
          [] k = "while" -> ParseWhile(p)
          [] k = "for" -> ParseFor(p)
          [] k = "class" -> ParseClassDeclaration(p)
          [] k = "try" -> ParseTry(p)
          [] k = "throw" -> ParseThrow(p)
          [] k = "switch" -> ParseSwitch(p)
          [] k = "do" -> ParseDoWhile(p)
          [] k = "debugger" -> Some(Optional(p, ";"), Debugger)
          [] k = "function" /\ PeekIs(p, "*") -> ParseFunctionDeclaration(NextToken(p), "generator")
          [] k = "function" /\ PeekIs(p, "Ident") -> ParseFunctionDeclaration(p, "")
          [] k = "async" -> ParseAsyncStatement(p)
          [] k \in {"break", "continue"} -> ParseJump(p)
          [] k = "{" /\ Peek(p).k \in BlockStarts ->
                Then(Block_(p), LAMBDA b : Some(b, Block(b.node)))
          [] OTHER -> ParseExpressionStatement(p)

Parse(p, what, arg) ==
    CASE what = "statement" -> ParseStatement(p)
      [] what = "block" -> ParseBlock(p)
      [] what = "body" -> ParseBody(p)
      [] what = "expression" -> ParseExpression(p, arg)
      [] what = "list" -> ParseExpressionList(p, arg)
      [] what = "pattern" -> ParsePattern(p)
      [] what = "target" -> ParseTarget(p)
      [] what = "parameters" -> ParseParameters(p)
      [] what = "if" -> ParseIf(p)
      [] what = "class" -> ParseClassTail(p)

-----------------------------------------------------------------------------
(* Parsing a script *)

Start(toks) ==
    /\ tokens = toks
    /\ position = 1
    /\ statements = <<>>
    /\ failed = FALSE
    /\ outcome = "parsing"

Init == \E toks \in Sources : Start(toks)

Here == Parser(tokens, position, failed)

(* the parser has read one statement, r, and goes on behind it *)
Advance(r) ==
    /\ outcome = "parsing"
    /\ ~Is(Here, "Eof")
    /\ position' = NextToken(r).at
    /\ failed' = r.failed
    /\ UNCHANGED <<tokens, outcome>>

ReadStatement(r) == r.ok /\ Advance(r) /\ statements' = Append(statements, r.node)

SkipStatement(r) == ~r.ok /\ Advance(r) /\ UNCHANGED statements

NextStatement == \E r \in {Statement(Here)} : ReadStatement(r) \/ SkipStatement(r)

(* a script with errors is not run *)
Finish ==
    /\ outcome = "parsing"
    /\ Is(Here, "Eof")
    /\ outcome' = IF failed THEN "rejected" ELSE "accepted"
    /\ UNCHANGED <<tokens, position, statements, failed>>

Next == NextStatement \/ Finish

Spec == Init /\ [][Next]_vars
=============================================================================
