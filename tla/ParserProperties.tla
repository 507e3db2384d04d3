-------------------------- MODULE ParserProperties --------------------------
(***************************************************************************)
(* The parser reads what was written.                                      *)
(***************************************************************************)
EXTENDS Parser

Grammar == INSTANCE ScriptText

CONSTANTS
    Scripts,    \* families of scripts: the text of each, its layouts and its tree
    OtherTexts \* other sequences of words and marks, scripts or not

VARIABLE writing   \* the tree that was written, if it was one

NoTree == [known |-> FALSE, tree |-> <<>>]

WriteScript(s, layout) ==
    Start(Grammar!LaidOut(s.text, layout)) /\ writing = [known |-> TRUE, tree |-> s.tree]

WrittenInit ==
    \/ \E k \in DOMAIN Scripts : \E i \in DOMAIN Scripts[k] :
          \E layout \in Scripts[k][i].layouts : WriteScript(Scripts[k][i], layout)
    \/ \E text \in OtherTexts : Start(Grammar!LaidOut(text, "lines")) /\ writing = NoTree

WrittenSpec == WrittenInit /\ [][Next /\ UNCHANGED writing]_<<vars, writing>>

(***************************************************************************)
(* A script that is written as the grammar of ECMAScript has it, with no   *)
(* parentheses but those the grammar asks for, with semicolons, with lines *)
(* instead of semicolons, or with as few of both as possible, is accepted  *)
(* and read as the tree it was written from: every operator groups with    *)
(* the operands it should, every statement ends where it should and        *)
(* nothing of one statement is taken for part of the next.                 *)
(***************************************************************************)
ReadsAsWritten ==
    writing.known =>
        /\ ~failed
        /\ Len(statements) <= Len(writing.tree)
        /\ statements = SubSeq(writing.tree, 1, Len(statements))
        /\ outcome = "accepted" => statements = writing.tree

(* the words that carry meaning in a list of tokens *)
Grouping == {"(", ")", "{", "}", ";", ",", "Eof"}
Carries(token) == token.k \notin Grouping
Meaningful(toks) ==
    LET words == SelectSeq(toks, Carries)
    IN  [i \in DOMAIN words |-> <<words[i].k, words[i].lit>>]

(***************************************************************************)
(* Whatever sequence of the words of a vocabulary the tokens are, a script *)
(* is not accepted with part of it left out: the parser skips what it does *)
(* not understand, so that every place that gives up has to report an      *)
(* error.  Written back, an accepted tree has the names, literals,         *)
(* keywords and operators of the script, in their order.  (No vocabulary   *)
(* has integers beyond i64, nor get and set in a class, where the code     *)
(* does leave words out.)                                                  *)
(***************************************************************************)
NothingLost ==
    outcome = "accepted" /\ ~writing.known =>
        Meaningful(tokens) = Meaningful(Grammar!LaidOut(Grammar!ScriptText(statements), "semicolons"))
=============================================================================
