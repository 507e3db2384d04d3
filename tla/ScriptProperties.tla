-------------------------- MODULE ScriptProperties --------------------------
(***************************************************************************)
(* The register compiler and the register machine together do what the     *)
(* script says.                                                            *)
(***************************************************************************)
EXTENDS RegisterProperties, RegisterCompiler

ECMAScript == INSTANCE ScriptMeaning

(* a program that remembers what its script means *)
Annotated(stmts) == CompileProgram(stmts) @@ [meant |-> ECMAScript!Meaning(stmts)]
meant == program.meant

(***************************************************************************)
(* Whatever loops, switches, try statements, blocks and functions a script *)
(* nests, it logs what it means to log, in that order, and ends with an    *)
(* error only if it throws an exception nobody catches.                    *)
(***************************************************************************)
RunsAsWritten ==
    /\ Len(log) <= Len(meant.log)
    /\ log = SubSeq(meant.log, 1, Len(log))
    /\ outcome # "running" => /\ log = meant.log
                              /\ (outcome = "failed") = meant.failed

(***************************************************************************)
(* The value of the script, which the embedder gets from last_popped, is   *)
(* that of its last expression statement.                                  *)
(***************************************************************************)
ValueAsWritten ==
    outcome = "done" /\ meant.hasValue => Logged(heap, lastPopped) = meant.value
=============================================================================
