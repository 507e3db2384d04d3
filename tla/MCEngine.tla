------------------------------ MODULE MCEngine ------------------------------
(***************************************************************************)
(* Scripts for TLC: three that eval compiles and drops, one of them with a *)
(* function, and a script with a function and two expressions.             *)
(***************************************************************************)
EXTENDS EngineProperties, TLC

CONSTANTS greet, answer, total, page, name, define, double, show, other

MCConstants ==
    greet :> <<"text", "builtin">> @@ answer :> <<"text">>
    @@ total :> <<double>> @@ double :> <<"text", "builtin">>
    @@ page :> <<show, "builtin">> @@ show :> <<"builtin">>
    @@ name :> <<"text">> @@ define :> <<other, "text">> @@ other :> <<"text">>

Symmetry == Permutations(Addresses)
=============================================================================
