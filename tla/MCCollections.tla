--------------------------- MODULE MCCollections ---------------------------
(***************************************************************************)
(* Collections for TLC: two maps and a set, two of them at a time, with a  *)
(* string and an object as keys and one forEach running.                   *)
(***************************************************************************)
EXTENDS CollectionsProperties

StringAndObject == {<<"string", "a">>, <<"object", "[Map]">>}
=============================================================================
