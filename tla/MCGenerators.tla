---------------------------- MODULE MCGenerators ----------------------------
(***************************************************************************)
(* Generators for TLC: two generators with bodies of two yields, and room  *)
(* for three bodies on the stack, so that one of them can be entered twice *)
(* with the other in between.                                              *)
(***************************************************************************)
EXTENDS GeneratorsProperties
=============================================================================
