----------------------------- MODULE MCCallStack -----------------------------
(***************************************************************************)
(* Calls for TLC: a method with cached accesses, an async function with    *)
(* some, a helper without any, a generator, a class whose constructor is   *)
(* the method, and one without a constructor.                              *)
(***************************************************************************)
EXTENDS CallStack, TLC

CONSTANTS method, fetch, helper, numbers, Point, Marker

MCCacheSlots == method :> 1 @@ fetch :> 1 @@ helper :> 0 @@ numbers :> 1
                @@ Script :> 1 @@ Expression :> 0
MCRegisterCount == method :> 1 @@ fetch :> 1 @@ helper :> 1 @@ numbers :> 2
                   @@ Script :> 1 @@ Expression :> 1
MCParts == Point :> <<helper, method>> @@ Marker :> <<>>
=============================================================================
