------------------------- MODULE RegisterProperties -------------------------
(***************************************************************************)
(* The register machine stays in the code and in the registers it was      *)
(* given, if the code is sound.                                            *)
(***************************************************************************)
EXTENDS RegisterMachine

CodeIsSound == SoundProgram(program)

(***************************************************************************)
(* The compiler hands the machine code that it may trust: every register,  *)
(* slot, function and jump target of every instruction exists.  The        *)
(* program does not change afterwards.                                     *)
(***************************************************************************)
StartsWithSoundCode == Len(frames) = 1 /\ Top.pc = 1 => CodeIsSound

(***************************************************************************)
(* The machine has no bounds check on its instruction pointer: every jump  *)
(* the compiler emits with a placeholder target (emit_jump_placeholder,    *)
(* 9999) has been patched by the time it is taken, and no function runs    *)
(* off its end.                                                            *)
(***************************************************************************)
StaysInCode == outcome = "running" => Top.pc \in DOMAIN CodeOf(Top)

(***************************************************************************)
(* Nor on its registers: every register an instruction touches is one of   *)
(* the register_count for which the call checked and reserved the stack,   *)
(* and one the call has written, so that code neither reads what an        *)
(* earlier activation left nor reaches the surplus arguments that a call   *)
(* copies behind the reserved window.                                      *)
(***************************************************************************)
StaysInWindow ==
    outcome = "running" /\ Top.pc \in DOMAIN CodeOf(Top) =>
        Operands(I) \subseteq (0 .. RegistersOf(Top.fn) - 1) \intersect DOMAIN Top.regs

(***************************************************************************)
(* The scripts of the model end, and so do their compiled forms: no loop   *)
(* misses its update or its exit, whichever way its body is left.  The     *)
(* dispatch loop goes on as long as there is an instruction.               *)
(***************************************************************************)
Terminates == <>(outcome # "running")
=============================================================================
