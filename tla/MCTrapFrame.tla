---------------------------- MODULE MCTrapFrame ----------------------------
(* Instance of TrapFrame. *)
EXTENDS TrapFrame
=============================================================================
