------------------------------- MODULE MCVmm -------------------------------
(* Instance of Vmm. *)
EXTENDS Vmm
=============================================================================
