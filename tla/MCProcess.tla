----------------------------- MODULE MCProcess -----------------------------
(* Instance of Process for model checking. *)
EXTENDS Process
=============================================================================
