----------------------------- MODULE MCKeyboard -----------------------------
(* Instance of Keyboard: one letter key. *)
EXTENDS Keyboard

MCLetter == {30}
MCNone == {}
MCMap == [k \in MCLetter |-> 97]
MCMapShift == [k \in MCLetter |-> 65]
=============================================================================
