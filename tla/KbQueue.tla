------------------------------ MODULE KbQueue ------------------------------
(***************************************************************************)
(* What the keyboard buffer promises: a bounded queue of characters.  A    *)
(* character typed while it is full is dropped; every other one reaches    *)
(* the reader once and in the order of typing.                             *)
(***************************************************************************)
EXTENDS Integers, Sequences

CONSTANTS Chars, Capacity

VARIABLES
  queue,   \* characters typed and not yet read
  out      \* the character read last, 0 before the first

qvars == <<queue, out>>

Init == queue = <<>> /\ out = 0

Type ==
  /\ Len(queue) < Capacity
  /\ Len(queue') = Len(queue) + 1
  /\ queue' = Append(queue, queue'[Len(queue')])
  /\ queue'[Len(queue')] \in Chars
  /\ UNCHANGED out

Read ==
  /\ queue # <<>>
  /\ out' = Head(queue)
  /\ queue' = Tail(queue)

Next == Type \/ Read

Spec == Init /\ [][Next]_qvars
=============================================================================
