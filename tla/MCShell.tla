------------------------------ MODULE MCShell ------------------------------
(* Instance of Shell: six users.                                           *)
EXTENDS Shell

A == 30
W == 17
T == 20
C == 46
ENTER == 28
ERASE == 14

MCKeys == {A, W, T, C, ENTER, ERASE, LEFT_SHIFT, RIGHT_SHIFT}
MCExtKeys == {UP, DOWN, LEFT_SHIFT}

MCMap ==
  [k \in MCKeys |->
     CASE k = A -> 97 [] k = W -> 119 [] k = T -> 116 [] k = C -> 99
       [] k = ENTER -> NEWLINE [] k = ERASE -> BACKSPACE [] OTHER -> 0]

MCMapShift ==
  [k \in MCKeys |-> IF MCMap[k] \in 97 .. 122 THEN MCMap[k] - 32 ELSE MCMap[k]]

\* Short names for the commands that do something of their own.
MCCommandOf(line) ==
  CASE line = <<>> -> "none"
    [] line = <<99>> -> "clear"
    [] line = <<116>> -> "time"
    [] line = <<119>> -> "watch irq"
    [] line = <<119, 119>> -> "watch sched"
    [] OTHER -> "unknown"

\* The clock at the turns of the minute, the hour, noon, midnight and year.
Turn(before, after) == <<before, after, [after EXCEPT ![SECOND] = 1]>>
Turns ==
  {Turn(<<59, 41, 9, 30, 6, 2026>>, <<0, 42, 9, 30, 6, 2026>>),
   Turn(<<59, 59, 0, 8, 10, 2026>>, <<0, 0, 1, 8, 10, 2026>>),
   Turn(<<59, 59, 11, 28, 2, 2026>>, <<0, 0, 12, 28, 2, 2026>>),
   Turn(<<59, 59, 12, 28, 2, 2026>>, <<0, 0, 13, 28, 2, 2026>>),
   Turn(<<59, 59, 23, 31, 12, 2026>>, <<0, 0, 0, 1, 1, 2027>>)}
TurningClocks == [times : Turns, bcd : BOOLEAN, h24 : BOOLEAN, updating : BOOLEAN]

\* Types ahead of the shell, with the shift keys, on a narrow screen.
Fast ==
  [keys |-> {A, LEFT_SHIFT, RIGHT_SHIFT}, extKeys |-> {UP, LEFT_SHIFT}, commands |-> 0,
   ahead |-> TRUE, preempted |-> TRUE, program |-> FALSE, writes |-> 0, clocks |-> {},
   width |-> 4, height |-> 3]

\* Edits lines, enters them and looks them up again.
Careful ==
  [keys |-> {A, T, ENTER, ERASE}, extKeys |-> {UP, DOWN}, commands |-> 3,
   ahead |-> FALSE, preempted |-> FALSE, program |-> FALSE, writes |-> 0, clocks |-> {},
   width |-> 5, height |-> 3]

\* Enters the commands that change what is shown.
Commanding ==
  [keys |-> {W, ENTER}, extKeys |-> {}, commands |-> 3,
   ahead |-> FALSE, preempted |-> FALSE, program |-> FALSE, writes |-> 0, clocks |-> {},
   width |-> 5, height |-> 4]

\* Runs a program that prints while the shell does, and edits a line ...
Sharing ==
  [keys |-> {C, ERASE}, extKeys |-> {}, commands |-> 0,
   ahead |-> FALSE, preempted |-> TRUE, program |-> TRUE, writes |-> 1, clocks |-> {},
   width |-> 4, height |-> 3]

\* ... or enters a command, which clears the screen, while it exits.
Clearing ==
  [keys |-> {C, ENTER}, extKeys |-> {}, commands |-> 1,
   ahead |-> FALSE, preempted |-> TRUE, program |-> TRUE, writes |-> 0, clocks |-> {},
   width |-> 4, height |-> 3]

\* Looks at the prompt while the clock runs.
Watching ==
  [keys |-> {}, extKeys |-> {}, commands |-> 0,
   ahead |-> FALSE, preempted |-> FALSE, program |-> FALSE, writes |-> 0, clocks |-> TurningClocks,
   width |-> 5, height |-> 3]

MCUsers == {Fast, Careful, Commanding, Sharing, Clearing, Watching}

ASSUME MCClocksAreReal == RealClocks

\* Characters already read, in the ring and in the local variables, are
\* dead: states that differ in them only are explored once.
View ==
  <<taskVars, kb_head, kb_tail, UnreadChars,
    g_state, g_have_e0, kpc, IF kpc = "advance" THEN c ELSE 0, IF kpc = "handle" THEN out ELSE 0,
    held, wire, displayVars, rtcVars, editVars, todo, user, writes>>
=============================================================================
