------------------------------- MODULE Shell -------------------------------
(***************************************************************************)
(* kernel/shell.c on top of the keyboard, the display and the clock: the   *)
(* line editor, the history and the loop that reads commands.  What a key  *)
(* changes in the shell's own variables is one step, since nobody else     *)
(* reads them; the output it causes is queued in todo and printed item by  *)
(* item, because programs print too.                                       *)
(***************************************************************************)
EXTENDS Keyboard, Display, Rtc

CONSTANTS
  INPUT_MAX, HISTORY_MAX,
  CommandOf(_),    \* the command a line spells
  Users            \* ways to use the machine

ASSUME ShellAssumption ==
  /\ INPUT_MAX \in Nat \ {0, 1} /\ HISTORY_MAX \in Nat \ {0}
  /\ \A u \in Users :
       /\ DOMAIN u = {"keys", "extKeys", "commands", "ahead", "preempted", "program",
                      "writes", "clocks", "width", "height"}
       /\ u.keys \subseteq Keys /\ u.extKeys \subseteq ExtKeys
       /\ u.width \in Nat \ {0} /\ u.height \in Nat \ {0, 1}

VARIABLES
  input_buf, input_overflow,
  history, history_count, history_cursor,
  watch,     \* what run_watch_if_enabled prints: irq, sched
  todo,      \* output the shell has not printed yet
  user,      \* who uses the machine, and how
  recent,    \* auxiliary: the last HISTORY_MAX different commands entered
  writes     \* bound: writes the user program may still make

editVars == <<input_buf, input_overflow, history, history_count, history_cursor, watch, recent>>
allVars == <<vars, displayVars, rtcVars, editVars, todo, user, writes>>

-----------------------------------------------------------------------------
(* Output of the shell. *)

CLOCK == -3     \* rtc_read_datetime, as an item of output
TEXT == 46      \* stands for the text of a message
Line == <<TEXT, NEWLINE>>

print_prompt == <<CLOCK, PROMPT>>

\* print("\b \b") for every character of the line.
Erased(n) == [i \in 1 .. 3 * n |-> IF i % 3 = 2 THEN BLANK ELSE BACKSPACE]

\* Variant of clear_typed_line that stops one character early.
clear_but_one == Erased(IF input_buf = <<>> THEN 0 ELSE Len(input_buf) - 1)

clear_typed_line == Erased(Len(input_buf))

Prints(items) ==
  /\ todo' = items
  /\ kpc' = IF items = <<>> THEN "test" ELSE "output"

-----------------------------------------------------------------------------
(* The history. *)

EmptyHistory == [i \in 0 .. HISTORY_MAX - 1 |-> <<>>]

\* Variant of Oldest that trusts every index below history_count.
OldestEver == 0

Oldest == IF history_count > HISTORY_MAX THEN history_count - HISTORY_MAX ELSE 0

LastOf(cmds) == cmds[Len(cmds)]

\* An empty command, and one equal to the last one, are not kept.
Kept(cmd) ==
  /\ cmd # <<>>
  /\ history_count > 0 => history[(history_count - 1) % HISTORY_MAX] # cmd

history_push(cmd) ==
  IF ~Kept(cmd) THEN UNCHANGED <<history, history_count>>
  ELSE /\ history' = [history EXCEPT ![history_count % HISTORY_MAX] = cmd]
       /\ history_count' = history_count + 1

\* What the history is to be: a list of commands that drops its head.
Remember(cmd) ==
  recent' = IF cmd = <<>> \/ (recent # <<>> /\ LastOf(recent) = cmd) THEN recent
            ELSE LET all == Append(recent, cmd)
                 IN  IF Len(all) > HISTORY_MAX THEN Tail(all) ELSE all

history_apply(absolute_index) ==
  IF absolute_index < Oldest \/ absolute_index >= history_count
  THEN UNCHANGED input_buf /\ Prints(<<>>)
  ELSE LET entry == history[absolute_index % HISTORY_MAX]
       IN  /\ input_buf' = entry
           /\ Prints(clear_typed_line \o entry \o <<FLUSH>>)

Recalls ==
  UNCHANGED <<input_overflow, history, history_count, watch, recent>>

handle_history_up ==
  /\ out = KB_EVENT_UP
  /\ history_cursor' = CASE history_count <= 0 -> history_cursor
                         [] history_cursor < 0 -> history_count - 1
                         [] history_cursor = 0 -> 0
                         [] OTHER -> history_cursor - 1
  /\ IF history_count <= 0 THEN UNCHANGED input_buf /\ Prints(<<>>)
                           ELSE history_apply(history_cursor')
  /\ Recalls

handle_history_down ==
  /\ out = KB_EVENT_DOWN
  /\ IF history_count <= 0 \/ history_cursor < 0
     THEN UNCHANGED <<history_cursor, input_buf>> /\ Prints(<<>>)
     ELSE IF history_cursor + 1 >= history_count
     THEN /\ history_cursor' = -1
          /\ input_buf' = <<>>
          /\ Prints(clear_typed_line \o <<FLUSH>>)
     ELSE /\ history_cursor' = history_cursor + 1
          /\ history_apply(history_cursor')
  /\ Recalls

-----------------------------------------------------------------------------
(* The keys. *)

\* The commands about processes are in Process, shutdown is in IrqRouting:
\* here they are lines of output like the others.
CommandOutput(cmd) ==
  CASE cmd = "none" -> <<>>
    [] cmd = "clear" -> <<CLEAR>>
    [] cmd = "time" -> <<CLOCK>> \o Line
    [] OTHER -> Line

Toggled(S, e) == (S \ {e}) \cup ({e} \ S)

WatchAfter(cmd) ==
  CASE cmd = "watch irq" -> Toggled(watch, "irq")
    [] cmd = "watch sched" -> Toggled(watch, "sched")
    [] OTHER -> watch

run_watch_if_enabled(w) ==
  (IF "irq" \in w THEN Line ELSE <<>>) \o (IF "sched" \in w THEN Line ELSE <<>>)

\* The newline of the shell's loop, and process_command.
process_command ==
  /\ out \in {NEWLINE, RETURN}
  /\ LET cmd == CommandOf(input_buf)
     IN  /\ watch' = WatchAfter(cmd)
         /\ Prints(<<NEWLINE>> \o CommandOutput(cmd) \o run_watch_if_enabled(watch')
                     \o print_prompt \o <<FLUSH>>)
  /\ history_push(input_buf)
  /\ Remember(input_buf)
  /\ history_cursor' = -1
  /\ input_buf' = <<>>
  /\ input_overflow' = FALSE

EraseKey ==
  /\ out = BACKSPACE
  /\ IF input_buf = <<>> THEN UNCHANGED input_buf /\ Prints(<<>>)
     ELSE /\ input_buf' = SubSeq(input_buf, 1, Len(input_buf) - 1)
          /\ Prints(Erased(1) \o <<FLUSH>>)
  /\ UNCHANGED <<input_overflow, history, history_count, history_cursor, watch, recent>>

LineFull == Len(input_buf) >= INPUT_MAX - 1

Printable == 32 .. 126

CharKey ==
  /\ out \in Printable
  /\ input_buf' = IF LineFull THEN input_buf ELSE Append(input_buf, out)
  /\ input_overflow' = (input_overflow \/ LineFull)
  /\ Prints(CASE ~LineFull -> <<out, FLUSH>>
              [] LineFull /\ ~input_overflow ->
                   <<NEWLINE>> \o Line \o print_prompt \o input_buf \o <<FLUSH>>
              [] OTHER -> <<>>)
  /\ UNCHANGED <<history, history_count, history_cursor, watch, recent>>

\* The keyboard's maps have no other character.
KeyHandled ==
  \/ process_command \/ EraseKey \/ handle_history_up \/ handle_history_down \/ CharKey

HandleKey ==
  /\ InShell /\ kpc = "handle"
  /\ KeyHandled
  /\ UNCHANGED <<taskVars, ringVars, deviceVars, c, out, displayVars, rtcVars, user, writes>>

-----------------------------------------------------------------------------
(* Printing. *)

\* A user program is left that may use the display at any time.
ProgramsPrint == \E i \in Tids : tasks[i].is_user /\ Alive(tasks[i])

Done(rest) ==
  /\ todo' = rest
  /\ kpc' = IF rest = <<>> THEN "test" ELSE "output"

\* The items in front of the next reading of the clock.
UpToClock ==
  LET clocks == {i \in DOMAIN todo : todo[i] = CLOCK}
  IN  IF clocks = {} THEN Len(todo) ELSE Least(clocks) - 1

\* Nobody else uses the display: what the shell prints is printed at once.
PrintAlone ==
  /\ InShell /\ kpc = "output" /\ Head(todo) # CLOCK
  /\ ppc = "start" /\ ~ProgramsPrint
  /\ d' = print(d, SubSeq(todo, 1, UpToClock))
  /\ Done(SubSeq(todo, UpToClock + 1, Len(todo)))
  /\ UNCHANGED <<ppc, reg, rtcVars>>

\* A step of the item being printed.
PrintStep ==
  /\ InShell /\ kpc = "output" /\ Head(todo) # CLOCK
  /\ ppc # "start" \/ ProgramsPrint
  /\ Step(Head(todo))
  /\ IF ppc' = "start" THEN Done(Tail(todo)) ELSE UNCHANGED <<todo, kpc>>
  /\ UNCHANGED rtcVars

\* Where no clock is given none turns during the call, and the first two
\* readings agree.
ReadClock ==
  /\ InShell /\ kpc = "output" /\ Head(todo) = CLOCK
  /\ \/ user.clocks = {} /\ Done(Tail(todo)) /\ UNCHANGED rtcVars
     \/ (StartRead(user.clocks) \/ WaitForClock \/ ReadRegister) /\ UNCHANGED <<todo, kpc>>
     \/ EndRead /\ Done(Tail(todo))
  /\ UNCHANGED displayVars

Output ==
  /\ PrintAlone \/ PrintStep \/ ReadClock
  /\ UNCHANGED <<taskVars, ringVars, deviceVars, c, out, editVars, user, writes>>

-----------------------------------------------------------------------------
(* The others: interrupts, the clock and the user program. *)

ShellSame == UNCHANGED <<editVars, todo, user>>

\* Bound: user.commands commands in the history.
UserKeys == IF history_count < user.commands THEN user.keys
            ELSE {k \in user.keys : scancode_map[k] # NEWLINE}

\* A user who does not type ahead waits until the shell sleeps.
UserTypes ==
  /\ user.ahead \/ (Unread = 0 /\ tasks[SHELL].state = "WAITING")
  /\ KeyInterrupt(UserKeys, user.extKeys)
  /\ ShellSame /\ UNCHANGED <<displayVars, rtcVars, writes>>

ShellGetsChar ==
  /\ Getchar \/ Sleep
  /\ ShellSame /\ UNCHANGED <<displayVars, rtcVars, writes>>

Tick ==
  /\ user.preempted \/ ~InShell
  /\ TimerInterrupt
  /\ ShellSame /\ UNCHANGED <<displayVars, rtcVars, writes>>

ClockRuns ==
  /\ ClockUpdates
  /\ UNCHANGED <<taskVars, ringVars, deviceVars, shellVars, displayVars, writes>>
  /\ ShellSame

\* What another task prints leaves the prompt's row to nobody.
Foreign(s) == [s EXCEPT !.mark = NoMark]

\* sys_write prints and flushes.
sys_write ==
  /\ InUser /\ writes > 0
  /\ \E text \in {<<TEXT>>, Line} : d' = Foreign(print(d, text \o <<FLUSH>>))
  /\ writes' = writes - 1
  /\ UNCHANGED <<taskVars, ringVars, deviceVars, shellVars, ppc, reg, rtcVars>>
  /\ ShellSame

\* sys_exit prints its line and does not flush.
sys_exit ==
  /\ syscall_exit
  /\ d' = Foreign(print(d, Line))
  /\ UNCHANGED <<ringVars, deviceVars, shellVars, ppc, reg, rtcVars, writes>>
  /\ ShellSame

-----------------------------------------------------------------------------

\* kernel_main has created the tasks, cleared the screen and printed its
\* line; the shell starts with a prompt.
ShellInit ==
  /\ user \in Users
  /\ tasks = [i \in Tids |->
                CASE i \in {SHELL, IDLE} -> KernelTask
                  [] i \notin {SHELL, IDLE} /\ user.program ->
                       UserTask(CHOOSE p \in Pids : TRUE, CHOOSE a \in AddressSpaces : TRUE)
                  [] OTHER -> NewTask]
  /\ current_tid = -1 /\ slice_ticks = 0 /\ cr3 = kernel_address_space /\ new_slot = -1
  /\ KeyboardInit
  /\ kpc = "output" /\ todo = print_prompt \o <<FLUSH>>
  /\ d = print(display_init(user.width, user.height), <<CLEAR>> \o Line \o <<FLUSH>>)
  /\ ppc = "start" /\ reg = 0
  /\ RtcInit
  /\ input_buf = <<>> /\ input_overflow = FALSE
  /\ history = EmptyHistory /\ history_count = 0 /\ history_cursor = -1
  /\ watch = {} /\ recent = <<>>
  /\ writes = user.writes

ShellNext ==
  \/ UserTypes \/ ShellGetsChar \/ HandleKey \/ Output
  \/ Tick \/ ClockRuns \/ sys_write \/ sys_exit

ShellSpec == ShellInit /\ [][ShellNext]_allVars

-----------------------------------------------------------------------------
(* Properties. *)

\* The framebuffer shows the line as the shell has it: whenever the shell is
\* not printing, the row of the prompt shows the prompt and the characters of
\* input_buf, the cursor stands behind them, and no erased character is left
\* there if only the shell prints.  Editing, recalls and the message about a
\* full buffer keep it so; another task's output ends it, whatever it hits in
\* the middle of print_char or display_flush, and the next prompt restores it.
EchoMatches ==
  kpc # "output" /\ d.mark # NoMark =>
    LET text == <<PROMPT>> \o input_buf
    IN  /\ d.x = d.mark + Len(text)
        /\ \A i \in 1 .. Len(text) : d.fb[d.y][d.mark + i - 1] = text[i]
        /\ user.program \/ \A x \in d.x .. d.w - 1 : d.fb[d.y][x] = BLANK

\* Up and Down put the command into the line that was entered that many
\* commands ago, and leave the line alone where the history no longer has
\* it: the ring never shows an overwritten entry under an old index.
RecallIsExact ==
  [][kpc = "handle" /\ kpc' # "handle"
       /\ out \in {KB_EVENT_UP, KB_EVENT_DOWN} /\ history_cursor' >= 0 =>
       LET back == history_count - history_cursor'
       IN  input_buf' = IF back \in 1 .. Len(recent)
                        THEN recent[Len(recent) + 1 - back] ELSE input_buf]_allVars

\* The cursor's row is on the screen at every moment, though a task may print
\* between the shell's load and its store of cursor_y, and when the shell is
\* done there is a free row under it, as print_char promises to itself.
CursorOnScreen ==
  /\ d.y \in AllRows(d)
  /\ kpc # "output" => d.y + 1 < d.h

-----------------------------------------------------------------------------
(* The invariant that is inductive for the history: the ring holds the last *)
(* HISTORY_MAX different commands, each under its index modulo HISTORY_MAX. *)

Lines == Seq(Printable)

HistoryOK ==
  /\ input_buf \in Lines
  /\ history \in [0 .. HISTORY_MAX - 1 -> Lines]
  /\ history_count \in Nat /\ history_cursor \in Int
  /\ recent \in Seq(Lines)
  /\ Len(recent) = IF history_count < HISTORY_MAX THEN history_count ELSE HISTORY_MAX
  /\ \A back \in 1 .. Len(recent) :
       recent[Len(recent) + 1 - back] = history[(history_count - back) % HISTORY_MAX]

-----------------------------------------------------------------------------
(* The invariants behind the properties of the display and the clock.      *)

\* With RowOK of the display: what is left to print, and no item is begun
\* between two outputs.
ScreenOK ==
  /\ todo \in Seq(Int)
  /\ kpc = "output" => todo # <<>>
  /\ kpc # "output" \/ Head(todo) = CLOCK => ppc = "start"
  /\ RowOK

\* The clocks that users have are clocks for which ClockNotTorn is meant.
RealClocks == \A u \in Users : \A k \in u.clocks : RealClock(k)
=============================================================================
