------------------------------ MODULE Keyboard ------------------------------
(***************************************************************************)
(* kernel/keyboard.c and the input loop of the shell: the interrupt        *)
(* handler that decodes scancodes and fills the ring buffer, and the shell *)
(* that empties it and sleeps.  The handler is atomic; the shell is        *)
(* preemptible between any two steps of kb_getchar and before it sleeps.   *)
(***************************************************************************)
EXTENDS Task, Sequences

CONSTANTS
  KB_BUF_SIZE,
  Keys,                 \* scancodes of the keys on the keyboard
  ExtKeys,              \* second scancodes of the keys with an E0 prefix
  scancode_map,         \* characters of the keys, 0 where a key has none
  scancode_map_shift

\* No key has the code 96, whose release code would be the prefix E0.
ASSUME KeyboardAssumption ==
  /\ KB_BUF_SIZE \in 2 .. 255
  /\ Keys \cup ExtKeys \subseteq (0 .. 127) \ {96}

VARIABLES
  kb_buf, kb_head, kb_tail,
  g_state,      \* the shift keys believed to be down
  g_have_e0,    \* the last scancode was the prefix E0
  kpc,          \* next step of the shell: test, read, advance, handle or sleep
  c,            \* the local variable of kb_getchar
  out,          \* the last character kb_getchar returned, 0 at first
  held, wire    \* the device: shift keys held, second byte of a prefixed code

ringVars == <<kb_buf, kb_head, kb_tail>>
shellVars == <<kpc, c, out>>
vars == <<taskVars, ringVars, g_state, g_have_e0, shellVars, held, wire>>

-----------------------------------------------------------------------------
(* The interrupt handler. *)

E0 == 224
LEFT_SHIFT == 42
RIGHT_SHIFT == 54
UP == 72
DOWN == 80
KB_EVENT_UP == 17
KB_EVENT_DOWN == 18

translate_scancode(key, shift) ==
  IF shift # {} THEN scancode_map_shift[key] ELSE scancode_map[key]

NextIndex(i) == (i + 1) % KB_BUF_SIZE

\* Variant of kb_push that overwrites when the buffer is full.
kb_push_always(ch) ==
  /\ kb_buf' = [kb_buf EXCEPT ![kb_head] = ch]
  /\ kb_head' = NextIndex(kb_head)
  /\ UNCHANGED kb_tail
  /\ task_wake(SHELL) \/ (tasks[SHELL].state # "WAITING" /\ UNCHANGED taskVars)

\* kb_push: a full buffer drops the character and wakes nobody.
kb_push(ch) ==
  IF NextIndex(kb_head) = kb_tail
  THEN UNCHANGED <<taskVars, ringVars>>
  ELSE /\ kb_buf' = [kb_buf EXCEPT ![kb_head] = ch]
       /\ kb_head' = NextIndex(kb_head)
       /\ UNCHANGED kb_tail
       /\ task_wake(SHELL) \/ (tasks[SHELL].state # "WAITING" /\ UNCHANGED taskVars)

NoPush == UNCHANGED <<taskVars, ringVars>>

PrefixByte ==
  /\ g_have_e0' = TRUE
  /\ NoPush
  /\ UNCHANGED g_state

\* Variant of PrefixedByte that takes a prefixed shift code for a shift key.
PrefixedByteShifts(scancode) ==
  /\ g_have_e0' = FALSE
  /\ NoPush
  /\ g_state' = CASE scancode \in {LEFT_SHIFT, RIGHT_SHIFT} -> g_state \cup {scancode}
                  [] scancode >= 128 -> g_state \ {scancode - 128}
                  [] OTHER -> g_state

PrefixedByte(scancode) ==
  /\ g_have_e0' = FALSE
  /\ CASE scancode = UP -> kb_push(KB_EVENT_UP)
       [] scancode = DOWN -> kb_push(KB_EVENT_DOWN)
       [] OTHER -> NoPush
  /\ UNCHANGED g_state

PlainByte(scancode) ==
  LET key == scancode % 128
      released == scancode >= 128
  IN  /\ g_state' = IF key \notin {LEFT_SHIFT, RIGHT_SHIFT} THEN g_state
                    ELSE IF released THEN g_state \ {key} ELSE g_state \cup {key}
      /\ IF released \/ translate_scancode(key, g_state') = 0
         THEN NoPush ELSE kb_push(translate_scancode(key, g_state'))
      /\ UNCHANGED g_have_e0

keyboard_handler(scancode) ==
  IF scancode = E0 THEN PrefixByte
  ELSE IF g_have_e0 THEN PrefixedByte(scancode)
  ELSE PlainByte(scancode)

\* The device: a key sends its code when pressed, also repeatedly, and the
\* code with bit 7 set when released.  Some keys have prefixed codes, and so
\* have the shift codes the device inserts around an arrow key.
PlainKey(keys) ==
  /\ wire = <<>>
  /\ \E k \in keys :
       \/ keyboard_handler(k) /\ held' = held \cup ({k} \cap {LEFT_SHIFT, RIGHT_SHIFT})
       \/ /\ k \in {LEFT_SHIFT, RIGHT_SHIFT} => k \in held
          /\ keyboard_handler(k + 128)
          /\ held' = held \ {k}
  /\ UNCHANGED wire

ExtendedKey(keys) ==
  /\ UNCHANGED held
  /\ \/ /\ wire = <<>>
        /\ keyboard_handler(E0)
        /\ \E k \in keys : wire' = <<k>> \/ wire' = <<k + 128>>
     \/ /\ wire # <<>>
        /\ keyboard_handler(Head(wire))
        /\ wire' = <<>>

\* The user presses and releases some of the given keys.
KeyInterrupt(keys, extKeys) ==
  (PlainKey(keys) \/ ExtendedKey(extKeys)) /\ UNCHANGED shellVars

-----------------------------------------------------------------------------
(* The shell. *)

deviceVars == <<g_state, g_have_e0, held, wire>>

\* kb_getchar: the buffer is tested, ...
GetcharTest ==
  /\ InShell /\ kpc = "test"
  /\ kpc' = IF kb_head = kb_tail THEN "sleep" ELSE "read"
  /\ UNCHANGED <<taskVars, ringVars, deviceVars, c, out>>

\* ... the character read ...
GetcharRead ==
  /\ InShell /\ kpc = "read"
  /\ c' = kb_buf[kb_tail]
  /\ kpc' = "advance"
  /\ UNCHANGED <<taskVars, ringVars, deviceVars, out>>

\* ... and its place released: the shell has a character to handle.
GetcharAdvance ==
  /\ InShell /\ kpc = "advance"
  /\ kb_tail' = NextIndex(kb_tail)
  /\ out' = c
  /\ kpc' = "handle"
  /\ UNCHANGED <<taskVars, kb_buf, kb_head, deviceVars, c>>

\* What the shell does with the character is not looked at here.
Handle ==
  /\ InShell /\ kpc = "handle"
  /\ kpc' = "test"
  /\ UNCHANGED <<taskVars, ringVars, deviceVars, c, out>>

\* The loop of shell_task found no character: task_sleep.
Sleep ==
  /\ kpc = "sleep"
  /\ task_sleep
  /\ kpc' = "test"
  /\ UNCHANGED <<ringVars, deviceVars, c, out>>

TimerInterrupt ==
  /\ timer_tick \/ schedule
  /\ UNCHANGED <<ringVars, deviceVars, shellVars>>

KeyboardInit ==
  /\ kb_buf = [i \in 0 .. KB_BUF_SIZE - 1 |-> 0] /\ kb_head = 0 /\ kb_tail = 0
  /\ g_state = {} /\ g_have_e0 = FALSE
  /\ c = 0 /\ out = 0
  /\ held = {} /\ wire = <<>>

KbInit == Init /\ KeyboardInit /\ kpc = "sleep"

Getchar == GetcharTest \/ GetcharRead \/ GetcharAdvance

ShellStep == Getchar \/ Handle \/ Sleep

KbNext == KeyInterrupt(Keys, ExtKeys) \/ ShellStep \/ TimerInterrupt

KbSpec == KbInit /\ [][KbNext]_vars

\* The timer keeps ticking, and the shell advances if it keeps getting the
\* CPU.  Nobody has to type.
FairKbSpec == KbSpec /\ WF_vars(TimerInterrupt) /\ SF_vars(ShellStep)

-----------------------------------------------------------------------------
(* Properties. *)

Chars ==
  {ch \in {scancode_map[k] : k \in Keys} \cup {scancode_map_shift[k] : k \in Keys}
            \cup {KB_EVENT_UP, KB_EVENT_DOWN} : ch # 0}

Unread == (kb_head + KB_BUF_SIZE - kb_tail) % KB_BUF_SIZE

UnreadChars == [i \in 1 .. Unread |-> kb_buf[(kb_tail + i - 1) % KB_BUF_SIZE]]

\* The ring implements the queue: with interrupts between any two steps of
\* kb_getchar no character is lost, duplicated, reordered or overwritten,
\* but for those typed while the buffer holds KB_BUF_SIZE - 1.
Queue == INSTANCE KbQueue WITH
  Capacity <- KB_BUF_SIZE - 1,
  queue <- UnreadChars

QueueSpec == Queue!Spec

\* The handler's shift state is that of the keys, also across the shift codes
\* that extended keys send with a prefix.
ShiftTracksKeys == g_state = held \cap {LEFT_SHIFT, RIGHT_SHIFT}

\* HARDWARE_NOTES.md: "shell input works".  What was typed is read.
InputIsRead == Unread > 0 ~> kpc = "advance"

-----------------------------------------------------------------------------
(* The invariant that is inductive for KbNext. *)

Indices == 0 .. KB_BUF_SIZE - 1

\* Between the steps of kb_getchar the handler may add characters, but the
\* one that is being read stays where it is.
RingOK ==
  /\ kb_buf \in [Indices -> Chars \cup {0}]
  /\ kb_head \in Indices /\ kb_tail \in Indices
  /\ kpc \in {"read", "advance"} => kb_head # kb_tail
  /\ kpc = "advance" => c = kb_buf[kb_tail]

\* The handler expects a second byte exactly when the device will send one.
PrefixOK ==
  /\ g_have_e0 \in BOOLEAN
  /\ g_have_e0 <=> wire # <<>>
  /\ wire = <<>> \/ \E k \in ExtKeys : wire \in {<<k>>, <<k + 128>>}

KbInv == RingOK /\ PrefixOK /\ ShiftTracksKeys
=============================================================================
