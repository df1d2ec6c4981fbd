------------------------------ MODULE Display ------------------------------
(***************************************************************************)
(* kernel/display.c once it has its shadow buffer: text is drawn into the  *)
(* shadow, the rows touched are marked, and display_flush copies them to   *)
(* the framebuffer.  Positions count characters (8 by 10 pixels), and a    *)
(* column is kept modulo 2^32 pixels as the unsigned cursor_x is.          *)
(*                                                                         *)
(* A system call prints with interrupts off: the operators on a display.   *)
(* The shell may lose the CPU between any load and store of the cursor:    *)
(* the steps at the end, with reg the register in use.                     *)
(***************************************************************************)
EXTENDS Integers, Sequences

VARIABLES
  d,     \* the static variables of display.c, and the two buffers
  ppc,   \* next step of the shell inside print_char or display_flush
  reg    \* the value the shell has loaded

displayVars == <<d, ppc, reg>>

NEWLINE == 10
RETURN == 13
BACKSPACE == 8
BLANK == 32
PROMPT == 62        \* stands for the whole prompt, "[time] sam> "
FLUSH == -1         \* display_flush and display_clear as items of output
CLEAR == -2
Columns == 536870912   \* 2^32 pixels
NoMark == -1

-----------------------------------------------------------------------------
(* Operators on a display s.  s.mark is auxiliary: the column of the last  *)
(* prompt, as long as the cursor has not left its row.                     *)

BlankRow(s) == [x \in 0 .. s.w - 1 |-> BLANK]

BlankScreen(s) == [y \in 0 .. s.h - 1 |-> BlankRow(s)]

AllRows(s) == 0 .. s.h - 1

\* put_pixel drops what lies outside the screen.
draw_char(s, ch, x, y) ==
  IF x < s.w /\ y < s.h
  THEN [s EXCEPT !.shadow[y][x] = ch, !.dirty_rows = @ \cup {y}, !.dirty = TRUE]
  ELSE s

\* Variant of AtBottom that uses the last row too.
BelowBottom(s) == s.y + 1 > s.h

AtBottom(s) == s.y + 1 >= s.h

AtEdge(s) == (s.x + 1) % Columns >= s.w

MoveUp(s) ==
  [s EXCEPT !.shadow = [y \in AllRows(s) |->
                          IF y + 1 \in AllRows(s) THEN s.shadow[y + 1] ELSE BlankRow(s)]]

SetRow(s, y) == [s EXCEPT !.y = y, !.mark = NoMark]

MarkAll(s) == [s EXCEPT !.dirty_rows = AllRows(s), !.dirty = TRUE]

scroll(s) == MarkAll(SetRow(MoveUp(s), s.y - 1))

NewLine(s) ==
  LET next == [SetRow(s, s.y + 1) EXCEPT !.x = 0]
  IN  IF AtBottom(next) THEN scroll(next) ELSE next

EraseLeft(s) ==
  LET back == IF s.x >= 1 THEN [s EXCEPT !.x = @ - 1]
              ELSE [SetRow(s, s.y - 1) EXCEPT !.x = s.w - 1]
  IN  IF s.x = 0 /\ s.y = 0 THEN s ELSE draw_char(back, BLANK, back.x, back.y)

Marked(s, ch) == IF ch = PROMPT THEN [s EXCEPT !.mark = s.x] ELSE s

PutChar(s, ch) ==
  LET next == [draw_char(Marked(s, ch), ch, s.x, s.y) EXCEPT !.x = (@ + 1) % Columns]
  IN  IF AtEdge(next) THEN NewLine(next) ELSE next

print_char(s, ch) ==
  CASE ch = NEWLINE -> NewLine(s)
    [] ch = RETURN -> [s EXCEPT !.x = 0]
    [] ch = BACKSPACE -> EraseLeft(s)
    [] OTHER -> PutChar(s, ch)

display_flush(s) ==
  IF ~s.dirty THEN s
  ELSE [s EXCEPT !.fb = [y \in AllRows(s) |->
                           IF y \in s.dirty_rows THEN s.shadow[y] ELSE @[y]],
                 !.dirty_rows = {}, !.dirty = FALSE]

display_clear(s) ==
  MarkAll([SetRow(s, 0) EXCEPT !.shadow = BlankScreen(s), !.x = 0])

\* An item of output: a character, or one of the two calls.
Show(s, item) ==
  CASE item = FLUSH -> display_flush(s)
    [] item = CLEAR -> display_clear(s)
    [] OTHER -> print_char(s, item)

\* The items one after the other.
print(s, items) ==
  LET shown[n \in 0 .. Len(items)] ==
        IF n = 0 THEN s ELSE Show(shown[n - 1], items[n])
  IN  shown[Len(items)]

\* The screen as display_init leaves it.
display_init(width, height) ==
  LET s == [w |-> width, h |-> height]
  IN  [w |-> width, h |-> height, x |-> 0, y |-> 0,
       shadow |-> BlankScreen(s), fb |-> BlankScreen(s),
       dirty |-> FALSE, dirty_rows |-> {}, mark |-> NoMark]

-----------------------------------------------------------------------------
(* The steps of the shell.  ppc = "start" outside print_char, and the item *)
(* is done when it is "start" again.  Moving the picture of a scroll and   *)
(* drawing one character are single steps: what the interruption of those  *)
(* leaves is a mixture of two outputs on the screen either way.  The shell *)
(* prints no RETURN.                                                       *)

To(pc) == ppc' = pc

Load(value) == reg' = value /\ UNCHANGED d

\* Stores need no register afterwards.
Store(s) == d' = s /\ reg' = 0

Draw(ch) ==
  /\ ppc = "start" /\ ch \notin {NEWLINE, BACKSPACE, FLUSH, CLEAR}
  /\ Store(draw_char(Marked(d, ch), ch, d.x, d.y))
  /\ To("load_x")

AdvanceColumn ==
  \/ ppc = "load_x" /\ Load(d.x) /\ To("store_x")
  \/ ppc = "store_x" /\ Store([d EXCEPT !.x = (reg + 1) % Columns]) /\ To("edge")
  \/ /\ ppc = "edge"
     /\ IF AtEdge(d) THEN Store([d EXCEPT !.x = 0]) /\ To("load_y")
                     ELSE Store(d) /\ To("start")

StartLine(ch) ==
  ppc = "start" /\ ch = NEWLINE /\ Store([d EXCEPT !.x = 0]) /\ To("load_y")

AdvanceRow ==
  \/ ppc = "load_y" /\ Load(d.y) /\ To("store_y")
  \/ ppc = "store_y" /\ Store(SetRow(d, reg + 1)) /\ To("bottom")
  \/ ppc = "bottom" /\ Store(d) /\ To(IF AtBottom(d) THEN "scroll" ELSE "start")
  \/ ppc = "scroll" /\ Store(MoveUp(d)) /\ To("load_row")
  \/ ppc = "load_row" /\ Load(d.y) /\ To("store_row")
  \/ ppc = "store_row" /\ Store(SetRow(d, reg - 1)) /\ To("mark_all")
  \/ ppc = "mark_all" /\ Store(MarkAll(d)) /\ To("start")

Erase(ch) ==
  \/ /\ ppc = "start" /\ ch = BACKSPACE
     /\ Store(d)
     /\ To(IF d.x >= 1 THEN "load_left" ELSE IF d.y >= 1 THEN "load_up" ELSE "start")
  \/ ppc = "load_left" /\ Load(d.x) /\ To("store_left")
  \/ ppc = "store_left" /\ Store([d EXCEPT !.x = (reg - 1) % Columns]) /\ To("blank")
  \/ ppc = "load_up" /\ Load(d.y) /\ To("store_up")
  \/ ppc = "store_up" /\ Store(SetRow(d, reg - 1)) /\ To("right")
  \/ ppc = "right" /\ Store([d EXCEPT !.x = d.w - 1]) /\ To("blank")
  \/ ppc = "blank" /\ Store(draw_char(d, BLANK, d.x, d.y)) /\ To("start")

\* display_flush: reg is the row.
Flush(item) ==
  \/ ppc = "start" /\ item = FLUSH /\ Load(0) /\ To(IF d.dirty THEN "copy" ELSE "start")
  \/ /\ ppc = "copy"
     /\ CASE reg = d.h -> Store([d EXCEPT !.dirty = FALSE]) /\ To("start")
          [] reg \in d.dirty_rows -> /\ d' = [d EXCEPT !.fb[reg] = d.shadow[reg]]
                                     /\ To("clean") /\ UNCHANGED reg
          [] OTHER -> Load(reg + 1) /\ To("copy")
  \/ /\ ppc = "clean"
     /\ d' = [d EXCEPT !.dirty_rows = @ \ {reg}]
     /\ reg' = reg + 1
     /\ To("copy")

Clear(item) ==
  \/ /\ ppc = "start" /\ item = CLEAR
     /\ Store(MarkAll([d EXCEPT !.shadow = BlankScreen(d)]))
     /\ To("home_x")
  \/ ppc = "home_x" /\ Store([d EXCEPT !.x = 0]) /\ To("home_y")
  \/ ppc = "home_y" /\ Store(SetRow(d, 0)) /\ To("start")

Step(item) ==
  \/ Draw(item) \/ AdvanceColumn \/ StartLine(item) \/ AdvanceRow
  \/ Erase(item) \/ Flush(item) \/ Clear(item)

-----------------------------------------------------------------------------
(* The invariant that is inductive for the cursor: where the shell may be  *)
(* inside print_char, and what it may have loaded, as the row of the       *)
(* cursor has it.                                                          *)

Fields == {"w", "h", "x", "y", "shadow", "fb", "dirty", "dirty_rows", "mark"}

\* A display whose cursor is in the rows lo to hi.
RowIn(s, lo, hi) ==
  /\ DOMAIN s = Fields
  /\ s.w \in Nat \ {0} /\ s.h \in Nat \ {0, 1} /\ s.x \in Nat
  /\ s.y \in lo .. hi

RowOK ==
  /\ reg \in Int
  /\ RowIn(d, 0, d.h - 1)
  /\ ppc \notin {"bottom", "scroll", "load_row", "store_row"} => d.y <= d.h - 2
  /\ ppc \in {"scroll", "load_row"} => d.y = d.h - 1
  /\ ppc = "store_row" => reg = d.h - 1
  /\ ppc = "store_y" => reg \in 0 .. d.h - 2
  /\ ppc = "load_up" => d.y >= 1
  /\ ppc = "store_up" => reg \in 1 .. d.h - 2
=============================================================================
