-------------------------------- MODULE Klog --------------------------------
(***************************************************************************)
(* The ring of recent lines of kernel/klog.c.                              *)
(*                                                                         *)
(* A line is a record of a level and a text that stands for the message.   *)
(* The kernel logs while it boots, with interrupts disabled; the shell     *)
(* shows the ring with the command dmesg-lite.  The variable logged is not *)
(* in the code: it keeps every line, as the serial port does.              *)
(***************************************************************************)
EXTENDS Integers, Sequences

CONSTANT KLOG_RING_LINES   \* 64 in the code

ASSUME KlogAssumption == KLOG_RING_LINES \in Nat \ {0}

VARIABLES g_ring, g_ring_head, g_ring_count, logged

klogVars == <<g_ring, g_ring_head, g_ring_count, logged>>

Slots == 0 .. KLOG_RING_LINES - 1

Info(text) == <<"INFO", text>>
Warn(text) == <<"WARN", text>>
Error(text) == <<"ERROR", text>>

EmptyLine == <<"", "">>

KlogInit ==
  /\ g_ring = [s \in Slots |-> EmptyLine]
  /\ g_ring_head = 0
  /\ g_ring_count = 0
  /\ logged = <<>>

\* Variant of CountAfter that counts on after the ring is full.
CountPast(count) == count + 1

\* How many lines the ring holds after one more.
CountAfter(count) == IF count < KLOG_RING_LINES THEN count + 1 ELSE count

\* ring_write_line: the head moves on, over the oldest line of a full ring.
ring_write_line(ring, line) ==
  [slots |-> [ring.slots EXCEPT ![ring.head] = line],
   head |-> (ring.head + 1) % KLOG_RING_LINES,
   count |-> CountAfter(ring.count)]

\* klog_line for each of the lines in turn.
klog_lines(lines) ==
  LET ring[n \in 0 .. Len(lines)] ==
        IF n = 0 THEN [slots |-> g_ring, head |-> g_ring_head, count |-> g_ring_count]
        ELSE ring_write_line(ring[n - 1], lines[n])
  IN  /\ g_ring' = ring[Len(lines)].slots
      /\ g_ring_head' = ring[Len(lines)].head
      /\ g_ring_count' = ring[Len(lines)].count
      /\ logged' = logged \o lines

\* What klog_dump_recent shows: all lines for a limit of 0 or one too large.
klog_dump_recent(limit) ==
  LET shown == IF limit = 0 \/ limit > g_ring_count THEN g_ring_count ELSE limit
      start == (g_ring_head + KLOG_RING_LINES - shown) % KLOG_RING_LINES
  IN  [k \in 1 .. shown |-> g_ring[(start + k - 1) % KLOG_RING_LINES]]

-----------------------------------------------------------------------------
(* Property. *)

\* Whatever limit dmesg-lite is given, klog_dump_recent shows that many of the last
\* lines logged, oldest first: none from before they were overwritten, none
\* twice and none missing while the ring holds it.
LogKeepsRecent ==
  \A limit \in 0 .. KLOG_RING_LINES + 1 :
    LET held == IF Len(logged) < KLOG_RING_LINES THEN Len(logged) ELSE KLOG_RING_LINES
        wanted == IF limit = 0 \/ limit > held THEN held ELSE limit
    IN  klog_dump_recent(limit) = SubSeq(logged, Len(logged) - wanted + 1, Len(logged))

-----------------------------------------------------------------------------
(* The invariant that is inductive for it: the k-th line from the end is   *)
(* k slots behind the head, around the end of the ring.                    *)

IsSeq(s) == Len(s) \in Nat /\ s = [i \in 1 .. Len(s) |-> s[i]]

\* The slot that lies back slots behind the head.
Behind(head, back) == IF back <= head THEN head - back ELSE head - back + KLOG_RING_LINES

Holds(ring, lines) ==
  /\ DOMAIN ring = {"slots", "head", "count"}
  /\ DOMAIN ring.slots = Slots /\ ring.head \in Slots
  /\ IsSeq(lines)
  /\ ring.count = IF Len(lines) < KLOG_RING_LINES THEN Len(lines) ELSE KLOG_RING_LINES
  /\ \A back \in 1 .. ring.count :
       ring.slots[Behind(ring.head, back)] = lines[Len(lines) + 1 - back]

KlogOK == Holds([slots |-> g_ring, head |-> g_ring_head, count |-> g_ring_count], logged)
=============================================================================
