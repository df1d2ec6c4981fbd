-------------------------------- MODULE Rtc --------------------------------
(***************************************************************************)
(* kernel/rtc.c: reading the CMOS clock, a register at a time, while the   *)
(* clock goes on.  The shell reads it for every prompt, and may lose the   *)
(* CPU between two registers.                                              *)
(***************************************************************************)
EXTENDS Integers, Sequences

VARIABLES
  clock,      \* the device during a call, NoClock outside
  rpc,        \* next step of rtc_read_datetime: idle, wait or read
  prev, cur,  \* the registers of the last reading and of this one
  stamp       \* the time returned, NoTime before

rtcVars == <<clock, rpc, prev, cur, stamp>>

NoClock == <<>>
NoTime == <<>>

\* A time is a tuple in the order in which the registers are read.
SECOND == 1
MINUTE == 2
HOUR == 3
DAY == 4
MONTH == 5
YEAR == 6

-----------------------------------------------------------------------------
(* The device.  times are the times it shows one after the other, bcd and  *)
(* h24 its mode (register B).  In an update a register may have either     *)
(* value.                                                                  *)

Coded(v) == IF clock.bcd THEN 16 * (v \div 10) + (v % 10) ELSE v

Register(field, v) ==
  CASE field = HOUR /\ ~clock.h24 ->
         Coded(IF v % 12 = 0 THEN 12 ELSE v % 12) + (IF v >= 12 THEN 128 ELSE 0)
    [] field = YEAR -> Coded(v % 100)
    [] OTHER -> Coded(v)

cmos_read(field) ==
  {Register(field, clock.times[i][field]) :
     i \in clock.now .. (IF clock.updating THEN clock.now + 1 ELSE clock.now)}

ClockUpdates ==
  /\ clock # NoClock
  /\ \/ /\ ~clock.updating /\ clock.now < Len(clock.times)
        /\ clock' = [clock EXCEPT !.updating = TRUE]
     \/ /\ clock.updating
        /\ clock' = [clock EXCEPT !.updating = FALSE, !.now = @ + 1]
  /\ UNCHANGED <<rpc, prev, cur, stamp>>

-----------------------------------------------------------------------------
(* The driver. *)

bcd_to_bin(v) == (v % 16) + (v \div 16) * 10

decode_hour(raw, is_bcd, is_24h) ==
  LET pm == raw >= 128
      hour == IF is_bcd THEN bcd_to_bin(raw % 128) ELSE raw % 128
  IN  CASE ~is_24h /\ pm /\ hour < 12 -> hour + 12
        [] ~is_24h /\ ~pm /\ hour = 12 -> 0
        [] OTHER -> hour

Decoded(regs) ==
  LET bin(v) == IF clock.bcd THEN bcd_to_bin(v) ELSE v
  IN  [i \in SECOND .. YEAR |->
         CASE i = HOUR -> decode_hour(regs[HOUR], clock.bcd, clock.h24)
           [] i = YEAR -> 2000 + (bin(regs[YEAR]) % 100)
           [] OTHER -> bin(regs[i])]

\* rtc_read_datetime is called: the device is in any of the given states.
StartRead(clocks) ==
  /\ rpc = "idle" /\ stamp = NoTime
  /\ \E k \in clocks :
       clock' = [times |-> k.times, bcd |-> k.bcd, h24 |-> k.h24, now |-> 1, updating |-> k.updating]
  /\ rpc' = "wait"
  /\ UNCHANGED <<prev, cur, stamp>>

\* while (rtc_is_updating()) {}
WaitForClock ==
  /\ rpc = "wait"
  /\ ~clock.updating
  /\ rpc' = "read"
  /\ cur' = <<>>
  /\ UNCHANGED <<clock, prev, stamp>>

\* Variant of Agree that accepts the first reading.
AgreeAtOnce(a, b) == TRUE

\* dt_equal
Agree(a, b) == a = b

\* rtc_read_raw, one register; after the last one the readings are compared.
ReadRegister ==
  /\ rpc = "read"
  /\ \E v \in cmos_read(Len(cur) + 1) : cur' = Append(cur, v)
  /\ CASE Len(cur') < YEAR -> UNCHANGED <<rpc, prev, stamp>>
       [] Len(cur') = YEAR /\ Agree(prev, cur') ->
            /\ stamp' = Decoded(cur')
            /\ rpc' = "idle"
            /\ UNCHANGED prev
       [] OTHER -> prev' = cur' /\ rpc' = "wait" /\ UNCHANGED stamp
  /\ UNCHANGED clock

\* The caller has the time.
EndRead ==
  /\ stamp # NoTime
  /\ clock' = NoClock /\ rpc' = "idle" /\ prev' = <<>> /\ cur' = <<>> /\ stamp' = NoTime

RtcInit ==
  clock = NoClock /\ rpc = "idle" /\ prev = <<>> /\ cur = <<>> /\ stamp = NoTime

-----------------------------------------------------------------------------
(* Property. *)

\* The time rtc_read_datetime returns is one the clock showed during the
\* call, never seconds from before an update and minutes from after it,
\* wherever the reader is preempted and in every mode of the clock.
ClockNotTorn ==
  stamp # NoTime =>
    \E i \in 1 .. clock.now : \A f \in SECOND .. YEAR : stamp[f] = clock.times[i][f]

-----------------------------------------------------------------------------
(* The invariant that is inductive for it, and the clocks for which it is. *)

IsTime(t) ==
  /\ DOMAIN t = SECOND .. YEAR
  /\ t[SECOND] \in 0 .. 59 /\ t[MINUTE] \in 0 .. 59 /\ t[HOUR] \in 0 .. 23
  /\ t[DAY] \in 1 .. 31 /\ t[MONTH] \in 1 .. 12 /\ t[YEAR] \in 2000 .. 2099

\* The clock is not read for a whole minute: no second shows twice, and no
\* other field comes back to a value that it has left.
Steady(times) ==
  /\ Len(times) \in Nat \ {0}
  /\ \A i \in 1 .. Len(times) : IsTime(times[i])
  /\ \A i, j \in 1 .. Len(times) : times[i][SECOND] = times[j][SECOND] => i = j
  /\ \A i, j \in 1 .. Len(times) : \A k \in i .. j : \A f \in MINUTE .. YEAR :
       times[i][f] = times[j][f] => times[k][f] = times[i][f]

RealClock(k) ==
  /\ k.bcd \in BOOLEAN /\ k.h24 \in BOOLEAN /\ k.updating \in BOOLEAN
  /\ Steady(k.times)
  /\ k.updating => Len(k.times) > 1

\* The last time a register may show now.
Latest == IF clock.updating THEN clock.now + 1 ELSE clock.now

\* The first n registers have been read while the times lo to hi were shown.
ReadIn(regs, n, lo, hi) ==
  \A f \in 1 .. n : \E i \in lo .. hi : regs[f] = Register(f, clock.times[i][f])

ClockOK ==
  /\ DOMAIN clock = {"times", "bcd", "h24", "now", "updating"}
  /\ clock.bcd \in BOOLEAN /\ clock.h24 \in BOOLEAN /\ clock.updating \in BOOLEAN
  /\ Steady(clock.times)
  /\ clock.now \in 1 .. Len(clock.times) /\ Latest <= Len(clock.times)

\* There is no earlier reading, or all its registers are there.
PrevOK == stamp = NoTime /\ prev \in Seq(Int) /\ Len(prev) \in {0, YEAR}

\* A reading is over before the next one starts.
RtcInv ==
  \/ clock = NoClock /\ rpc = "idle" /\ prev = <<>> /\ stamp = NoTime
  \/ /\ ClockOK
     /\ \/ rpc = "wait" /\ PrevOK /\ ReadIn(prev, Len(prev), 1, Latest)
        \/ /\ rpc = "read" /\ PrevOK /\ cur \in Seq(Int) /\ Len(cur) < YEAR
           /\ \E n \in 1 .. clock.now :
                ReadIn(prev, Len(prev), 1, n) /\ ReadIn(cur, Len(cur), n, Latest)
        \/ rpc = "idle" /\ stamp # NoTime /\ ClockNotTorn
=============================================================================
