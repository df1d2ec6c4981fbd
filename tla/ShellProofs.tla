---------------------------- MODULE ShellProofs ----------------------------
(***************************************************************************)
(* Proofs about the shell: the keyboard's promises hold with the real      *)
(* shell and its output on top of it, the history ring shows the commands  *)
(* that were entered, however many there were, the cursor stays on the     *)
(* screen and the time in the prompt is one the clock showed.              *)
(***************************************************************************)
EXTENDS Shell, DeviceProofs

-----------------------------------------------------------------------------
(* Indices modulo the size of the history. *)

\* Between 0 and n lies no multiple of n.
LEMMA NoMultipleBetween ==
  ASSUME NEW n \in Nat \ {0}, NEW k \in Int
  PROVE  n * k \notin 1 .. n - 1
<1>1. CASE k <= 0
  <2>1. n * k <= 0
    BY <1>1
  <2> QED BY <2>1
<1>2. CASE k >= 1
  <2>1. n * k >= n
    BY <1>2
  <2> QED BY <2>1
<1> QED BY <1>1, <1>2

\* Two of n consecutive numbers have different places in a ring of size n.
LEMMA PlacesDiffer ==
  ASSUME NEW n \in Nat \ {0}, NEW a \in Int, NEW b \in Int, b - a \in 1 .. n - 1
  PROVE  a % n # b % n
<1> SUFFICES ASSUME a % n = b % n PROVE FALSE
  OBVIOUS
<1>1. /\ a = n * (a \div n) + (a % n) /\ b = n * (b \div n) + (b % n)
      /\ a \div n \in Int /\ b \div n \in Int /\ a % n \in Int
  OBVIOUS
<1>2. PICK p \in Int, q \in Int, r \in Int : a = n * p + r /\ b = n * q + r
  BY <1>1, Zenon
<1>3. n * (q - p) = b - a
  BY <1>2
<1> QED BY <1>3, NoMultipleBetween

-----------------------------------------------------------------------------
(* The history. *)

\* A ring that holds the list last under the numbers below count.
Holds(ring, count, last, size) ==
  \A back \in 1 .. Len(last) : last[Len(last) + 1 - back] = ring[(count - back) % size]

\* The list with one more element, which drops its head beyond the size.
LEMMA DropsHead ==
  ASSUME NEW S, NEW last \in Seq(S), NEW x \in S, NEW size \in Nat \ {0},
         Len(last) <= size,
         NEW new, new = IF Len(Append(last, x)) > size THEN Tail(Append(last, x)) ELSE Append(last, x)
  PROVE  /\ new \in Seq(S)
         /\ Len(new) = IF Len(last) < size THEN Len(last) + 1 ELSE size
         /\ new[Len(new)] = x
         /\ \A back \in 2 .. Len(new) : new[Len(new) + 1 - back] = last[Len(last) + 2 - back]
<1> DEFINE all == Append(last, x)
<1>1. PICK n \in Nat : n = Len(last)
  OBVIOUS
<1>2. /\ all \in Seq(S) /\ Len(all) = n + 1 /\ all # <<>>
      /\ \A i \in 1 .. n : all[i] = last[i]
      /\ all[n + 1] = x
  BY <1>1
<1> HIDE DEF all
<1>3. /\ Tail(all) \in Seq(S) /\ Len(Tail(all)) = n
      /\ \A i \in 1 .. n : Tail(all)[i] = all[i + 1]
  BY ONLY <1>2
<1> DEFINE Goal == /\ new \in Seq(S)
                   /\ Len(new) = IF n < size THEN n + 1 ELSE size
                   /\ new[Len(new)] = x
                   /\ \A back \in 2 .. Len(new) : new[Len(new) + 1 - back] = last[n + 2 - back]
<1>4. ASSUME n < size PROVE Goal
  <2>1. new = all
    BY <1>1, <1>2, <1>4 DEF all
  <2>2. \A back \in 2 .. n + 1 : n + 2 - back \in 1 .. n
    OBVIOUS
  <2> QED BY <1>1, <1>2, <1>4, <2>1, <2>2
<1>5. ASSUME n = size PROVE Goal
  <2>1. new = Tail(all)
    BY <1>1, <1>2, <1>5 DEF all
  <2>2. ASSUME NEW back \in 2 .. n
        PROVE  new[n + 1 - back] = last[n + 2 - back]
    <3> DEFINE i == n + 1 - back
    <3>1. i \in 1 .. n /\ i + 1 \in 1 .. n /\ i + 1 = n + 2 - back
      OBVIOUS
    <3> HIDE DEF i
    <3>2. new[i] = last[i + 1]
      BY <1>2, <1>3, <2>1, <3>1, ZenonT(60)
    <3> QED BY <3>1, <3>2, ZenonT(60) DEF i
  <2>3. new[n] = x
    BY ONLY <1>2, <1>3, <1>5, <2>1
  <2>4. new \in Seq(S) /\ Len(new) = n
    BY <1>3, <2>1, Zenon
  <2> QED BY ONLY <1>5, <2>2, <2>3, <2>4, n \in Nat
<1>6. n < size \/ n = size
  BY <1>1
<1>7. Goal
  BY ONLY <1>4, <1>5, <1>6, Zenon
<1> QED BY <1>1, <1>7, Zenon

\* The next element overwrites the one that the list drops.
LEMMA RingFollows ==
  ASSUME NEW S, NEW size \in Nat \ {0}, NEW ring \in [0 .. size - 1 -> S],
         NEW count \in Nat, NEW last \in Seq(S), NEW x \in S,
         Len(last) = IF count < size THEN count ELSE size,
         Holds(ring, count, last, size),
         NEW new \in Seq(S),
         Len(new) = IF Len(last) < size THEN Len(last) + 1 ELSE size,
         new[Len(new)] = x,
         \A back \in 2 .. Len(new) : new[Len(new) + 1 - back] = last[Len(last) + 2 - back]
  PROVE  Holds([ring EXCEPT ![count % size] = x], count + 1, new, size)
<1> DEFINE place == count % size
           next == [ring EXCEPT ![place] = x]
<1>1. PICK n \in Nat, m \in Nat : n = Len(last) /\ m = Len(new)
  OBVIOUS
<1>2. place \in 0 .. size - 1
  OBVIOUS
<1>3. n <= size /\ n <= count /\ m <= n + 1 /\ m <= size /\ m >= 1
  BY <1>1
<1>4. next[place] = x /\ \A i \in 0 .. size - 1 : i # place => next[i] = ring[i]
  BY ONLY <1>2
<1> HIDE DEF next
<1>5. ASSUME NEW back \in 1 .. m
      PROVE  new[m + 1 - back] = next[(count + 1 - back) % size]
  <2>1. CASE back = 1
    <3>1. count + 1 - back = count /\ m + 1 - back = m
      BY <2>1, SMTT(60)
    <3> QED BY <1>1, <1>4, <3>1, ZenonT(60)
  <2>2. CASE back # 1
    <3> DEFINE b == back - 1
    <3>1. /\ b \in 1 .. n /\ b \in 1 .. size - 1 /\ back \in 2 .. m
          /\ count + 1 - back = count - b /\ n + 1 - b = n + 2 - back
      BY ONLY <1>3, <2>2, SMTT(60)
    <3> HIDE DEF b
    <3>2. last[n + 1 - b] = ring[(count - b) % size]
      BY <1>1, <3>1 DEF Holds
    <3>3. count - b \in Int /\ count - (count - b) \in 1 .. size - 1
      BY ONLY <3>1
    <3>4. (count - b) % size # place
      BY ONLY <3>3, PlacesDiffer, SMTT(60)
    <3>5. (count - b) % size \in 0 .. size - 1
      BY <3>3, SMTT(60)
    <3>6. new[m + 1 - back] = last[n + 2 - back]
      BY <1>1, <3>1
    <3> QED BY <1>4, <3>1, <3>2, <3>4, <3>5, <3>6, ZenonT(60)
  <2> QED BY <2>1, <2>2, Zenon
<1> QED BY ONLY <1>1, <1>5 DEF Holds, next

\* history_push keeps the ring equal to the list of the last commands.
LEMMA PushRemembers ==
  ASSUME HistoryOK, NEW cmd \in Lines, history_push(cmd), Remember(cmd),
         input_buf' \in Lines, history_cursor' \in Int
  PROVE  HistoryOK'
<1>1. /\ HISTORY_MAX \in Nat \ {0} /\ history_count \in Nat
      /\ history \in [0 .. HISTORY_MAX - 1 -> Lines]
      /\ recent \in Seq(Lines) /\ Len(recent) \in Nat
      /\ Len(recent) = IF history_count < HISTORY_MAX THEN history_count ELSE HISTORY_MAX
  BY ShellAssumption DEF HistoryOK
<1>2. Holds(history, history_count, recent, HISTORY_MAX)
  BY DEF HistoryOK, Holds
<1>3. recent # <<>> <=> history_count > 0
  BY <1>1
<1>4. ASSUME history_count > 0
      PROVE  LastOf(recent) = history[(history_count - 1) % HISTORY_MAX]
  <2>1. 1 \in 1 .. Len(recent) /\ Len(recent) + 1 - 1 = Len(recent)
    BY ONLY <1>1, <1>4, SMTT(60)
  <2> QED BY ONLY <1>2, <2>1, Zenon DEF Holds, LastOf
<1>5. CASE ~Kept(cmd)
  <2>1. recent' = recent /\ history' = history /\ history_count' = history_count
    BY <1>1, <1>3, <1>4, <1>5, Zenon DEF Kept, history_push, Remember
  <2> QED BY <2>1, Zenon DEF HistoryOK
<1>6. CASE Kept(cmd)
  <2>1. /\ history' = [history EXCEPT ![history_count % HISTORY_MAX] = cmd]
        /\ history_count' = history_count + 1
    BY <1>6 DEF history_push
  <2>2. recent' = IF Len(Append(recent, cmd)) > HISTORY_MAX
                  THEN Tail(Append(recent, cmd)) ELSE Append(recent, cmd)
    BY <1>1, <1>3, <1>4, <1>6, Zenon DEF Kept, Remember
  <2>3. Len(recent) <= HISTORY_MAX
    BY <1>1
  <2>4. PICK new : /\ new = recent'
                   /\ new = IF Len(Append(recent, cmd)) > HISTORY_MAX
                            THEN Tail(Append(recent, cmd)) ELSE Append(recent, cmd)
    BY <2>2, Zenon
  <2>5. /\ new \in Seq(Lines)
        /\ Len(new) = IF Len(recent) < HISTORY_MAX THEN Len(recent) + 1 ELSE HISTORY_MAX
        /\ new[Len(new)] = cmd
        /\ \A back \in 2 .. Len(new) : new[Len(new) + 1 - back] = recent[Len(recent) + 2 - back]
    <3>1. recent \in Seq(Lines) /\ HISTORY_MAX \in Nat \ {0}
      BY <1>1
    <3>2. new = IF Len(Append(recent, cmd)) > HISTORY_MAX
                THEN Tail(Append(recent, cmd)) ELSE Append(recent, cmd)
      BY <2>4
    <3> QED BY ONLY <2>3, <3>1, <3>2, cmd \in Lines, DropsHead
  <2>6. Holds([history EXCEPT ![history_count % HISTORY_MAX] = cmd],
              history_count + 1, new, HISTORY_MAX)
    BY ONLY <1>1, <1>2, <2>5, cmd \in Lines, RingFollows, ZenonT(30)
  <2>7. Len(new) = IF history_count' < HISTORY_MAX THEN history_count' ELSE HISTORY_MAX
    BY ONLY <1>1, <2>1, <2>5
  <2>8. history' \in [0 .. HISTORY_MAX - 1 -> Lines] /\ history_count' \in Nat
    BY ONLY <1>1, <2>1, SMTT(60)
  <2>9. \A back \in 1 .. Len(recent') :
          recent'[Len(recent') + 1 - back] = history'[(history_count' - back) % HISTORY_MAX]
    BY <2>1, <2>4, <2>6, ZenonT(60) DEF Holds
  <2>10. /\ recent' \in Seq(Lines)
         /\ Len(recent') = IF history_count' < HISTORY_MAX THEN history_count' ELSE HISTORY_MAX
    BY <2>4, <2>5, <2>7
  <2> QED BY ONLY <2>8, <2>9, <2>10, input_buf' \in Lines, history_cursor' \in Int, ZenonT(60) DEF HistoryOK
<1> QED BY <1>5, <1>6, Zenon

\* A recall takes the entry of the ring, or leaves the line alone.
LEMMA ApplyRecalls ==
  ASSUME HistoryOK, NEW k \in Int, history_apply(k)
  PROVE  LET back == history_count - k
         IN  /\ input_buf' \in Lines
             /\ input_buf' = IF back \in 1 .. Len(recent)
                             THEN recent[Len(recent) + 1 - back] ELSE input_buf
<1> DEFINE back == history_count - k
<1>1. /\ HISTORY_MAX \in Nat \ {0} /\ history_count \in Nat
      /\ history \in [0 .. HISTORY_MAX - 1 -> Lines] /\ input_buf \in Lines
      /\ Len(recent) = IF history_count < HISTORY_MAX THEN history_count ELSE HISTORY_MAX
      /\ \A b \in 1 .. Len(recent) :
           recent[Len(recent) + 1 - b] = history[(history_count - b) % HISTORY_MAX]
  BY ShellAssumption DEF HistoryOK
<1>2. (k < Oldest \/ k >= history_count) <=> back \notin 1 .. Len(recent)
  BY ONLY <1>1 DEF Oldest
<1>3. CASE back \notin 1 .. Len(recent)
  BY <1>1, <1>2, <1>3, Zenon DEF history_apply
<1>4. CASE back \in 1 .. Len(recent)
  <2>1. input_buf' = history[k % HISTORY_MAX]
    BY <1>2, <1>4 DEF history_apply
  <2>2. PICK b \in 1 .. Len(recent) : b = back
    BY <1>4
  <2>3. history_count - b = k /\ k % HISTORY_MAX \in 0 .. HISTORY_MAX - 1
    BY ONLY <1>1, <2>2
  <2>4. recent[Len(recent) + 1 - b] = history[k % HISTORY_MAX]
    BY <1>1, <2>3
  <2>5. history[k % HISTORY_MAX] \in Lines
    BY <1>1, <2>3, Zenon
  <2> QED BY ONLY <1>4, <2>1, <2>2, <2>4, <2>5, Zenon
<1> QED BY <1>3, <1>4, Zenon

\* What a key changes, and what a recall puts into the line.
LEMMA KeyHandledKeeps ==
  ASSUME HistoryOK, KeyHandled
  PROVE  /\ HistoryOK' /\ kpc' \in {"test", "output"}
         /\ out \in {KB_EVENT_UP, KB_EVENT_DOWN} /\ history_cursor' >= 0 =>
              LET back == history_count - history_cursor'
              IN  input_buf' = IF back \in 1 .. Len(recent)
                               THEN recent[Len(recent) + 1 - back] ELSE input_buf
<1> USE DEF KB_EVENT_UP, KB_EVENT_DOWN, NEWLINE, RETURN, BACKSPACE
<1>1. /\ input_buf \in Lines /\ history_count \in Nat /\ history_cursor \in Int
      /\ Len(recent) \in Nat
  BY DEF HistoryOK
<1>2. CASE process_command
  <2>1. /\ history_push(input_buf) /\ Remember(input_buf)
        /\ input_buf' = <<>> /\ history_cursor' = -1 /\ kpc' \in {"test", "output"}
        /\ out \notin {KB_EVENT_UP, KB_EVENT_DOWN}
    BY <1>2 DEF process_command, Prints
  <2>2. input_buf' \in Lines
    BY <2>1 DEF Lines
  <2> QED BY <1>1, <2>1, <2>2, PushRemembers
<1>3. ASSUME UNCHANGED <<history, history_count, recent>>,
             input_buf' \in Lines, history_cursor' \in Int
      PROVE  HistoryOK'
  BY <1>3, Zenon DEF HistoryOK
<1>4. CASE EraseKey \/ CharKey
  <2>1. /\ UNCHANGED <<history, history_count, recent, history_cursor>>
        /\ out \notin {KB_EVENT_UP, KB_EVENT_DOWN}
    <3>1. CASE EraseKey
      BY <3>1 DEF EraseKey
    <3>2. CASE CharKey
      <4>1. out \in Printable /\ UNCHANGED <<history, history_count, recent, history_cursor>>
        BY <3>2, Zenon DEF CharKey
      <4>2. out \notin {KB_EVENT_UP, KB_EVENT_DOWN}
        BY ONLY <4>1 DEF Printable, KB_EVENT_UP, KB_EVENT_DOWN
      <4> QED BY ONLY <4>1, <4>2, Zenon
    <3> QED BY <1>4, <3>1, <3>2, Zenon
  <2>2. kpc' \in {"test", "output"}
    <3>1. \E items : Prints(items)
      BY <1>4, Zenon DEF EraseKey, CharKey
    <3> QED BY <3>1 DEF Prints
  <2>3. input_buf' \in Lines
    <3>1. CASE EraseKey
      <4>1. \A i \in 1 .. Len(input_buf) - 1 : input_buf[i] \in Printable
        BY <1>1 DEF Lines
      <4>2. Len(input_buf) - 1 \in Int /\ 1 \in Int
        BY <1>1 DEF Lines
      <4>3. SubSeq(input_buf, 1, Len(input_buf) - 1) \in Lines
        BY ONLY <4>1, <4>2 DEF Lines
      <4>4. PICK line \in Lines : line = SubSeq(input_buf, 1, Len(input_buf) - 1)
        BY ONLY <4>3, Zenon
      <4>5. input_buf' = input_buf \/ input_buf' = line
        BY <3>1, <4>4, Zenon DEF EraseKey
      <4> QED BY ONLY <1>1, <4>5
    <3>2. CASE CharKey
      BY <1>1, <3>2, SMTT(60) DEF CharKey, Lines
    <3> QED BY <1>4, <3>1, <3>2, Zenon
  <2> QED BY <1>1, <1>3, <2>1, <2>2, <2>3, Zenon
<1>5. CASE handle_history_up \/ handle_history_down
  <2> DEFINE Exact(k) ==
               LET back == history_count - k
               IN  input_buf' = IF back \in 1 .. Len(recent)
                                THEN recent[Len(recent) + 1 - back] ELSE input_buf
  <2>1. UNCHANGED <<history, history_count, recent>>
    BY <1>5 DEF handle_history_up, handle_history_down, Recalls
  <2>2. history_cursor' \in Int
    BY ONLY <1>1, <1>5 DEF handle_history_up, handle_history_down
  <2>3. kpc' \in {"test", "output"}
    BY ONLY <1>5, Zenon DEF handle_history_up, handle_history_down, history_apply, Prints
  <2>4. \/ history_apply(history_cursor')
        \/ input_buf' = input_buf /\ (history_count <= 0 \/ history_cursor' < 0)
        \/ input_buf' = <<>> /\ history_cursor' = -1
    BY <1>5 DEF handle_history_up, handle_history_down
  <2>5. CASE history_apply(history_cursor')
    <3>1. PICK k \in Int : k = history_cursor'
      BY <2>2
    <3>2. input_buf' \in Lines /\ Exact(k)
      BY <2>5, <3>1, ApplyRecalls, ZenonT(60)
    <3> QED BY <1>3, <2>1, <2>2, <2>3, <3>1, <3>2, ZenonT(60)
  <2>6. CASE input_buf' = input_buf /\ (history_count <= 0 \/ history_cursor' < 0)
    <3>1. PICK k \in Int : k = history_cursor'
      BY <2>2
    <3>2. k >= 0 => history_count - k \notin 1 .. Len(recent)
      <4>1. PICK n \in Nat, m \in Nat : n = history_count /\ m = Len(recent)
        BY <1>1
      <4>2. n = 0 \/ k < 0
        BY ONLY <2>6, <3>1, <4>1
      <4>3. k >= 0 => n - k \notin 1 .. m
        BY ONLY <4>2, k \in Int, n \in Nat, m \in Nat
      <4> QED BY <4>1, <4>3
    <3>3. HistoryOK'
      BY <1>1, <1>3, <2>1, <2>2, <2>6, ZenonT(60)
    <3> QED BY ONLY <2>3, <2>6, <3>1, <3>2, <3>3, Zenon
  <2>7. CASE input_buf' = <<>> /\ history_cursor' = -1
    <3>1. input_buf' \in Lines
      BY <2>7 DEF Lines
    <3> QED BY <1>3, <2>1, <2>2, <2>3, <2>7, <3>1
  <2> QED BY <2>4, <2>5, <2>6, <2>7, Zenon
<1> QED BY <1>2, <1>4, <1>5, Zenon DEF KeyHandled

-----------------------------------------------------------------------------
(* The shell with its keyboard, display, clock and programs. *)

\* A step that leaves the editor alone.
LEMMA EditorRests ==
  ASSUME HistoryOK, UNCHANGED editVars
  PROVE  HistoryOK'
BY Zenon DEF HistoryOK, editVars

\* The invariants hold when the shell starts.
LEMMA ShellInitInv == ShellInit => KbInv /\ HistoryOK /\ Queue!Init /\ user \in Users
<1> SUFFICES ASSUME ShellInit PROVE KbInv /\ HistoryOK /\ Queue!Init /\ user \in Users
  OBVIOUS
<1>1. KeyboardInit /\ kpc = "output" /\ user \in Users
  BY DEF ShellInit
<1>2. KbInv /\ Queue!Init
  BY ONLY <1>1, KbInitInv, Zenon
<1>3. /\ input_buf = <<>> /\ history = [i \in 0 .. HISTORY_MAX - 1 |-> <<>>]
      /\ history_count = 0 /\ history_cursor = -1 /\ recent = <<>>
  BY DEF ShellInit, EmptyHistory
<1>4. HISTORY_MAX \in Nat \ {0} /\ <<>> \in Lines
  BY ONLY ShellAssumption DEF Lines
<1>5. HistoryOK
  BY ONLY <1>3, <1>4 DEF HistoryOK
<1> QED BY ONLY <1>1, <1>2, <1>5, Zenon

\* Every step of the machine keeps the invariants, and for the queue it types,
\* reads or does nothing.
LEMMA ShellNextInv ==
  ASSUME KbInv, HistoryOK, user \in Users, [ShellNext]_allVars
  PROVE  KbInv' /\ HistoryOK' /\ user' \in Users /\ [Queue!Next]_(Queue!qvars)
<1>1. CASE UserTypes
  <2>1. UserKeys \subseteq Keys /\ user.extKeys \subseteq ExtKeys
    BY ShellAssumption, Zenon DEF UserKeys
  <2>2. KbInv' /\ [Queue!Next]_(Queue!qvars)
    BY <1>1, <2>1, KeyInterruptTracks, Zenon DEF UserTypes
  <2>3. UNCHANGED <<editVars, user>>
    BY <1>1 DEF UserTypes, ShellSame
  <2> QED BY <2>2, <2>3, EditorRests, Zenon
<1>2. CASE ShellGetsChar /\ Getchar
  <2>1. UNCHANGED <<deviceVars, editVars, user>>
    BY ONLY <1>2, Zenon DEF ShellGetsChar, ShellSame, Getchar, GetcharTest, GetcharRead, GetcharAdvance
  <2> QED BY <1>2, <2>1, GetcharReads, DeviceRests, EditorRests, ZenonT(60) DEF KbInv
<1>3. ASSUME UNCHANGED <<deviceVars, ringVars, out, user>>,
             \/ kpc' = kpc /\ c' = c
             \/ kpc' \notin {"read", "advance"}
      PROVE  KbInv' /\ user' \in Users /\ [Queue!Next]_(Queue!qvars)
  BY <1>3, RingRests, DeviceRests, Zenon DEF KbInv
<1>4. CASE HandleKey
  <2>1. /\ KeyHandled /\ UNCHANGED <<deviceVars, ringVars, out, user>>
    BY <1>4 DEF HandleKey
  <2>2. HistoryOK' /\ kpc' \in {"test", "output"}
    BY <2>1, KeyHandledKeeps, Zenon
  <2> QED BY <1>3, <2>1, <2>2, Zenon
<1>5. CASE Output
  <2>1. UNCHANGED <<deviceVars, ringVars, out, c, user, editVars>>
    BY ONLY <1>5, Zenon DEF Output
  <2>2. kpc' = kpc \/ kpc' \in {"test", "output"}
    BY <1>5 DEF Output, PrintAlone, PrintStep, ReadClock, Done
  <2> QED BY <1>3, <2>1, <2>2, EditorRests, Zenon
<1>6. CASE ShellGetsChar /\ Sleep
  <2>1. UNCHANGED <<deviceVars, ringVars, out, user, editVars>> /\ kpc' = "test"
    BY <1>6 DEF ShellGetsChar, ShellSame, Sleep
  <2> QED BY <1>3, <2>1, EditorRests, Zenon
<1>7. CASE Tick \/ ClockRuns \/ sys_write \/ sys_exit \/ UNCHANGED allVars
  <2>1. UNCHANGED <<deviceVars, ringVars, shellVars, user, editVars>>
    BY <1>7 DEF Tick, TimerInterrupt, ClockRuns, sys_write, sys_exit, ShellSame,
                allVars, vars, deviceVars
  <2>2. kpc' = kpc /\ c' = c /\ out' = out
    BY <2>1, Zenon DEF shellVars
  <2> QED BY <1>3, <2>1, <2>2, EditorRests
<1> QED BY <1>1, <1>2, <1>4, <1>5, <1>6, <1>7, ZenonT(60) DEF ShellNext, ShellGetsChar

\* What the line is after a recall.
LEMMA RecallStep ==
  ASSUME HistoryOK, [ShellNext]_allVars, kpc = "handle", kpc' # "handle"
  PROVE  out \in {KB_EVENT_UP, KB_EVENT_DOWN} /\ history_cursor' >= 0 =>
           LET back == history_count - history_cursor'
           IN  input_buf' = IF back \in 1 .. Len(recent)
                            THEN recent[Len(recent) + 1 - back] ELSE input_buf
<1>1. HandleKey
  <2>1. ~(UserTypes \/ Tick \/ ClockRuns \/ sys_write \/ sys_exit \/ UNCHANGED allVars)
    BY Zenon DEF UserTypes, KeyInterrupt, Tick, TimerInterrupt, ClockRuns, sys_write, sys_exit,
           allVars, vars, shellVars
  <2>2. ~ShellGetsChar
    BY DEF ShellGetsChar, Getchar, GetcharTest, GetcharRead, GetcharAdvance, Sleep
  <2>3. ~Output
    BY Zenon DEF Output, PrintAlone, PrintStep, ReadClock
  <2> QED BY <2>1, <2>2, <2>3 DEF ShellNext
<1> QED BY <1>1, KeyHandledKeeps DEF HandleKey

\* The invariants of the keyboard and of the history hold of the whole machine.
THEOREM ShellInvariant == ShellSpec => [](KbInv /\ HistoryOK /\ user \in Users)
<1>1. ShellInit => KbInv /\ HistoryOK /\ user \in Users
  BY ShellInitInv
<1>2. KbInv /\ HistoryOK /\ user \in Users /\ [ShellNext]_allVars
        => (KbInv /\ HistoryOK /\ user \in Users)'
  BY ShellNextInv
<1> QED BY <1>1, <1>2, PTL DEF ShellSpec

\* The shift state is right with the whole shell running, as in ShiftIsTracked.
THEOREM ShellTracksShift == ShellSpec => []ShiftTracksKeys
<1>1. KbInv => ShiftTracksKeys
  BY DEF KbInv
<1> QED BY <1>1, ShellInvariant, PTL

\* Whatever the shell prints, executes or waits for, it receives what was typed
\* once and in order, but for what a full buffer drops.
THEOREM ShellReadsQueue == ShellSpec => QueueSpec
<1>1. ShellInit => Queue!Init
  BY ShellInitInv
<1>2. KbInv /\ HistoryOK /\ user \in Users /\ [ShellNext]_allVars => [Queue!Next]_(Queue!qvars)
  BY ShellNextInv
<1> QED BY <1>1, <1>2, ShellInvariant, PTL DEF ShellSpec, QueueSpec, Queue!Spec

\* handle_history_up and handle_history_down show the command that was entered
\* that many commands ago, for every size of the ring and any number of commands.
THEOREM RecallsAreExact == ShellSpec => RecallIsExact
<1>1. KbInv /\ HistoryOK /\ user \in Users /\ [ShellNext]_allVars =>
        [kpc = "handle" /\ kpc' # "handle"
           /\ out \in {KB_EVENT_UP, KB_EVENT_DOWN} /\ history_cursor' >= 0 =>
           LET back == history_count - history_cursor'
           IN  input_buf' = IF back \in 1 .. Len(recent)
                            THEN recent[Len(recent) + 1 - back] ELSE input_buf]_allVars
  BY ONLY RecallStep, Zenon
<1> QED BY <1>1, ShellInvariant, PTL DEF ShellSpec, RecallIsExact

-----------------------------------------------------------------------------
(* The row of the cursor. *)

\* A program's text leaves the cursor in the rows where it is, also while the
\* shell is in the middle of a new line.
LEMMA TextStays ==
  ASSUME NEW s, NEW lo, NEW hi, RowIn(s, lo, hi), Rows(s, lo, hi),
         NEW item \in {TEXT, NEWLINE, FLUSH}, NEW t, t = Show(s, item)
  PROVE  RowIn(t, lo, hi) /\ t.h = s.h
<1>1. CASE item = TEXT
  <2>1. t = PutChar(s, item)
    BY <1>1 DEF Show, print_char, TEXT, FLUSH, CLEAR, NEWLINE, RETURN, BACKSPACE
  <2> QED BY ONLY <2>1, RowIn(s, lo, hi), Rows(s, lo, hi), PutCharStays, Zenon
<1>2. CASE item = NEWLINE
  <2>1. t = NewLine(s)
    BY <1>2 DEF Show, print_char, FLUSH, CLEAR, NEWLINE, RETURN, BACKSPACE
  <2> QED BY ONLY <2>1, RowIn(s, lo, hi), Rows(s, lo, hi), NewLineStays
<1>3. CASE item = FLUSH
  <2>1. t = display_flush(s) /\ DOMAIN s = Fields
    BY <1>3 DEF Show, RowIn, FLUSH, CLEAR
  <2>2. DOMAIN t = Fields /\ t.w = s.w /\ t.h = s.h /\ t.x = s.x /\ t.y = s.y
    BY ONLY <2>1, FlushLeaves
  <2> QED BY ONLY <2>2, RowIn(s, lo, hi), Zenon DEF RowIn
<1> QED BY ONLY <1>1, <1>2, <1>3, Zenon

\* What a program prints keeps the cursor in the rows where it is.
LEMMA ForeignStays ==
  ASSUME NEW s, NEW lo, NEW hi, RowIn(s, lo, hi), Rows(s, lo, hi),
         NEW items \in Seq({TEXT, NEWLINE, FLUSH}), NEW t, t = Foreign(print(s, items))
  PROVE  RowIn(t, lo, hi) /\ t.h = s.h
<1>1. PICK h : h = s.h
  BY Zenon
<1>2. ASSUME NEW i \in 1 .. Len(items), NEW x, RowIn(x, lo, hi), x.h = h
      PROVE  RowIn(Show(x, items[i]), lo, hi) /\ Show(x, items[i]).h = h
  <2>1. Rows(x, lo, hi)
    BY <1>1, <1>2, Zenon DEF Rows
  <2>2. PICK item \in {TEXT, NEWLINE, FLUSH} : item = items[i]
    OBVIOUS
  <2>3. RowIn(Show(x, item), lo, hi) /\ Show(x, item).h = x.h
    BY ONLY <1>2, <2>1, item \in {TEXT, NEWLINE, FLUSH}, TextStays, ZenonT(60)
  <2> QED BY ONLY <1>2, <2>2, <2>3, Zenon
<1>3. Len(items) \in Nat
  OBVIOUS
<1>4. PICK p : p = print(s, items)
  BY Zenon
<1>5. RowIn(p, lo, hi) /\ p.h = h
  <2>1. ItemsKeep(items, h, lo, hi)
    BY ONLY <1>2, Zenon DEF ItemsKeep
  <2> QED BY <1>1, <1>3, <1>4, <2>1, PrintKeepsRow, Zenon
<1>6. t = [p EXCEPT !.mark = NoMark]
  BY <1>4 DEF Foreign
<1>7. DOMAIN t = Fields /\ t.w = p.w /\ t.h = p.h /\ t.x = p.x /\ t.y = p.y
  BY ONLY <1>5, <1>6, Zenon DEF RowIn, Fields
<1> QED BY ONLY <1>1, <1>5, <1>7, Zenon DEF RowIn

\* The texts that programs and sys_exit print.
LEMMA ProgramTexts ==
  /\ \A text \in {<<TEXT>>, Line} : text \o <<FLUSH>> \in Seq({TEXT, NEWLINE, FLUSH})
  /\ Line \in Seq({TEXT, NEWLINE, FLUSH})
<1> DEFINE S == {TEXT, NEWLINE, FLUSH}
<1>1. <<TEXT>> \in Seq(S) /\ <<TEXT, NEWLINE>> \in Seq(S) /\ <<FLUSH>> \in Seq(S)
  OBVIOUS
<1> HIDE DEF S
<1>2. \A a, b \in Seq(S) : a \o b \in Seq(S)
  OBVIOUS
<1> QED BY <1>1, <1>2, Zenon DEF Line, S

\* Every step of an item of output keeps the cursor on the screen.
LEMMA StepKeepsRow ==
  ASSUME RowOK, NEW item, Step(item)
  PROVE  RowOK'
BY ColumnKeeps, RowKeeps, EraseKeeps, FlushKeeps, ClearKeeps, ZenonT(60) DEF Step

\* Another task prints while the shell is anywhere in print_char: it moves the
\* cursor down at most, and off the last row never.
LEMMA OthersKeepRow ==
  ASSUME RowOK, NEW items \in Seq({TEXT, NEWLINE, FLUSH}),
         d' = Foreign(print(d, items)), UNCHANGED <<ppc, reg>>
  PROVE  RowOK'
<1>1. /\ DOMAIN d = Fields /\ d.w \in Nat \ {0} /\ d.h \in Nat \ {0, 1} /\ d.x \in Nat
      /\ d.y \in Int /\ 0 <= d.y /\ d.y <= d.h - 1
      /\ ppc \notin {"bottom", "scroll", "load_row", "store_row"} => d.y <= d.h - 2
  BY RowFacts, Zenon
<1>2. PICK t, y : t = Foreign(print(d, items)) /\ y = d.y
  BY Zenon
<1>3. d' = t /\ ppc' = ppc /\ reg' = reg
  BY <1>2, Zenon
<1>4. CASE d.y <= d.h - 2
  <2>1. PICK hi : hi = d.h - 2
    BY Zenon
  <2>2. RowIn(d, y, hi) /\ Rows(d, y, hi)
    BY ONLY <1>1, <1>2, <1>4, <2>1 DEF RowIn, Rows
  <2>3. RowIn(t, y, hi) /\ t.h = d.h
    BY ONLY <1>2, <2>2, items \in Seq({TEXT, NEWLINE, FLUSH}), ForeignStays, ZenonT(60)
  <2>4. RowIn(t, 0, t.h - 1) /\ t.y >= d.y /\ t.y <= t.h - 2
    BY ONLY <1>1, <1>2, <1>4, <2>1, <2>3, SMTT(60) DEF RowIn
  <2>5. /\ ppc \notin {"scroll", "load_row"} /\ reg \in Int
        /\ ppc = "store_row" => reg = d.h - 1
        /\ ppc = "store_y" => reg \in 0 .. d.h - 2
        /\ ppc = "load_up" => t.y >= 1
        /\ ppc = "store_up" => reg \in 1 .. d.h - 2
    <3>1. t.y \in Int
      BY ONLY <1>1, <2>3 DEF RowIn
    <3> QED BY <1>1, <1>4, <2>4, <3>1, SMTT(60) DEF RowOK
  <2> QED BY ONLY <1>3, <2>3, <2>4, <2>5, Zenon DEF RowOK
<1>5. CASE d.y = d.h - 1
  <2>1. RowIn(d, y, y) /\ Rows(d, y, y)
    BY ONLY <1>1, <1>2, <1>5 DEF RowIn, Rows
  <2>2. RowIn(t, y, y) /\ t.h = d.h
    BY ONLY <1>2, <2>1, items \in Seq({TEXT, NEWLINE, FLUSH}), ForeignStays, SMTT(60)
  <2>3. RowIn(t, 0, t.h - 1) /\ t.y = t.h - 1
    BY ONLY <1>1, <1>2, <1>5, <2>2 DEF RowIn
  <2>4. ppc \in {"bottom", "scroll", "load_row", "store_row"}
    BY ONLY <1>1, <1>5
  <2>5. reg \in Int /\ (ppc = "store_row" => reg = d.h - 1)
    BY Zenon DEF RowOK
  <2> QED BY ONLY <1>3, <2>2, <2>3, <2>4, <2>5 DEF RowOK
<1> QED BY ONLY <1>1, <1>4, <1>5

\* A program's write and its exit keep the cursor on the screen.
LEMMA ProgramsKeepRow ==
  ASSUME RowOK, sys_write \/ sys_exit
  PROVE  RowOK'
<1>1. CASE sys_write
  <2>1. PICK text \in {<<TEXT>>, Line} : d' = Foreign(print(d, text \o <<FLUSH>>))
    BY <1>1, Zenon DEF sys_write
  <2>2. PICK items \in Seq({TEXT, NEWLINE, FLUSH}) : items = text \o <<FLUSH>>
    BY ProgramTexts, Zenon
  <2>3. d' = Foreign(print(d, items)) /\ UNCHANGED <<ppc, reg>>
    BY <1>1, <2>1, <2>2, Zenon DEF sys_write
  <2> QED BY <2>3, OthersKeepRow
<1>2. CASE sys_exit
  <2>1. PICK items \in Seq({TEXT, NEWLINE, FLUSH}) : items = Line
    BY ProgramTexts, Zenon
  <2>2. d' = Foreign(print(d, items)) /\ UNCHANGED <<ppc, reg>>
    BY <1>2, <2>1, Zenon DEF sys_exit
  <2> QED BY <2>2, OthersKeepRow
<1> QED BY <1>1, <1>2, Zenon

-----------------------------------------------------------------------------
(* What the shell has left to print. *)

\* The queued output.
Items == Seq(Int)

\* Pieces of output are output.
LEMMA ItemPieces ==
  /\ \A a, b \in Items : a \o b \in Items
  /\ \A a \in Items : a # <<>> => Tail(a) \in Items
  /\ \A a \in Items, m, n \in Int : m >= 1 /\ n <= Len(a) => SubSeq(a, m, n) \in Items
  /\ Lines \subseteq Items
  /\ \A n \in Nat : Erased(n) \in Items
  /\ <<>> \in Items /\ Line \in Items /\ print_prompt \in Items
  /\ \A i \in Int : <<i>> \in Items /\ <<i, FLUSH>> \in Items
  /\ <<NEWLINE>> \in Items /\ <<FLUSH>> \in Items /\ <<CLOCK>> \in Items /\ <<CLEAR>> \in Items
<1> USE DEF Items
<1>1. \A a, b \in Items : a \o b \in Items
  OBVIOUS
<1>2. \A a \in Items : a # <<>> => Tail(a) \in Items
  OBVIOUS
<1>3. ASSUME NEW a \in Items, NEW m \in Int, NEW n \in Int, m >= 1, n <= Len(a)
      PROVE  SubSeq(a, m, n) \in Items
  <2>1. \A i \in m .. n : a[i] \in Int
    BY <1>3
  <2> QED BY ONLY <2>1, m \in Int, n \in Int
<1>4. ASSUME NEW a \in Lines PROVE a \in Items
  <2>1. PICK P : P = Printable
    BY Zenon
  <2>2. a \in Seq(P) /\ P \subseteq Int
    BY <2>1 DEF Lines, Printable
  <2>3. Len(a) \in Nat /\ a \in [1 .. Len(a) -> Int]
    <3>1. Len(a) \in Nat /\ a \in [1 .. Len(a) -> P]
      BY ONLY <2>2
    <3>2. PICK D : D = 1 .. Len(a)
      BY Zenon
    <3>3. a \in [D -> P] /\ P \subseteq Int
      BY ONLY <2>2, <3>1, <3>2, Zenon
    <3>4. a \in [D -> Int]
      BY ONLY <3>3, Zenon
    <3> QED BY ONLY <3>1, <3>2, <3>4, Zenon
  <2> QED BY ONLY <2>3 DEF Items
<1>5. ASSUME NEW n \in Nat PROVE Erased(n) \in Items
  <2>1. PICK m \in Nat : m = 3 * n
    OBVIOUS
  <2>2. Erased(n) = [i \in 1 .. m |-> IF i % 3 = 2 THEN BLANK ELSE BACKSPACE]
    BY ONLY <2>1 DEF Erased
  <2>3. Erased(n) \in [1 .. m -> Int]
    BY ONLY <2>2 DEF BLANK, BACKSPACE
  <2> QED BY ONLY <2>3, m \in Nat DEF Items
<1>6. <<>> \in Items /\ Line \in Items /\ print_prompt \in Items
  BY DEF Line, print_prompt, TEXT, NEWLINE, CLOCK, PROMPT
<1>7. \A i \in Int : <<i>> \in Items /\ <<i, FLUSH>> \in Items
  BY DEF FLUSH
<1>8. <<NEWLINE>> \in Items /\ <<FLUSH>> \in Items /\ <<CLOCK>> \in Items /\ <<CLEAR>> \in Items
  BY DEF NEWLINE, FLUSH, CLOCK, CLEAR
<1> QED BY ONLY <1>1, <1>2, <1>3, <1>4, <1>5, <1>6, <1>7, <1>8, ZenonT(60)

\* Every key queues output, and is done with where there is none.
LEMMA KeyQueues ==
  ASSUME HistoryOK, KeyHandled
  PROVE  todo' \in Items /\ kpc' = IF todo' = <<>> THEN "test" ELSE "output"
<1>1. /\ input_buf \in Items /\ clear_typed_line \in Items
      /\ \A i \in 0 .. HISTORY_MAX - 1 : history[i] \in Items
  <2>1. input_buf \in Lines /\ Len(input_buf) \in Nat
    BY DEF HistoryOK, Lines
  <2>2. \A i \in 0 .. HISTORY_MAX - 1 : history[i] \in Lines
    BY Zenon DEF HistoryOK
  <2> QED BY <2>1, <2>2, ItemPieces, ZenonT(60) DEF clear_typed_line
<1>2. history_count \in Nat /\ history_cursor \in Int /\ HISTORY_MAX \in Nat \ {0}
  BY ShellAssumption DEF HistoryOK
<1>3. SUFFICES \E items \in Items : Prints(items)
  BY Zenon DEF Prints
<1>4. \A a, b \in Items : a \o b \in Items
  BY ItemPieces, Zenon
<1>5. /\ <<>> \in Items /\ Line \in Items /\ print_prompt \in Items
      /\ <<NEWLINE>> \in Items /\ <<FLUSH>> \in Items /\ <<CLOCK>> \in Items
      /\ <<CLEAR>> \in Items /\ Erased(1) \in Items
  BY 1 \in Nat, ItemPieces, Zenon
<1>6. CASE process_command
  <2>1. ASSUME NEW cmd PROVE CommandOutput(cmd) \in Items
    <3>1. CommandOutput(cmd) \in {<<>>, <<CLEAR>>, <<CLOCK>> \o Line, Line}
      BY DEF CommandOutput
    <3>2. <<CLOCK>> \o Line \in Items
      BY <1>4, <1>5, Zenon
    <3> QED BY ONLY <1>5, <3>1, <3>2, Zenon
  <2>2. ASSUME NEW w PROVE run_watch_if_enabled(w) \in Items
    BY <1>4, <1>5, Zenon DEF run_watch_if_enabled
  <2>3. PICK cmd, w : Prints(<<NEWLINE>> \o CommandOutput(cmd) \o run_watch_if_enabled(w)
                               \o print_prompt \o <<FLUSH>>)
    BY <1>6, Zenon DEF process_command
  <2> QED BY <1>4, <1>5, <2>1, <2>2, <2>3, ZenonT(60)
<1>7. CASE EraseKey
  BY <1>4, <1>5, <1>7, Zenon DEF EraseKey
<1>8. CASE CharKey
  <2>1. <<out, FLUSH>> \in Items
    <3>1. out \in Int
      <4>1. out \in Printable
        BY <1>8, Zenon DEF CharKey
      <4> QED BY ONLY <4>1 DEF Printable
    <3> QED BY <3>1, ItemPieces, Zenon
  <2>2. <<NEWLINE>> \o Line \o print_prompt \o input_buf \o <<FLUSH>> \in Items
    BY <1>1, <1>4, <1>5, ZenonT(60)
  <2>3. PICK items : /\ Prints(items)
                     /\ items \in {<<out, FLUSH>>, <<>>,
                                   <<NEWLINE>> \o Line \o print_prompt \o input_buf \o <<FLUSH>>}
    <3>1. PICK items : items = CASE ~LineFull -> <<out, FLUSH>>
              [] LineFull /\ ~input_overflow ->
                   <<NEWLINE>> \o Line \o print_prompt \o input_buf \o <<FLUSH>>
              [] OTHER -> <<>>
      BY Zenon
    <3>2. Prints(items)
      BY <1>8, <3>1, Zenon DEF CharKey
    <3>3. items \in {<<out, FLUSH>>, <<>>,
                     <<NEWLINE>> \o Line \o print_prompt \o input_buf \o <<FLUSH>>}
      BY ONLY <3>1, Zenon
    <3> QED BY <3>2, <3>3, Zenon
  <2> QED BY ONLY <1>5, <2>1, <2>2, <2>3, Zenon
<1>9. ASSUME NEW k \in Int, history_apply(k) PROVE \E items \in Items : Prints(items)
  <2>1. CASE k < Oldest \/ k >= history_count
    BY <1>5, <1>9, <2>1, ZenonT(60) DEF history_apply
  <2>2. CASE ~(k < Oldest \/ k >= history_count)
    <3>1. k % HISTORY_MAX \in 0 .. HISTORY_MAX - 1
      BY <1>2
    <3>2. PICK entry : entry = history[k % HISTORY_MAX]
      BY Zenon
    <3>3. entry \in Items
      BY <1>1, <3>1, <3>2, Zenon
    <3>4. Prints(clear_typed_line \o entry \o <<FLUSH>>)
      BY <1>9, <2>2, <3>2, Zenon DEF history_apply
    <3> QED BY <1>1, <1>4, <1>5, <3>3, <3>4, ZenonT(60)
  <2> QED BY ONLY <2>1, <2>2, Zenon
<1>10. CASE handle_history_up
  <2>1. Prints(<<>>) \/ history_apply(history_cursor')
    BY <1>10, Zenon DEF handle_history_up
  <2>2. PICK k \in Int : k = history_cursor'
    <3>1. history_cursor' \in Int
      BY ONLY <1>2, <1>10 DEF handle_history_up
    <3> QED BY <3>1
  <2> QED BY <1>5, <1>9, <2>1, <2>2, ZenonT(60)
<1>11. CASE handle_history_down
  <2>1. \/ Prints(<<>>) \/ Prints(clear_typed_line \o <<FLUSH>>)
        \/ history_apply(history_cursor')
    BY <1>11, Zenon DEF handle_history_down
  <2>2. PICK k \in Int : k = history_cursor'
    <3>1. history_cursor' \in Int
      BY ONLY <1>2, <1>11 DEF handle_history_down
    <3> QED BY <3>1
  <2>3. CASE history_apply(history_cursor')
    BY ONLY <1>9, <2>2, <2>3, Zenon
  <2> QED BY <1>1, <1>4, <1>5, <2>1, <2>3, ZenonT(60)
<1> QED BY <1>6, <1>7, <1>8, <1>10, <1>11, Zenon DEF KeyHandled

\* The shell stops printing at a clock that is there, or prints everything.
LEMMA UpToClockInside ==
  ASSUME todo \in Items
  PROVE  UpToClock \in Nat /\ UpToClock <= Len(todo) /\ Len(todo) \in Nat
<1>1. PICK S : S = {i \in DOMAIN todo : todo[i] = CLOCK}
  BY Zenon
<1>2. Len(todo) \in Nat /\ DOMAIN todo = 1 .. Len(todo)
  BY DEF Items
<1>3. S \subseteq 1 .. Len(todo)
  BY ONLY <1>1, <1>2, Zenon
<1>4. CASE S = {}
  BY <1>1, <1>2, <1>4 DEF UpToClock
<1>5. CASE S # {}
  <2>1. S \subseteq Nat
    BY ONLY <1>2, <1>3
  <2>2. Least(S) \in S
    BY <1>5, <2>1, LeastNatural, Zenon DEF Least
  <2>3. UpToClock = Least(S) - 1
    BY <1>1, <1>5, Zenon DEF UpToClock
  <2>4. PICK k : k = Least(S)
    BY Zenon
  <2>5. k \in 1 .. Len(todo) /\ UpToClock = k - 1
    BY ONLY <1>3, <2>2, <2>3, <2>4, Zenon
  <2> QED BY ONLY <1>2, <2>5
<1> QED BY <1>4, <1>5

\* The screen and the queued output are left alone, and the shell does not
\* start or stop printing.
LEMMA ScreenRests ==
  ASSUME ScreenOK, UNCHANGED <<todo, displayVars>>,
         kpc' = kpc \/ (kpc # "output" /\ kpc' # "output")
  PROVE  ScreenOK'
<1>1. d' = d /\ ppc' = ppc /\ reg' = reg /\ todo' = todo
  BY DEF displayVars
<1>2. RowOK'
  BY <1>1, Zenon DEF ScreenOK, RowOK
<1> QED BY <1>1, <1>2, Zenon DEF ScreenOK

\* The rest of the output.
LEMMA DoneKeeps ==
  ASSUME RowOK', NEW rest \in Items, Done(rest), ppc' = "start"
  PROVE  ScreenOK'
<1>1. todo' = rest /\ (kpc' = "output" => rest # <<>>)
  BY Zenon DEF Done
<1> QED BY <1>1, Zenon DEF ScreenOK, Items

\* Printing keeps the cursor on the screen.
LEMMA OutputKeepsRow ==
  ASSUME ScreenOK, Output
  PROVE  ScreenOK'
<1>1. todo \in Items /\ (kpc = "output" => todo # <<>>) /\ RowOK
  BY Zenon DEF ScreenOK, Items
<1>2. kpc = "output" /\ todo # <<>> /\ Tail(todo) \in Items
  <2>1. kpc = "output"
    BY Zenon DEF Output, PrintAlone, PrintStep, ReadClock
  <2> QED BY <1>1, <2>1, ItemPieces, Zenon
<1>3. CASE PrintAlone
  <2>1. UpToClock \in Nat /\ UpToClock <= Len(todo) /\ Len(todo) \in Nat
    BY <1>1, UpToClockInside, Zenon
  <2>2. PICK m \in Nat, n \in Nat : m = UpToClock /\ n = Len(todo) /\ m <= n
    BY <2>1, Zenon
  <2>3. m + 1 \in Int /\ m \in Int /\ n \in Int /\ 1 \in Int /\ m + 1 >= 1 /\ n <= n /\ 1 >= 1
    BY <2>2
  <2>4. PICK items, rest : items = SubSeq(todo, 1, m) /\ rest = SubSeq(todo, m + 1, n)
    BY Zenon
  <2>5. items \in Items /\ rest \in Items
    BY ONLY <1>1, <2>2, <2>3, <2>4, ItemPieces, ZenonT(60)
  <2>6. Len(items) \in Nat
    BY <2>5 DEF Items
  <2>7. /\ ppc = "start" /\ ppc' = "start" /\ reg' = reg
        /\ d' = print(d, items) /\ Done(rest)
    BY <1>3, <2>2, <2>4, ZenonT(60) DEF PrintAlone
  <2>8. /\ DOMAIN d = Fields /\ d.w \in Nat \ {0} /\ d.h \in Nat \ {0, 1} /\ d.x \in Nat
        /\ d.y \in Int /\ 0 <= d.y /\ d.y <= d.h - 2
    BY <1>1, <2>7, RowFacts, Zenon
  <2>9. PICK t, hi : t = print(d, items) /\ hi = d.h - 2
    BY Zenon
  <2>10. RowIn(d, 0, hi)
    BY ONLY <2>8, <2>9 DEF RowIn
  <2>11. RowIn(t, 0, hi) /\ t.h = d.h
    BY ONLY <2>6, <2>9, <2>10, PrintStays
  <2>12. RowIn(t, 0, t.h - 1) /\ t.y <= t.h - 2
    BY ONLY <2>8, <2>9, <2>11 DEF RowIn
  <2>13. RowOK'
    <3>1. reg' \in Int /\ d' = t /\ ppc' = "start"
      BY <1>1, <2>7, <2>9, Zenon DEF RowOK
    <3> QED BY ONLY <2>12, <3>1, ZenonT(60) DEF RowOK
  <2> QED BY <2>5, <2>7, <2>13, DoneKeeps, ZenonT(60)
<1>4. CASE PrintStep
  <2>1. RowOK'
    BY <1>1, <1>4, StepKeepsRow, Zenon DEF PrintStep
  <2>2. CASE ppc' = "start" /\ Done(Tail(todo))
    BY <1>2, <2>1, <2>2, DoneKeeps, ZenonT(60)
  <2>3. CASE UNCHANGED <<todo, kpc>>
    <3>1. todo' = todo /\ kpc' = kpc /\ Head(todo) # CLOCK
      BY <1>4, <2>3, Zenon DEF PrintStep
    <3> QED BY <1>1, <1>2, <2>1, <3>1, ZenonT(60) DEF ScreenOK, Items
  <2> QED BY <1>4, <2>2, <2>3, Zenon DEF PrintStep
<1>5. CASE ReadClock
  <2>1. UNCHANGED displayVars
    BY <1>5, Zenon DEF ReadClock
  <2>2. CASE Done(Tail(todo))
    <3>1. d' = d /\ ppc' = ppc /\ reg' = reg
      BY <2>1 DEF displayVars
    <3>2. RowOK'
      BY <1>1, <3>1, ZenonT(60) DEF RowOK
    <3>3. ppc = "start"
      BY <1>5, Zenon DEF ReadClock, ScreenOK
    <3> QED BY ONLY <1>2, <2>2, <3>1, <3>2, <3>3, DoneKeeps, ZenonT(60)
  <2>3. CASE UNCHANGED <<todo, kpc>>
    BY <2>1, <2>3, ScreenRests, Zenon
  <2> QED BY <1>5, <2>2, <2>3, Zenon DEF ReadClock
<1> QED BY <1>3, <1>4, <1>5, Zenon DEF Output

\* The invariant of the screen holds at the start ...
LEMMA ScreenInit ==
  ASSUME ShellInit
  PROVE  ScreenOK
<1>1. user \in Users /\ user.width \in Nat \ {0} /\ user.height \in Nat \ {0, 1}
  BY ShellAssumption DEF ShellInit
<1>2. PICK s : s = display_init(user.width, user.height)
  BY ONLY ZenonT(60)
<1>3. DOMAIN s = Fields /\ s.w = user.width /\ s.h = user.height /\ s.x = 0 /\ s.y = 0
  BY ONLY <1>2 DEF display_init, Fields
<1>4. PICK hi : hi = s.h - 2
  BY Zenon
<1>5. RowIn(s, 0, hi)
  BY ONLY <1>1, <1>3, <1>4 DEF RowIn
<1>6. PICK items \in Items : items = <<CLEAR>> \o Line \o <<FLUSH>>
  BY ItemPieces, Zenon
<1>7. Len(items) \in Nat
  BY DEF Items
<1>8. PICK t : t = print(s, items)
  BY Zenon
<1>9. RowIn(t, 0, hi) /\ t.h = s.h
  BY ONLY <1>4, <1>5, <1>7, <1>8, PrintStays
<1>10. RowIn(t, 0, t.h - 1) /\ t.y <= t.h - 2
  BY ONLY <1>1, <1>3, <1>4, <1>9 DEF RowIn
<1>11. d = t /\ ppc = "start" /\ reg = 0 /\ kpc = "output" /\ todo = print_prompt \o <<FLUSH>>
  BY <1>2, <1>6, <1>8, ZenonT(60) DEF ShellInit
<1>12. todo \in Items /\ todo # <<>>
  <2>1. todo \in Items
    BY <1>11, ItemPieces, Zenon
  <2>2. todo # <<>>
    BY <1>11 DEF print_prompt
  <2> QED BY <2>1, <2>2
<1>13. RowOK
  BY ONLY <1>10, <1>11 DEF RowOK
<1> QED BY <1>11, <1>12, <1>13, ZenonT(60) DEF ScreenOK, Items

\* ... and every step keeps it.
LEMMA ScreenNext ==
  ASSUME HistoryOK, ScreenOK, [ShellNext]_allVars
  PROVE  ScreenOK'
<1>1. CASE UserTypes \/ Tick \/ ClockRuns \/ UNCHANGED allVars
  <2>1. UNCHANGED <<todo, displayVars, kpc>>
    BY <1>1, Zenon DEF UserTypes, KeyInterrupt, Tick, TimerInterrupt, ClockRuns, ShellSame,
                allVars, vars, shellVars
  <2> QED BY <2>1, ScreenRests, Zenon
<1>2. CASE ShellGetsChar
  <2>1. kpc # "output" /\ kpc' # "output"
    BY <1>2 DEF ShellGetsChar, Getchar, GetcharTest, GetcharRead, GetcharAdvance, Sleep
  <2>2. UNCHANGED <<todo, displayVars>>
    BY <1>2, Zenon DEF ShellGetsChar, ShellSame
  <2> QED BY <2>1, <2>2, ScreenRests, Zenon
<1>3. CASE HandleKey
  <2>1. d' = d /\ ppc' = ppc /\ reg' = reg /\ kpc = "handle" /\ KeyHandled
    BY <1>3, Zenon DEF HandleKey, displayVars
  <2>2. todo' \in Items /\ (kpc' = "output" => todo' # <<>>)
    BY <2>1, KeyQueues
  <2>3. ppc' = "start"
    BY <2>1, "handle" # "output", Zenon DEF ScreenOK
  <2>4. RowOK'
    BY <2>1, Zenon DEF ScreenOK, RowOK
  <2> QED BY <2>2, <2>3, <2>4, Zenon DEF ScreenOK, Items
<1>4. CASE Output
  BY <1>4, OutputKeepsRow, Zenon
<1>5. CASE sys_write \/ sys_exit
  <2>1. RowOK'
    BY <1>5, ProgramsKeepRow, Zenon DEF ScreenOK
  <2>2. UNCHANGED <<todo, kpc, ppc>>
    BY <1>5, Zenon DEF sys_write, sys_exit, ShellSame, shellVars
  <2> QED BY <2>1, <2>2, Zenon DEF ScreenOK
<1> QED BY <1>1, <1>2, <1>3, <1>4, <1>5, Zenon DEF ShellNext

\* The cursor's row is on the screen at every moment, for every size of the
\* screen and wherever in print_char, scroll or display_flush another task
\* prints, and when the shell is done there is a free row under it.
THEOREM CursorStaysOnScreen == ShellSpec => []CursorOnScreen
<1>1. ShellInit => ScreenOK
  BY ScreenInit
<1>2. KbInv /\ HistoryOK /\ user \in Users /\ ScreenOK /\ [ShellNext]_allVars => ScreenOK'
  BY ScreenNext
<1>3. ScreenOK => CursorOnScreen
  <2> SUFFICES ASSUME ScreenOK PROVE CursorOnScreen
    OBVIOUS
  <2>1. RowOK /\ (kpc # "output" => ppc = "start")
    BY Zenon DEF ScreenOK
  <2>2. d.h \in Nat /\ d.y \in Int /\ 0 <= d.y /\ d.y <= d.h - 1
        /\ (ppc \notin {"bottom", "scroll", "load_row", "store_row"} => d.y <= d.h - 2)
    BY ONLY <2>1, RowFacts, Zenon
  <2> QED BY <2>1, <2>2 DEF CursorOnScreen, AllRows
<1> QED BY <1>1, <1>2, <1>3, ShellInvariant, PTL DEF ShellSpec

-----------------------------------------------------------------------------
(* The time in the prompt. *)

\* The clock and the driver are left alone.
LEMMA RtcRests ==
  ASSUME RtcInv, UNCHANGED rtcVars
  PROVE  RtcInv'
<1>1. clock' = clock /\ rpc' = rpc /\ prev' = prev /\ cur' = cur /\ stamp' = stamp
  BY DEF rtcVars
<1>2. CASE clock = NoClock /\ rpc = "idle" /\ prev = <<>> /\ stamp = NoTime
  BY <1>1, <1>2, Zenon DEF RtcInv, NoClock, NoTime
<1>3. CASE ClockOK
  <2>1. ClockOK' /\ Latest' = Latest /\ PrevOK' = PrevOK /\ ClockNotTorn' = ClockNotTorn
    BY <1>1, <1>3 DEF ClockOK, Latest, PrevOK, ClockNotTorn
  <2>2. \A n, lo, hi : /\ ReadIn(prev, n, lo, hi) => ReadIn(prev, n, lo, hi)'
                       /\ ReadIn(cur, n, lo, hi) => ReadIn(cur, n, lo, hi)'
    BY <1>1, ReadingStays, Zenon
  <2>3. PICK l, m, o : l = Latest /\ m = Len(prev) /\ o = Len(cur)
    BY Zenon
  <2>4. CASE rpc = "wait" /\ PrevOK /\ ReadIn(prev, Len(prev), 1, Latest)
    <3>1. ReadIn(prev, m, 1, l)'
      BY <2>2, <2>3, <2>4, Zenon
    <3> QED BY <1>1, <2>1, <2>3, <2>4, <3>1, Zenon DEF RtcInv
  <2>5. CASE /\ rpc = "read" /\ PrevOK /\ cur \in Seq(Int) /\ Len(cur) < YEAR
             /\ \E n \in 1 .. clock.now :
                  ReadIn(prev, Len(prev), 1, n) /\ ReadIn(cur, Len(cur), n, Latest)
    <3>1. PICK n \in 1 .. clock.now :
            ReadIn(prev, Len(prev), 1, n) /\ ReadIn(cur, Len(cur), n, Latest)
      BY <2>5, Zenon
    <3>2. ReadIn(prev, m, 1, n)' /\ ReadIn(cur, o, n, l)'
      BY <2>2, <2>3, <3>1, Zenon
    <3> QED BY <1>1, <2>1, <2>3, <2>5, <3>2, ZenonT(60) DEF RtcInv
  <2>6. CASE rpc = "idle" /\ stamp # NoTime /\ ClockNotTorn
    BY <1>1, <2>1, <2>6, Zenon DEF RtcInv, NoTime
  <2> QED BY <1>2, <2>4, <2>5, <2>6, ZenonT(60) DEF RtcInv
<1> QED BY <1>2, <1>3, Zenon DEF RtcInv

\* Every step of the machine keeps the invariant of the clock.
LEMMA RtcNext ==
  ASSUME RealClocks, user \in Users, RtcInv, [ShellNext]_allVars
  PROVE  RtcInv'
<1>1. CASE \/ UserTypes \/ ShellGetsChar \/ HandleKey \/ Tick \/ sys_write \/ sys_exit
           \/ UNCHANGED allVars
  <2>1. UNCHANGED rtcVars
    BY <1>1, Zenon DEF UserTypes, ShellGetsChar, HandleKey, Tick, sys_write, sys_exit, allVars
  <2> QED BY <2>1, RtcRests
<1>2. CASE ClockRuns
  BY <1>2, UpdateKeeps, Zenon DEF ClockRuns
<1>3. CASE Output
  <2>1. CASE UNCHANGED rtcVars
    BY <2>1, RtcRests
  <2>2. CASE StartRead(user.clocks)
    <3>1. PICK ks : ks = user.clocks
      BY Zenon
    <3>2. \A k \in ks : RealClock(k)
      BY <3>1, Zenon DEF RealClocks
    <3> QED BY <2>2, <3>1, <3>2, StartKeeps, Zenon
  <2>3. CASE WaitForClock
    BY <2>3, WaitKeeps
  <2>4. CASE ReadRegister
    BY <2>4, ReadKeeps
  <2>5. CASE EndRead
    BY <2>5, Zenon DEF EndRead, RtcInv, NoClock, NoTime
  <2> QED BY <1>3, <2>1, <2>2, <2>3, <2>4, <2>5, Zenon
          DEF Output, PrintAlone, PrintStep, ReadClock
<1> QED BY <1>1, <1>2, <1>3, Zenon DEF ShellNext

\* For clocks that show valid times and are read for less than a minute, what
\* rtc_read_datetime returns is a time that the clock showed during the call,
\* wherever the shell loses the CPU and the clock turns, in all four modes.
THEOREM ClockIsNotTorn == RealClocks => (ShellSpec => []ClockNotTorn)
<1> SUFFICES ASSUME RealClocks
             PROVE  ShellSpec => []ClockNotTorn
  OBVIOUS
<1>1. ShellInit => RtcInv
  BY Zenon DEF ShellInit, RtcInit, RtcInv
<1>2. KbInv /\ HistoryOK /\ user \in Users /\ RtcInv /\ [ShellNext]_allVars => RtcInv'
  BY RtcNext
<1>3. RtcInv => ClockNotTorn
  BY Zenon DEF RtcInv, ClockNotTorn, PrevOK
<1> QED BY <1>1, <1>2, <1>3, ShellInvariant, PTL DEF ShellSpec
=============================================================================
