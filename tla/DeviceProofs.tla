---------------------------- MODULE DeviceProofs ----------------------------
(***************************************************************************)
(* Proofs about what the shell reads and writes.                           *)
(*                                                                         *)
(* The keyboard: the handler's shift state is that of the keys, and the    *)
(* ring buffer implements a bounded queue however its handler and          *)
(* kb_getchar interleave.  The lemmas about single steps leave open what   *)
(* the shell does with a character, so that ShellProofs can use them.      *)
(*                                                                         *)
(* The display and the clock: every step inside print_char, display_flush  *)
(* and display_clear keeps the row of the cursor, and every step of a      *)
(* reading keeps what the registers read so far have in common with the    *)
(* clock.  ShellProofs puts these steps together.                          *)
(***************************************************************************)
EXTENDS Keyboard, Display, Rtc, WellFoundedInduction, TLAPS

-----------------------------------------------------------------------------
(* Indices of the ring. *)

\* The size of the ring as the provers need it.
LEMMA SizeIsNat == KB_BUF_SIZE \in Nat /\ KB_BUF_SIZE >= 2
BY KeyboardAssumption

\* % takes off the size of the ring once at most.
LEMMA WrapsOnce ==
  ASSUME NEW n \in 0 .. 2 * KB_BUF_SIZE - 1
  PROVE  n % KB_BUF_SIZE = IF n < KB_BUF_SIZE THEN n ELSE n - KB_BUF_SIZE
<1> DEFINE N == KB_BUF_SIZE
<1>1. N \in Nat \ {0}
  BY SizeIsNat
<1> HIDE DEF N
<1>2. n \in 0 .. N - 1 => n % N = n
  BY <1>1
<1>3. n \in N .. 2 * N - 1 => n % N = n - N
  BY <1>1
<1> QED BY <1>1, <1>2, <1>3 DEF N

\* The next index is one further or 0.
LEMMA NextIndexWraps ==
  ASSUME NEW i \in Indices
  PROVE  /\ NextIndex(i) = IF i = KB_BUF_SIZE - 1 THEN 0 ELSE i + 1
         /\ NextIndex(i) \in Indices
<1>1. i + 1 \in 0 .. 2 * KB_BUF_SIZE - 1
  BY KeyboardAssumption DEF Indices
<1> QED BY ONLY <1>1, WrapsOnce, KeyboardAssumption, SMTT(60) DEF NextIndex, Indices

\* How many characters a ring with these indices holds.
Held(head, tail) == IF head >= tail THEN head - tail ELSE head + KB_BUF_SIZE - tail

\* The number of unread characters without %.
LEMMA UnreadIsHeld ==
  ASSUME NEW head \in Indices, NEW tail \in Indices
  PROVE  /\ (head + KB_BUF_SIZE - tail) % KB_BUF_SIZE = Held(head, tail)
         /\ Held(head, tail) \in Indices
<1> DEFINE n == head + KB_BUF_SIZE - tail
<1>1. n \in 0 .. 2 * KB_BUF_SIZE - 1
  BY SizeIsNat DEF Indices
<1>2. n % KB_BUF_SIZE = IF n < KB_BUF_SIZE THEN n ELSE n - KB_BUF_SIZE
  BY ONLY <1>1, WrapsOnce
<1>3. Held(head, tail) = IF n < KB_BUF_SIZE THEN n ELSE n - KB_BUF_SIZE
  BY SizeIsNat DEF Held, Indices
<1>4. Held(head, tail) \in Indices
  BY SizeIsNat DEF Held, Indices
<1> QED BY <1>2, <1>3, <1>4

\* The place of the i-th unread character.
Place(tail, i) == (tail + i - 1) % KB_BUF_SIZE

\* The place of the i-th unread character without %.
LEMMA PlaceWraps ==
  ASSUME NEW tail \in Indices, NEW i \in 1 .. KB_BUF_SIZE
  PROVE  /\ Place(tail, i) =
              IF tail + i - 1 < KB_BUF_SIZE THEN tail + i - 1 ELSE tail + i - 1 - KB_BUF_SIZE
         /\ Place(tail, i) \in Indices
<1>1. tail + i - 1 \in 0 .. 2 * KB_BUF_SIZE - 1
  BY KeyboardAssumption DEF Indices
<1> QED BY <1>1, WrapsOnce, KeyboardAssumption, SMTT(60) DEF Place, Indices

\* The characters between the two indices, as a sequence.
Contents(buf, head, tail) == [i \in 1 .. Held(head, tail) |-> buf[Place(tail, i)]]

\* A character stored at the head is the last one of the queue.
LEMMA PushAppends ==
  ASSUME NEW C, NEW buf \in [Indices -> C], NEW ch \in C,
         NEW head \in Indices, NEW tail \in Indices, NextIndex(head) # tail
  PROVE  /\ Held(head, tail) + 1 = Held(NextIndex(head), tail)
         /\ Contents([buf EXCEPT ![head] = ch], NextIndex(head), tail)
              = Append(Contents(buf, head, tail), ch)
<1> DEFINE n == Held(head, tail)
           q == Contents(buf, head, tail)
           r == Contents([buf EXCEPT ![head] = ch], NextIndex(head), tail)
<1> DEFINE m == NextIndex(head)
<1>0. m \in Indices /\ m = IF head = KB_BUF_SIZE - 1 THEN 0 ELSE head + 1
  BY NextIndexWraps
<1> HIDE DEF m
<1>1. n \in Nat /\ n + 1 = Held(m, tail) /\ n + 1 < KB_BUF_SIZE
  BY <1>0, SizeIsNat DEF Held, Indices, m
<1>2. ASSUME NEW i \in 1 .. n + 1
      PROVE  /\ Place(tail, i) \in Indices
             /\ Place(tail, i) = head <=> i = n + 1
  <2>1. i \in 1 .. KB_BUF_SIZE
    BY <1>1, SizeIsNat
  <2>2. /\ Place(tail, i) =
              IF tail + i - 1 < KB_BUF_SIZE THEN tail + i - 1 ELSE tail + i - 1 - KB_BUF_SIZE
        /\ Place(tail, i) \in Indices
    BY ONLY tail \in Indices, <2>1, PlaceWraps
  <2> QED BY <2>1, <2>2, SizeIsNat DEF Held, Indices
<1>3. \A i \in 1 .. n : Place(tail, i) \in Indices \ {head}
  BY <1>1, <1>2
<1>4. q \in Seq(C) /\ Len(q) = n
  BY <1>1, <1>3 DEF Contents
<1>5. /\ r \in Seq(C) /\ Len(r) = n + 1
      /\ \A i \in 1 .. n : r[i] = q[i]
      /\ r[n + 1] = ch
  <2> DEFINE b == [buf EXCEPT ![head] = ch]
  <2>1. /\ b \in [Indices -> C] /\ b[head] = ch
        /\ \A j \in Indices \ {head} : b[j] = buf[j]
    OBVIOUS
  <2> HIDE DEF b
  <2>2. r = [i \in 1 .. n + 1 |-> b[Place(tail, i)]]
    BY <1>1 DEF Contents, b, m
  <2> HIDE DEF r
  <2>3. r \in Seq(C) /\ Len(r) = n + 1
    BY <1>1, <1>2, <2>1, <2>2
  <2>4. \A i \in 1 .. n : r[i] = q[i]
    BY <1>1, <1>3, <2>1, <2>2 DEF Contents
  <2>5. r[n + 1] = ch
    BY <1>1, <1>2, <2>1, <2>2
  <2> QED BY <2>3, <2>4, <2>5
<1> HIDE DEF q, r, n
<1>6. /\ Append(q, ch) \in Seq(C) /\ Len(Append(q, ch)) = n + 1
      /\ \A i \in 1 .. n : Append(q, ch)[i] = q[i]
      /\ Append(q, ch)[n + 1] = ch
  BY <1>4
<1>7. \A i \in 1 .. n + 1 : r[i] = Append(q, ch)[i]
  BY <1>1, <1>5, <1>6
<1>8. r = Append(q, ch)
  BY ONLY <1>5, <1>6, <1>7
<1> QED BY <1>1, <1>8, Zenon DEF q, r, n, m

\* Moving the tail takes the first character out of the queue.
LEMMA AdvanceTakes ==
  ASSUME NEW C, NEW buf \in [Indices -> C],
         NEW head \in Indices, NEW tail \in Indices, head # tail
  PROVE  /\ Held(head, tail) >= 1
         /\ Contents(buf, head, tail)[1] = buf[tail]
         /\ Contents(buf, head, NextIndex(tail)) = Tail(Contents(buf, head, tail))
<1> DEFINE n == Held(head, tail)
           q == Contents(buf, head, tail)
           r == Contents(buf, head, NextIndex(tail))
<1> DEFINE m == NextIndex(tail)
<1>0. m \in Indices /\ m = IF tail = KB_BUF_SIZE - 1 THEN 0 ELSE tail + 1
  BY NextIndexWraps
<1> HIDE DEF m
<1>1. n \in Nat /\ n >= 1 /\ n < KB_BUF_SIZE /\ Held(head, m) = n - 1
  BY <1>0, SizeIsNat DEF Held, Indices
<1>2. ASSUME NEW i \in 1 .. n
      PROVE  Place(tail, i) \in Indices
  <2>1. i \in 1 .. KB_BUF_SIZE
    BY <1>1, SizeIsNat
  <2> QED BY ONLY tail \in Indices, <2>1, PlaceWraps
<1>3. Place(tail, 1) = tail
  <2>1. 1 \in 1 .. KB_BUF_SIZE
    BY SizeIsNat
  <2>2. Place(tail, 1) =
          IF tail + 1 - 1 < KB_BUF_SIZE THEN tail + 1 - 1 ELSE tail + 1 - 1 - KB_BUF_SIZE
    BY ONLY tail \in Indices, <2>1, PlaceWraps
  <2> QED BY <2>2, SizeIsNat DEF Indices
<1>4. ASSUME NEW i \in 1 .. n - 1
      PROVE  Place(m, i) = Place(tail, i + 1)
  <2> DEFINE k == i + 1
  <2>1. i \in 1 .. KB_BUF_SIZE /\ k \in 1 .. KB_BUF_SIZE
    BY <1>1, SizeIsNat
  <2>2. Place(m, i) =
          IF m + i - 1 < KB_BUF_SIZE THEN m + i - 1 ELSE m + i - 1 - KB_BUF_SIZE
    BY ONLY <1>0, <2>1, PlaceWraps
  <2>3. Place(tail, k) =
          IF tail + k - 1 < KB_BUF_SIZE THEN tail + k - 1 ELSE tail + k - 1 - KB_BUF_SIZE
    BY ONLY tail \in Indices, <2>1, PlaceWraps
  <2> QED BY <1>0, <2>1, <2>2, <2>3, SizeIsNat DEF Indices
<1>5. q \in Seq(C) /\ Len(q) = n /\ q # <<>>
  BY <1>1, <1>2 DEF Contents
<1>6. r \in Seq(C) /\ Len(r) = n - 1 /\ \A i \in 1 .. n - 1 : r[i] = q[i + 1]
  <2>1. r = [i \in 1 .. n - 1 |-> buf[Place(m, i)]]
    BY <1>1 DEF Contents, m
  <2> HIDE DEF r
  <2>2. \A i \in 1 .. n - 1 : i + 1 \in 1 .. n /\ Place(m, i) \in Indices
    BY <1>1, <1>2, <1>4
  <2> HIDE DEF n
  <2>3. r \in Seq(C) /\ Len(r) = n - 1
    BY <1>1, <2>1, <2>2
  <2>4. \A i \in 1 .. n - 1 : r[i] = q[i + 1]
    BY <1>1, <1>4, <2>1, <2>2 DEF Contents, n
  <2> QED BY <2>3, <2>4
<1>7. q[1] = buf[tail]
  BY <1>1, <1>3 DEF Contents
<1> HIDE DEF q, r, n
<1>8. /\ Tail(q) \in Seq(C) /\ Len(Tail(q)) = n - 1
      /\ \A i \in 1 .. n - 1 : Tail(q)[i] = q[i + 1]
  BY <1>5
<1>9. r = Tail(q)
  BY ONLY <1>6, <1>8
<1> QED BY <1>1, <1>7, <1>9 DEF q, r, n, m

-----------------------------------------------------------------------------
(* The steps of the ring. *)

\* The abstract queue is what lies between tail and head.
LEMMA UnreadCharsAre ==
  ASSUME RingOK
  PROVE  /\ UnreadChars = Contents(kb_buf, kb_head, kb_tail)
         /\ UnreadChars \in Seq(Chars \cup {0})
         /\ Len(UnreadChars) = Held(kb_head, kb_tail)
<1>1. /\ kb_head \in Indices /\ kb_tail \in Indices
      /\ kb_buf \in [Indices -> Chars \cup {0}]
  BY DEF RingOK
<1>2. Unread = Held(kb_head, kb_tail) /\ Held(kb_head, kb_tail) \in Indices
  BY ONLY <1>1, UnreadIsHeld DEF Unread
<1>3. UnreadChars = Contents(kb_buf, kb_head, kb_tail)
  BY <1>2 DEF UnreadChars, Contents, Place
<1>4. ASSUME NEW i \in 1 .. Held(kb_head, kb_tail)
      PROVE  Place(kb_tail, i) \in Indices
  <2>1. i \in 1 .. KB_BUF_SIZE
    BY <1>2, SizeIsNat DEF Indices
  <2> QED BY ONLY <1>1, <2>1, PlaceWraps
<1>5. /\ Contents(kb_buf, kb_head, kb_tail) \in Seq(Chars \cup {0})
      /\ Len(Contents(kb_buf, kb_head, kb_tail)) = Held(kb_head, kb_tail)
  BY <1>1, <1>2, <1>4 DEF Contents, Indices
<1> QED BY <1>3, <1>5

\* The handler stores a character, or drops it when the ring is full: for the
\* queue it is typed, or nothing happens.
LEMMA PushTypes ==
  ASSUME RingOK, NEW ch \in Chars, kb_push(ch), UNCHANGED shellVars
  PROVE  RingOK' /\ [Queue!Next]_(Queue!qvars)
<1>1. /\ kb_head \in Indices /\ kb_tail \in Indices
      /\ kb_buf \in [Indices -> Chars \cup {0}]
      /\ kpc' = kpc /\ c' = c /\ out' = out
  BY DEF RingOK, shellVars
<1>2. CASE NextIndex(kb_head) = kb_tail
  <2>1. UNCHANGED ringVars
    BY <1>2 DEF kb_push
  <2>2. RingOK' /\ UnreadChars' = UnreadChars
    BY <1>1, <2>1 DEF RingOK, ringVars, UnreadChars, Unread
  <2> QED BY <1>1, <2>2 DEF Queue!qvars
<1>3. CASE NextIndex(kb_head) # kb_tail
  <2>1. /\ kb_buf' = [kb_buf EXCEPT ![kb_head] = ch]
        /\ kb_head' = NextIndex(kb_head) /\ kb_tail' = kb_tail
    BY <1>3 DEF kb_push
  <2>2. kb_head' \in Indices
    BY <1>1, <2>1, NextIndexWraps
  <2>3. RingOK'
    BY <1>1, <1>3, <2>1, <2>2 DEF RingOK
  <2>4. /\ Held(kb_head, kb_tail) + 1 = Held(NextIndex(kb_head), kb_tail)
        /\ Contents([kb_buf EXCEPT ![kb_head] = ch], NextIndex(kb_head), kb_tail)
             = Append(Contents(kb_buf, kb_head, kb_tail), ch)
    <3>1. ch \in Chars \cup {0}
      OBVIOUS
    <3> QED BY ONLY <1>1, <1>3, <3>1, PushAppends, ZenonT(60)
  <2>5. /\ UnreadChars = Contents(kb_buf, kb_head, kb_tail)
        /\ UnreadChars \in Seq(Chars \cup {0})
        /\ Len(UnreadChars) = Held(kb_head, kb_tail)
    BY UnreadCharsAre
  <2>6. UnreadChars' = Append(UnreadChars, ch)
    <3>1. Unread' = Held(kb_head', kb_tail')
      BY ONLY <1>1, <2>1, <2>2, UnreadIsHeld DEF Unread
    <3> QED BY <2>1, <2>4, <2>5, <3>1, ZenonT(60) DEF UnreadChars, Contents, Place
  <2>7. Len(UnreadChars) < KB_BUF_SIZE - 1
    <3>1. Held(NextIndex(kb_head), kb_tail) \in Indices
      BY <1>1, <2>1, <2>2, UnreadIsHeld
    <3> QED BY <1>1, <2>4, <2>5, <3>1, UnreadIsHeld, SizeIsNat DEF Indices
  <2>8. /\ Len(UnreadChars') = Len(UnreadChars) + 1
        /\ UnreadChars'[Len(UnreadChars')] = ch
    BY <2>5, <2>6
  <2>9. Queue!Type
    BY <1>1, <2>6, <2>7, <2>8 DEF Queue!Type
  <2> QED BY <2>3, <2>9 DEF Queue!Next
<1> QED BY <1>2, <1>3

\* A step that neither types nor reads.
LEMMA RingRests ==
  ASSUME RingOK, UNCHANGED <<ringVars, out>>,
         \/ kpc' = kpc /\ c' = c
         \/ kpc' \notin {"read", "advance"}
  PROVE  RingOK' /\ [Queue!Next]_(Queue!qvars)
<1>1. RingOK' /\ UnreadChars' = UnreadChars
  BY DEF RingOK, ringVars, UnreadChars, Unread
<1> QED BY <1>1 DEF Queue!qvars

\* kb_getchar reads the first character of the queue, whatever the handler
\* adds between its steps.
LEMMA GetcharReads ==
  ASSUME RingOK, Getchar
  PROVE  RingOK' /\ [Queue!Next]_(Queue!qvars)
<1>1. /\ kb_head \in Indices /\ kb_tail \in Indices
      /\ kb_buf \in [Indices -> Chars \cup {0}]
  BY DEF RingOK
<1>2. CASE GetcharTest \/ GetcharRead
  <2>1. /\ UNCHANGED <<kb_buf, kb_head, kb_tail, out>>
        /\ kpc' \in {"read", "sleep", "advance"}
        /\ kpc' = "read" => kb_head # kb_tail
        /\ kpc' = "advance" => kpc = "read" /\ c' = kb_buf[kb_tail]
    BY <1>2 DEF GetcharTest, GetcharRead, ringVars
  <2>2. RingOK' /\ UnreadChars' = UnreadChars
    BY <2>1 DEF RingOK, UnreadChars, Unread
  <2> QED BY <2>1, <2>2 DEF Queue!qvars
<1>3. CASE GetcharAdvance
  <2>1. /\ kpc = "advance" /\ kpc' = "handle" /\ out' = c
        /\ kb_buf' = kb_buf /\ kb_head' = kb_head /\ kb_tail' = NextIndex(kb_tail)
        /\ c = kb_buf[kb_tail] /\ kb_head # kb_tail
    BY <1>3 DEF GetcharAdvance, RingOK
  <2>2. kb_tail' \in Indices
    BY <1>1, <2>1, NextIndexWraps
  <2>3. RingOK'
    BY <1>1, <2>1, <2>2 DEF RingOK
  <2>4. /\ Held(kb_head, kb_tail) >= 1
        /\ Contents(kb_buf, kb_head, kb_tail)[1] = kb_buf[kb_tail]
        /\ Contents(kb_buf, kb_head, NextIndex(kb_tail)) = Tail(Contents(kb_buf, kb_head, kb_tail))
    BY ONLY <1>1, <2>1, AdvanceTakes, Zenon
  <2>5. /\ UnreadChars = Contents(kb_buf, kb_head, kb_tail)
        /\ UnreadChars \in Seq(Chars \cup {0})
        /\ Len(UnreadChars) = Held(kb_head, kb_tail)
    BY UnreadCharsAre
  <2>6. UnreadChars' = Tail(UnreadChars)
    <3>1. Unread' = Held(kb_head', kb_tail')
      BY ONLY <1>1, <2>1, <2>2, UnreadIsHeld DEF Unread
    <3> QED BY <2>1, <2>4, <2>5, <3>1, Zenon DEF UnreadChars, Contents, Place
  <2>7. UnreadChars # <<>> /\ Head(UnreadChars) = kb_buf[kb_tail]
    BY <2>4, <2>5
  <2> QED BY <2>1, <2>3, <2>6, <2>7 DEF Queue!Next, Queue!Read
<1> QED BY <1>2, <1>3 DEF Getchar

-----------------------------------------------------------------------------
(* The interrupt handler. *)

\* What the handler does with a byte is a push of a character of the keyboard,
\* or nothing.
LEMMA HandlerPushes ==
  ASSUME NEW k \in 0 .. 127, NEW scancode \in {k, k + 128}, keyboard_handler(scancode),
         scancode = k /\ ~g_have_e0 => k \in Keys
  PROVE  (\E ch \in Chars : kb_push(ch)) \/ NoPush
<1>1. CASE scancode = E0
  BY <1>1 DEF keyboard_handler, PrefixByte
<1>2. CASE scancode # E0 /\ g_have_e0
  <2>1. KB_EVENT_UP \in Chars /\ KB_EVENT_DOWN \in Chars
    BY DEF Chars, KB_EVENT_UP, KB_EVENT_DOWN
  <2> QED BY <1>2, <2>1 DEF keyboard_handler, PrefixedByte
<1>3. CASE scancode # E0 /\ ~g_have_e0
  <2>1. PlainByte(scancode)
    BY <1>3 DEF keyboard_handler
  <2>2. CASE scancode = k + 128
    <3>1. scancode >= 128
      BY <2>2
    <3> QED BY <2>1, <3>1 DEF PlainByte
  <2>3. CASE scancode = k
    <3>1. scancode % 128 = k /\ ~(scancode >= 128) /\ k \in Keys
      BY <1>3, <2>3
    <3>2. PICK ch : ch = translate_scancode(k, g_state')
      OBVIOUS
    <3>3. ch = 0 \/ ch \in Chars
      BY <3>1, <3>2 DEF translate_scancode, Chars
    <3>4. IF ch = 0 THEN NoPush ELSE kb_push(ch)
      BY <2>1, <3>1, <3>2 DEF PlainByte
    <3> QED BY <3>3, <3>4
  <2> QED BY <2>2, <2>3
<1> QED BY <1>1, <1>2, <1>3

\* The bytes of a key that has no prefix, and the shift state.
LEMMA PlainKeyTracks ==
  ASSUME KbInv, NEW keys \in SUBSET Keys, PlainKey(keys), UNCHANGED shellVars
  PROVE  KbInv' /\ [Queue!Next]_(Queue!qvars)
<1>1. /\ wire = <<>> /\ wire' = wire /\ g_have_e0 = FALSE
  BY DEF PlainKey, KbInv, PrefixOK
<1>2. PICK k \in keys :
        \/ keyboard_handler(k) /\ held' = held \cup ({k} \cap {LEFT_SHIFT, RIGHT_SHIFT})
        \/ keyboard_handler(k + 128) /\ held' = held \ {k}
  BY DEF PlainKey
<1>3. k \in Keys /\ k \in 0 .. 127 /\ k # E0 /\ k + 128 # E0
  BY KeyboardAssumption DEF E0
<1>4. (\E ch \in Chars : kb_push(ch)) \/ NoPush
  BY <1>1, <1>2, <1>3, HandlerPushes, Zenon
<1>5. RingOK' /\ [Queue!Next]_(Queue!qvars)
  <2>1. CASE \E ch \in Chars : kb_push(ch)
    BY <2>1, PushTypes DEF KbInv
  <2>2. CASE NoPush
    BY <2>2, RingRests DEF KbInv, NoPush, shellVars
  <2> QED BY <1>4, <2>1, <2>2
<1>6. /\ k % 128 = k /\ (k + 128) % 128 = k
      /\ ~(k >= 128) /\ k + 128 >= 128
  BY <1>3
<1>7. ShiftTracksKeys' /\ g_have_e0' = g_have_e0
  <2>1. CASE keyboard_handler(k) /\ held' = held \cup ({k} \cap {LEFT_SHIFT, RIGHT_SHIFT})
    <3>1. PlainByte(k)
      BY <1>1, <1>3, <2>1 DEF keyboard_handler
    <3>2. /\ g_state' = IF k \notin {LEFT_SHIFT, RIGHT_SHIFT} THEN g_state ELSE g_state \cup {k}
          /\ g_have_e0' = g_have_e0
      BY <1>6, <3>1, ZenonT(60) DEF PlainByte
    <3> QED BY <2>1, <3>2, Zenon DEF KbInv, ShiftTracksKeys
  <2>2. CASE keyboard_handler(k + 128) /\ held' = held \ {k}
    <3>1. PlainByte(k + 128)
      BY <1>1, <1>3, <2>2 DEF keyboard_handler
    <3>2. /\ g_state' = IF k \notin {LEFT_SHIFT, RIGHT_SHIFT} THEN g_state ELSE g_state \ {k}
          /\ g_have_e0' = g_have_e0
      BY <1>6, <3>1, ZenonT(60) DEF PlainByte
    <3> QED BY <2>2, <3>2 DEF KbInv, ShiftTracksKeys
  <2> QED BY <1>2, <2>1, <2>2
<1> QED BY <1>1, <1>5, <1>7 DEF KbInv, PrefixOK

\* The bytes of a key with a prefix: none of them is taken for a shift key.
LEMMA ExtendedKeyTracks ==
  ASSUME KbInv, NEW keys \in SUBSET ExtKeys, ExtendedKey(keys), UNCHANGED shellVars
  PROVE  KbInv' /\ [Queue!Next]_(Queue!qvars)
<1>1. held' = held /\ ShiftTracksKeys
  BY DEF ExtendedKey, KbInv
<1>2. CASE wire = <<>> /\ keyboard_handler(E0) /\ \E k \in keys : wire' = <<k>> \/ wire' = <<k + 128>>
  <2>1. g_have_e0' = TRUE /\ NoPush /\ g_state' = g_state
    BY <1>2 DEF keyboard_handler, PrefixByte
  <2>2. RingOK' /\ [Queue!Next]_(Queue!qvars)
    BY <2>1, RingRests DEF KbInv, NoPush, shellVars
  <2>3. wire' # <<>> /\ \E k \in ExtKeys : wire' \in {<<k>>, <<k + 128>>}
    BY <1>2
  <2>4. PrefixOK'
    BY <2>1, <2>3 DEF PrefixOK
  <2> QED BY <1>1, <2>1, <2>2, <2>4 DEF KbInv, ShiftTracksKeys
<1>3. CASE wire # <<>> /\ keyboard_handler(Head(wire)) /\ wire' = <<>>
  <2>1. PICK k \in ExtKeys : wire \in {<<k>>, <<k + 128>>}
    BY <1>3 DEF KbInv, PrefixOK
  <2>2. k \in 0 .. 127 /\ Head(wire) \in {k, k + 128} /\ Head(wire) # E0 /\ g_have_e0
    <3>1. k \in 0 .. 127 /\ k # E0 /\ k + 128 # E0
      BY KeyboardAssumption DEF E0
    <3>2. Head(wire) \in {k, k + 128}
      BY <2>1
    <3>3. g_have_e0
      BY <1>3 DEF KbInv, PrefixOK
    <3> QED BY <3>1, <3>2, <3>3
  <2>3. (\E ch \in Chars : kb_push(ch)) \/ NoPush
    BY ONLY <1>3, <2>2, HandlerPushes, ZenonT(60)
  <2>4. RingOK' /\ [Queue!Next]_(Queue!qvars)
    <3>1. CASE \E ch \in Chars : kb_push(ch)
      BY <3>1, PushTypes DEF KbInv
    <3>2. CASE NoPush
      BY <3>2, RingRests DEF KbInv, NoPush, shellVars
    <3> QED BY <2>3, <3>1, <3>2
  <2>5. g_have_e0' = FALSE /\ g_state' = g_state
    BY <1>3, <2>2 DEF keyboard_handler, PrefixedByte
  <2> QED BY <1>1, <1>3, <2>4, <2>5, Zenon DEF KbInv, PrefixOK, ShiftTracksKeys
<1> QED BY <1>2, <1>3 DEF ExtendedKey

\* A key interrupt keeps KbInv and is a step of the queue.
LEMMA KeyInterruptTracks ==
  ASSUME KbInv, NEW keys \in SUBSET Keys, NEW extKeys \in SUBSET ExtKeys,
         KeyInterrupt(keys, extKeys)
  PROVE  KbInv' /\ [Queue!Next]_(Queue!qvars)
BY PlainKeyTracks, ExtendedKeyTracks DEF KeyInterrupt

\* A step of the shell, or another interrupt: the device and the handler rest.
LEMMA DeviceRests ==
  ASSUME KbInv, UNCHANGED deviceVars, RingOK'
  PROVE  KbInv'
BY DEF KbInv, PrefixOK, ShiftTracksKeys, deviceVars

-----------------------------------------------------------------------------
(* The keyboard with a shell that only reads. *)

\* KbInv holds at first, and the queue is empty.
LEMMA KbInitInv ==
  ASSUME KeyboardInit, kpc \notin {"read", "advance"}
  PROVE  KbInv /\ Queue!Init
<1>1. /\ kb_buf = [i \in Indices |-> 0] /\ kb_head = 0 /\ kb_tail = 0
      /\ g_state = {} /\ g_have_e0 = FALSE /\ held = {} /\ wire = <<>> /\ out = 0
  BY DEF KeyboardInit, Indices
<1>2. RingOK
  BY <1>1, SizeIsNat DEF RingOK, Indices
<1>3. PrefixOK /\ ShiftTracksKeys
  BY <1>1, Zenon DEF PrefixOK, ShiftTracksKeys
<1>4. UnreadChars = <<>>
  <2>1. Len(UnreadChars) = 0 /\ UnreadChars \in Seq(Chars \cup {0})
    BY <1>1, <1>2, UnreadCharsAre DEF Held
  <2> QED BY <2>1
<1> QED BY <1>1, <1>2, <1>3, <1>4 DEF KbInv, Queue!Init

\* KbInv is inductive, and every step is one of the queue or changes none of it.
LEMMA KbNextInv ==
  ASSUME KbInv, [KbNext]_vars
  PROVE  KbInv' /\ [Queue!Next]_(Queue!qvars)
<1>1. CASE KeyInterrupt(Keys, ExtKeys)
  BY <1>1, KeyInterruptTracks
<1>2. CASE Getchar
  <2>1. UNCHANGED deviceVars
    BY <1>2 DEF Getchar, GetcharTest, GetcharRead, GetcharAdvance
  <2> QED BY <1>2, <2>1, GetcharReads, DeviceRests DEF KbInv
<1>3. CASE Handle \/ Sleep \/ TimerInterrupt \/ UNCHANGED vars
  <2>1. /\ UNCHANGED <<deviceVars, ringVars, out>>
        /\ (kpc' = kpc /\ c' = c) \/ kpc' = "test"
    BY <1>3 DEF Handle, Sleep, TimerInterrupt, vars, deviceVars, shellVars
  <2> QED BY <2>1, RingRests, DeviceRests DEF KbInv
<1> QED BY <1>1, <1>2, <1>3 DEF KbNext, ShellStep

\* The inductive invariant holds of the handler and the shell's reading loop.
THEOREM KeyboardInvariant == KbSpec => []KbInv
<1>1. KbInit => KbInv
  BY KbInitInv DEF KbInit
<1>2. KbInv /\ [KbNext]_vars => KbInv'
  BY KbNextInv
<1> QED BY <1>1, <1>2, PTL DEF KbSpec

\* keyboard_handler knows which shift keys are down, for every keyboard, though
\* the device sends shift codes of its own around extended keys.
THEOREM ShiftIsTracked == KbSpec => []ShiftTracksKeys
<1>1. KbInv => ShiftTracksKeys
  BY DEF KbInv
<1> QED BY <1>1, KeyboardInvariant, PTL

\* kb_push and kb_getchar implement a queue of KB_BUF_SIZE - 1 characters, for
\* every size of the buffer and wherever the interrupts fall.
THEOREM RingIsQueue == KbSpec => QueueSpec
<1>1. KbInit => Queue!Init
  BY KbInitInv DEF KbInit
<1>2. KbInv /\ [KbNext]_vars => [Queue!Next]_(Queue!qvars)
  BY KbNextInv
<1> QED BY <1>1, <1>2, KeyboardInvariant, PTL DEF KbSpec, QueueSpec, Queue!Spec

-----------------------------------------------------------------------------
(* Printing a list of items. *)

\* f[n] is the display s after the first n of len items.
IsShown(f, s, items, len) ==
  f = [n \in 0 .. len |-> IF n = 0 THEN s ELSE Show(f[n - 1], items[n])]

\* A non-empty set of naturals has a least element.
LEMMA LeastNatural ==
  ASSUME NEW S, S \subseteq Nat, S # {}
  PROVE  \E x \in S : \A y \in S : x <= y
<1>1. PICK R : R = OpToRel(<, Nat)
  BY Zenon
<1>2. IsWellFoundedOn(R, Nat)
  BY <1>1, NatLessThanWellFounded, Zenon
<1>3. PICK x \in S : \A y \in S : <<y, x>> \notin R
  BY ONLY <1>2, S \subseteq Nat, S # {}, WFMin, Zenon
<1>4. \A a, b \in Nat : b < a => <<b, a>> \in R
  BY <1>1 DEF OpToRel
<1>5. \A y \in S : ~(y < x)
  BY ONLY <1>3, <1>4, S \subseteq Nat, x \in S, Zenon
<1> QED BY <1>5

\* The function that print computes exists.
LEMMA ShownExists ==
  ASSUME NEW s, NEW items, NEW len \in Nat
  PROVE  \E f : IsShown(f, s, items, len)
<1> DEFINE bad == {n \in Nat : ~\E f : IsShown(f, s, items, n)}
<1> SUFFICES ASSUME bad # {} PROVE FALSE
  BY Zenon
<1>1. PICK m \in bad : \A y \in bad : m <= y
  <2>1. bad \subseteq Nat
    BY Zenon
  <2> HIDE DEF bad
  <2> QED BY <2>1, LeastNatural, Zenon
<1>2. m \in Nat /\ ~\E f : IsShown(f, s, items, m)
  OBVIOUS
<1>3. CASE m = 0
  <2>1. PICK f : f = [n \in 0 .. m |-> s]
    BY Zenon
  <2>2. \A n \in 0 .. m : n = 0
    BY <1>3
  <2>3. f = [n \in 0 .. m |-> IF n = 0 THEN s ELSE Show(f[n - 1], items[n])]
    BY ONLY <2>1, <2>2
  <2> QED BY <1>2, <2>3 DEF IsShown
<1>4. CASE m # 0
  <2>1. m - 1 \in Nat /\ ~(m <= m - 1)
    BY <1>2, <1>4
  <2>2. m - 1 \notin bad
    BY <1>1, <2>1
  <2>3. PICK f : IsShown(f, s, items, m - 1)
    BY <2>1, <2>2
  <2>4. PICK k \in Nat : k = m - 1
    BY <2>1
  <2>5. /\ \A n \in 0 .. m : n \in 0 .. k \/ n = m
        /\ \A n \in 1 .. k : n - 1 \in 0 .. k /\ n - 1 \in 0 .. m /\ n - 1 # m
        /\ k \in 0 .. m /\ k # m /\ m \notin 0 .. k /\ 0 .. k \subseteq 0 .. m
    BY <1>2, <1>4, <2>4
  <2>6. PICK g : g = [n \in 0 .. m |-> IF n = m THEN Show(f[k], items[m]) ELSE f[n]]
    BY Zenon
  <2>7. \A n \in 0 .. k : f[n] = IF n = 0 THEN s ELSE Show(f[n - 1], items[n])
    BY ONLY <2>3, <2>4, Zenon DEF IsShown
  <2>8. g[m] = Show(f[k], items[m]) /\ \A n \in 0 .. m : n # m => g[n] = f[n]
    BY <1>2, <2>6
  <2>9. ASSUME NEW n \in 0 .. m PROVE g[n] = IF n = 0 THEN s ELSE Show(g[n - 1], items[n])
    <3>1. CASE n = m
      <4>1. g[n - 1] = f[k] /\ n # 0
        BY <1>4, <2>4, <2>5, <2>8, <3>1, Zenon
      <4> QED BY ONLY <2>8, <3>1, <4>1, Zenon
    <3>2. CASE n # m /\ n # 0
      <4>1. n \in 1 .. k /\ n \in 0 .. k
        BY ONLY <2>5, <3>2
      <4>2. g[n - 1] = f[n - 1] /\ g[n] = f[n]
        BY ONLY <2>5, <2>8, <3>2, <4>1, Zenon
      <4> QED BY ONLY <2>7, <3>2, <4>1, <4>2, Zenon
    <3>3. CASE n = 0
      <4>1. n \in 0 .. k /\ n # m
        BY ONLY <1>4, <2>4, <3>3
      <4>2. f[n] = s /\ g[n] = f[n]
        BY <2>7, <2>8, <3>3, <4>1
      <4> QED BY ONLY <3>3, <4>2
    <3> QED BY <3>1, <3>2, <3>3, Zenon
  <2>10. g = [n \in 0 .. m |-> g[n]]
    BY <2>6
  <2>11. g = [n \in 0 .. m |-> IF n = 0 THEN s ELSE Show(g[n - 1], items[n])]
    BY ONLY <2>9, <2>10, Zenon
  <2> QED BY <1>2, <2>11 DEF IsShown
<1> QED BY <1>3, <1>4

\* What print returns is the last value of that function.
LEMMA PrintIsShown ==
  ASSUME NEW s, NEW items, Len(items) \in Nat
  PROVE  \E f : IsShown(f, s, items, Len(items)) /\ print(s, items) = f[Len(items)]
<1>1. PICK f : f = CHOOSE g : g = [n \in 0 .. Len(items) |-> IF n = 0 THEN s ELSE Show(g[n - 1], items[n])]
  OBVIOUS
<1>2. \E g : g = [n \in 0 .. Len(items) |-> IF n = 0 THEN s ELSE Show(g[n - 1], items[n])]
  <2>1. \E g : IsShown(g, s, items, Len(items))
    BY ShownExists, Zenon
  <2> QED BY ONLY <2>1, Zenon DEF IsShown
<1>3. IsShown(f, s, items, Len(items))
  BY ONLY <1>1, <1>2, Zenon DEF IsShown
<1>4. print(s, items) = f[Len(items)]
  BY ONLY <1>1, Zenon DEF print
<1> QED BY <1>3, <1>4

\* Each of the items keeps the cursor in the rows lo to hi.
ItemsKeep(items, h, lo, hi) ==
  \A i \in 1 .. Len(items) : \A x :
    RowIn(x, lo, hi) /\ x.h = h => RowIn(Show(x, items[i]), lo, hi) /\ Show(x, items[i]).h = h

\* What the printing of each item keeps, the printing of all of them keeps.
LEMMA PrintKeepsRow ==
  ASSUME NEW s, NEW items, Len(items) \in Nat, NEW h, NEW lo, NEW hi,
         RowIn(s, lo, hi), s.h = h, ItemsKeep(items, h, lo, hi)
  PROVE  RowIn(print(s, items), lo, hi) /\ print(s, items).h = h
<1>1. PICK f : IsShown(f, s, items, Len(items)) /\ print(s, items) = f[Len(items)]
  BY PrintIsShown, Zenon
<1>2. \A n \in 0 .. Len(items) : f[n] = IF n = 0 THEN s ELSE Show(f[n - 1], items[n])
  BY ONLY <1>1, Zenon DEF IsShown
<1> DEFINE Good(n) == RowIn(f[n], lo, hi) /\ f[n].h = h
           bad == {n \in 0 .. Len(items) : ~Good(n)}
<1>3. ASSUME bad # {} PROVE FALSE
  <2>1. bad \subseteq Nat
    OBVIOUS
  <2>2. PICK m \in bad : \A y \in bad : m <= y
    <3> HIDE DEF bad
    <3> QED BY <1>3, <2>1, LeastNatural, Zenon
  <2>3. m \in 0 .. Len(items) /\ ~Good(m)
    BY Zenon
  <2>4. m # 0
    BY <1>2, <2>3, Zenon
  <2>5. m - 1 \in 0 .. Len(items) /\ m \in 1 .. Len(items) /\ ~(m <= m - 1)
    BY <2>3, <2>4
  <2>6. Good(m - 1)
    BY ONLY <2>2, <2>5, Zenon
  <2>7. f[m] = Show(f[m - 1], items[m])
    BY <1>2, <2>3, <2>4
  <2>8. Good(m)
    BY ONLY <2>5, <2>6, <2>7, ItemsKeep(items, h, lo, hi), Zenon DEF ItemsKeep
  <2> QED BY <2>3, <2>8
<1>4. Len(items) \in 0 .. Len(items)
  OBVIOUS
<1> QED BY ONLY <1>1, <1>3, <1>4, Zenon

-----------------------------------------------------------------------------
(* The row of the cursor. *)

\* Drawing leaves the cursor and the size alone.
LEMMA DrawLeaves ==
  ASSUME NEW s, DOMAIN s = Fields, NEW ch, NEW x, NEW y, NEW t, t = draw_char(s, ch, x, y)
  PROVE  DOMAIN t = Fields /\ t.w = s.w /\ t.h = s.h /\ t.x = s.x /\ t.y = s.y
BY DEF draw_char, Fields

\* So does a scroll but for the row.
LEMMA ScrollLeaves ==
  ASSUME NEW s, DOMAIN s = Fields, NEW t, t = scroll(s)
  PROVE  DOMAIN t = Fields /\ t.w = s.w /\ t.h = s.h /\ t.x = s.x /\ t.y = s.y - 1
<1>1. PICK a : a = MoveUp(s)
  BY Zenon
<1>2. DOMAIN a = Fields /\ a.w = s.w /\ a.h = s.h /\ a.x = s.x
  BY <1>1 DEF MoveUp, Fields
<1>3. PICK b : b = SetRow(a, s.y - 1)
  BY Zenon
<1>4. DOMAIN b = Fields /\ b.w = s.w /\ b.h = s.h /\ b.x = s.x /\ b.y = s.y - 1
  BY <1>2, <1>3 DEF SetRow, Fields
<1>5. t = MarkAll(b)
  BY <1>1, <1>3, Zenon DEF scroll
<1> QED BY ONLY <1>4, <1>5 DEF MarkAll, Fields

\* The rows in which a task that prints text finds and leaves the cursor: all
\* but the last, or the last one alone.
Rows(s, lo, hi) ==
  /\ lo \in Nat
  /\ hi = s.h - 2 \/ (lo = s.h - 1 /\ hi = s.h - 1)

\* A new line keeps the cursor in these rows.
LEMMA NewLineStays ==
  ASSUME NEW s, NEW lo, NEW hi, RowIn(s, lo, hi), Rows(s, lo, hi), NEW t, t = NewLine(s)
  PROVE  RowIn(t, lo, hi) /\ t.h = s.h
<1>1. PICK next : next = [SetRow(s, s.y + 1) EXCEPT !.x = 0]
  BY Zenon
<1>2. /\ DOMAIN s = Fields /\ s.w \in Nat \ {0} /\ s.h \in Nat \ {0, 1}
      /\ lo \in Nat /\ hi \in Int /\ s.y \in Int /\ lo <= s.y /\ s.y <= hi
  BY DEF RowIn, Rows
<1>3. DOMAIN next = Fields /\ next.w = s.w /\ next.h = s.h /\ next.x = 0 /\ next.y = s.y + 1
  BY ONLY <1>1, <1>2 DEF SetRow, Fields
<1>4. CASE AtBottom(next)
  <2>1. t = scroll(next)
    BY <1>1, <1>4, Zenon DEF NewLine
  <2>2. DOMAIN t = Fields /\ t.w = s.w /\ t.h = s.h /\ t.x = 0 /\ t.y = (s.y + 1) - 1
    BY ONLY <1>3, <2>1, ScrollLeaves
  <2> QED BY ONLY <1>2, <2>2 DEF RowIn
<1>5. CASE ~AtBottom(next)
  <2>1. t = next
    BY <1>1, <1>5, Zenon DEF NewLine
  <2>2. s.y + 1 \in lo .. hi
    <3>1. ~(s.y + 1 + 1 >= s.h)
      BY ONLY <1>3, <1>5 DEF AtBottom
    <3> QED BY ONLY <1>2, <3>1, Rows(s, lo, hi) DEF Rows
  <2> QED BY ONLY <1>2, <1>3, <2>1, <2>2 DEF RowIn
<1> QED BY <1>4, <1>5

\* So does a character.
LEMMA PutCharStays ==
  ASSUME NEW s, NEW lo, NEW hi, RowIn(s, lo, hi), Rows(s, lo, hi), NEW ch, NEW t, t = PutChar(s, ch)
  PROVE  RowIn(t, lo, hi) /\ t.h = s.h
<1>1. PICK a : a = Marked(s, ch)
  BY Zenon
<1>2. /\ DOMAIN s = Fields /\ s.x \in Nat
  BY DEF RowIn
<1>3. DOMAIN a = Fields /\ a.w = s.w /\ a.h = s.h /\ a.x = s.x /\ a.y = s.y
  BY ONLY <1>1, <1>2 DEF Marked, Fields
<1>4. PICK b : b = draw_char(a, ch, s.x, s.y)
  BY Zenon
<1>5. DOMAIN b = Fields /\ b.w = s.w /\ b.h = s.h /\ b.x = s.x /\ b.y = s.y
  BY ONLY <1>3, <1>4, DrawLeaves
<1>6. PICK next : next = [b EXCEPT !.x = (@ + 1) % Columns]
  BY Zenon
<1>7. /\ DOMAIN next = Fields /\ next.w = s.w /\ next.h = s.h /\ next.y = s.y
      /\ next.x = (s.x + 1) % Columns
  BY ONLY <1>5, <1>6, Zenon DEF Fields
<1>8. next.x \in Nat
  BY <1>2, <1>7 DEF Columns
<1>9. RowIn(next, lo, hi) /\ Rows(next, lo, hi)
  BY ONLY <1>7, <1>8, RowIn(s, lo, hi), Rows(s, lo, hi), Zenon DEF RowIn, Rows
<1>10. t = IF AtEdge(next) THEN NewLine(next) ELSE next
  BY ONLY <1>1, <1>4, <1>6, t = PutChar(s, ch), ZenonT(60) DEF PutChar
<1>11. CASE AtEdge(next)
  <2>1. t = NewLine(next)
    BY <1>10, <1>11
  <2>2. RowIn(t, lo, hi) /\ t.h = next.h
    BY ONLY <1>9, <2>1, NewLineStays, Zenon
  <2> QED BY <1>7, <2>2
<1>12. CASE ~AtEdge(next)
  BY ONLY <1>7, <1>9, <1>10, <1>12, Zenon
<1> QED BY <1>11, <1>12

\* An erased character moves the cursor to the left, or up to row 0 at most.
LEMMA EraseStays ==
  ASSUME NEW s, NEW hi, RowIn(s, 0, hi), hi = s.h - 2, NEW t, t = EraseLeft(s)
  PROVE  RowIn(t, 0, hi) /\ t.h = s.h
<1>1. /\ DOMAIN s = Fields /\ s.w \in Nat \ {0} /\ s.h \in Nat \ {0, 1} /\ s.x \in Nat
      /\ s.y \in Int /\ 0 <= s.y /\ s.y <= hi /\ hi \in Int
  BY DEF RowIn
<1>2. CASE s.x = 0 /\ s.y = 0
  BY <1>2 DEF EraseLeft
<1>3. CASE ~(s.x = 0 /\ s.y = 0)
  <2>1. PICK back : back = IF s.x >= 1 THEN [s EXCEPT !.x = @ - 1]
                           ELSE [SetRow(s, s.y - 1) EXCEPT !.x = s.w - 1]
    BY Zenon
  <2>2. /\ DOMAIN back = Fields /\ back.w = s.w /\ back.h = s.h /\ back.x \in Nat
        /\ back.y \in 0 .. hi
    <3>1. CASE s.x >= 1
      <4>1. back = [s EXCEPT !.x = s.x - 1]
        BY ONLY <2>1, <3>1, Zenon
      <4> QED BY ONLY <1>1, <3>1, <4>1 DEF Fields
    <3>2. CASE ~(s.x >= 1)
      <4>1. PICK up : up = SetRow(s, s.y - 1)
        BY Zenon
      <4>2. DOMAIN up = Fields /\ up.w = s.w /\ up.h = s.h /\ up.y = s.y - 1
        BY ONLY <1>1, <4>1 DEF SetRow, Fields
      <4>3. back = [up EXCEPT !.x = s.w - 1]
        BY <2>1, <3>2, <4>1
      <4>4. DOMAIN back = Fields /\ back.w = s.w /\ back.h = s.h /\ back.x = s.w - 1 /\ back.y = s.y - 1
        BY ONLY <4>2, <4>3 DEF Fields
      <4> QED BY ONLY <1>1, <1>3, <3>2, <4>4
    <3> QED BY <3>1, <3>2
  <2>3. t = draw_char(back, BLANK, back.x, back.y)
    BY ONLY <1>3, <2>1, t = EraseLeft(s), ZenonT(60) DEF EraseLeft
  <2>4. DOMAIN t = Fields /\ t.w = back.w /\ t.h = back.h /\ t.x = back.x /\ t.y = back.y
    BY ONLY <2>2, <2>3, DrawLeaves
  <2> QED BY ONLY <1>1, <2>2, <2>4 DEF RowIn
<1> QED BY <1>2, <1>3

\* display_flush leaves the cursor alone.
LEMMA FlushLeaves ==
  ASSUME NEW s, DOMAIN s = Fields, NEW t, t = display_flush(s)
  PROVE  DOMAIN t = Fields /\ t.w = s.w /\ t.h = s.h /\ t.x = s.x /\ t.y = s.y
BY DEF display_flush, Fields

\* display_clear moves it to row 0.
LEMMA ClearLeaves ==
  ASSUME NEW s, DOMAIN s = Fields, NEW t, t = display_clear(s)
  PROVE  DOMAIN t = Fields /\ t.w = s.w /\ t.h = s.h /\ t.x = 0 /\ t.y = 0
<1>1. PICK a : a = SetRow(s, 0)
  BY Zenon
<1>2. DOMAIN a = Fields /\ a.w = s.w /\ a.h = s.h /\ a.y = 0
  BY <1>1 DEF SetRow, Fields
<1>3. PICK b : b = [a EXCEPT !.shadow = BlankScreen(s), !.x = 0]
  BY Zenon
<1>4. DOMAIN b = Fields /\ b.w = s.w /\ b.h = s.h /\ b.x = 0 /\ b.y = 0
  BY ONLY <1>2, <1>3 DEF Fields
<1>5. t = MarkAll(b)
  BY ONLY <1>1, <1>3, t = display_clear(s), Zenon DEF display_clear
<1> QED BY ONLY <1>4, <1>5 DEF MarkAll, Fields

\* Whatever is printed, the cursor does not enter the last row.
LEMMA ShowStays ==
  ASSUME NEW s, NEW hi, RowIn(s, 0, hi), hi = s.h - 2, NEW item, NEW t, t = Show(s, item)
  PROVE  RowIn(t, 0, hi) /\ t.h = s.h
<1>1. Rows(s, 0, hi)
  BY DEF Rows
<1>2. /\ DOMAIN s = Fields /\ s.w \in Nat \ {0} /\ s.h \in Nat \ {0, 1} /\ s.x \in Nat
      /\ s.y \in 0 .. hi
  BY Zenon DEF RowIn
<1>3. CASE item = FLUSH
  <2>1. t = display_flush(s)
    BY <1>3 DEF Show, FLUSH, CLEAR
  <2> QED BY ONLY <1>2, <2>1, FlushLeaves DEF RowIn
<1>4. CASE item = CLEAR
  <2>1. t = display_clear(s)
    BY <1>4 DEF Show, FLUSH, CLEAR
  <2>2. DOMAIN t = Fields /\ t.w = s.w /\ t.h = s.h /\ t.x = 0 /\ t.y = 0
    BY ONLY <1>2, <2>1, ClearLeaves
  <2>3. 0 \in 0 .. hi
    BY <1>2
  <2> QED BY ONLY <1>2, <2>2, <2>3 DEF RowIn
<1>5. CASE item \notin {FLUSH, CLEAR}
  <2>0. t = print_char(s, item)
    BY <1>5 DEF Show
  <2>1. CASE item = NEWLINE
    <3>1. t = NewLine(s)
      BY <2>0, <2>1 DEF print_char, NEWLINE, RETURN, BACKSPACE
    <3> QED BY ONLY <1>1, <3>1, RowIn(s, 0, hi), NewLineStays
  <2>2. CASE item = RETURN
    <3>1. t = [s EXCEPT !.x = 0]
      BY <2>0, <2>2 DEF print_char, NEWLINE, RETURN, BACKSPACE
    <3> QED BY ONLY <1>2, <3>1 DEF RowIn, Fields
  <2>3. CASE item = BACKSPACE
    <3>1. t = EraseLeft(s)
      BY <2>0, <2>3 DEF print_char, NEWLINE, RETURN, BACKSPACE
    <3> QED BY ONLY <3>1, RowIn(s, 0, hi), hi = s.h - 2, EraseStays
  <2>4. CASE item \notin {NEWLINE, RETURN, BACKSPACE}
    <3>1. t = PutChar(s, item)
      BY <2>0, <2>4 DEF print_char
    <3> QED BY ONLY <1>1, <3>1, RowIn(s, 0, hi), PutCharStays
  <2> QED BY <2>1, <2>2, <2>3, <2>4
<1> QED BY <1>3, <1>4, <1>5

\* What the shell prints alone keeps the cursor above the last row.
LEMMA PrintStays ==
  ASSUME NEW s, NEW hi, RowIn(s, 0, hi), hi = s.h - 2, NEW items, Len(items) \in Nat,
         NEW t, t = print(s, items)
  PROVE  RowIn(t, 0, hi) /\ t.h = s.h
<1>1. PICK h : h = s.h
  BY Zenon
<1>2. ASSUME NEW i \in 1 .. Len(items), NEW x, RowIn(x, 0, hi), x.h = h
      PROVE  RowIn(Show(x, items[i]), 0, hi) /\ Show(x, items[i]).h = h
  <2>1. hi = x.h - 2
    BY <1>1, <1>2
  <2>2. RowIn(Show(x, items[i]), 0, hi) /\ Show(x, items[i]).h = x.h
    <3>1. PICK t1 : t1 = Show(x, items[i])
      BY Zenon
    <3>2. RowIn(t1, 0, hi) /\ t1.h = x.h
      BY ONLY <1>2, <2>1, <3>1, ShowStays
    <3> QED BY <3>1, <3>2, Zenon
  <2> QED BY <1>2, <2>2
<1>3. RowIn(print(s, items), 0, hi) /\ print(s, items).h = h
  <2>1. ItemsKeep(items, h, 0, hi)
    BY ONLY <1>2, Zenon DEF ItemsKeep
  <2> QED BY <1>1, <2>1, PrintKeepsRow
<1> QED BY <1>1, <1>3

\* What RowOK says of the display, whatever the shell is about to do.
LEMMA RowFacts ==
  ASSUME RowOK
  PROVE  /\ DOMAIN d = Fields /\ d.w \in Nat \ {0} /\ d.h \in Nat \ {0, 1} /\ d.x \in Nat
         /\ d.y \in Int /\ 0 <= d.y /\ d.y <= d.h - 1 /\ d.h \in Nat /\ d.h >= 2
         /\ ppc \notin {"bottom", "scroll", "load_row", "store_row"} => d.y <= d.h - 2
<1>1. RowIn(d, 0, d.h - 1)
  BY Zenon DEF RowOK
<1>2. ppc \notin {"bottom", "scroll", "load_row", "store_row"} => d.y <= d.h - 2
  BY Zenon DEF RowOK
<1>3. /\ DOMAIN d = Fields /\ d.w \in Nat \ {0} /\ d.h \in Nat \ {0, 1} /\ d.x \in Nat
      /\ d.y \in 0 .. d.h - 1
  BY ONLY <1>1, Zenon DEF RowIn
<1>4. d.y \in Int /\ 0 <= d.y /\ d.y <= d.h - 1 /\ d.h \in Nat /\ d.h >= 2
  BY ONLY <1>3
<1> QED BY ONLY <1>2, <1>3, <1>4, Zenon

\* The display t has the size of d and the cursor in the same row.
SameRow(t) == DOMAIN t = Fields /\ t.w = d.w /\ t.h = d.h /\ t.x \in Nat /\ t.y = d.y

\* A step inside print_char or display_flush that leaves the row alone.
LEMMA RowRests ==
  ASSUME RowOK, NEW t, SameRow(t), d' = t, reg' \in Int,
         ppc \notin {"bottom", "scroll", "load_row", "store_row"},
         ppc' \notin {"bottom", "scroll", "load_row", "store_row", "store_y", "load_up", "store_up"}
  PROVE  RowOK'
<1>1. /\ d.w \in Nat \ {0} /\ d.h \in Nat \ {0, 1} /\ d.y <= d.h - 2
      /\ d.y \in Int /\ 0 <= d.y /\ d.y <= d.h - 1
  BY RowFacts, Zenon
<1>2. RowIn(t, 0, t.h - 1) /\ t.y <= t.h - 2
  BY ONLY <1>1, SameRow(t) DEF RowIn, SameRow
<1>3. RowIn(d', 0, d'.h - 1) /\ d'.y <= d'.h - 2
  BY ONLY <1>2, d' = t, Zenon
<1> QED BY <1>3, Zenon DEF RowOK

\* Displays with the cursor in the same row.
LEMMA SameRows ==
  ASSUME RowOK
  PROVE  /\ SameRow(d)
         /\ \A x \in Nat : SameRow([d EXCEPT !.x = x])
         /\ \A ch, x, y : SameRow(draw_char(Marked(d, ch), ch, x, y))
         /\ \A ch, x, y : SameRow(draw_char(d, ch, x, y))
         /\ SameRow(MarkAll(d))
         /\ SameRow(MoveUp(d))
<1>1. DOMAIN d = Fields /\ d.x \in Nat
  BY RowFacts, Zenon
<1>2. SameRow(d)
  BY ONLY <1>1, Zenon DEF SameRow
<1>3. ASSUME NEW x \in Nat PROVE SameRow([d EXCEPT !.x = x])
  BY ONLY <1>1, x \in Nat DEF SameRow, Fields
<1>4. ASSUME NEW s, SameRow(s), NEW ch, NEW x, NEW y PROVE SameRow(draw_char(s, ch, x, y))
  <2>1. PICK t : t = draw_char(s, ch, x, y)
    BY Zenon
  <2>2. DOMAIN t = Fields /\ t.w = s.w /\ t.h = s.h /\ t.x = s.x /\ t.y = s.y
    BY ONLY <1>4, <2>1, DrawLeaves DEF SameRow
  <2> QED BY ONLY <1>4, <2>1, <2>2, Zenon DEF SameRow
<1>5. ASSUME NEW ch PROVE SameRow(Marked(d, ch))
  BY ONLY <1>1 DEF SameRow, Marked, Fields
<1>6. SameRow(MarkAll(d))
  BY ONLY <1>1 DEF SameRow, MarkAll, Fields
<1>7. SameRow(MoveUp(d))
  BY ONLY <1>1 DEF SameRow, MoveUp, Fields
<1> QED BY ONLY <1>2, <1>3, <1>4, <1>5, <1>6, <1>7, Zenon


\* The column is advanced, and at the edge of the screen a line begins.
LEMMA ColumnKeeps ==
  ASSUME RowOK, NEW ch, Draw(ch) \/ AdvanceColumn \/ StartLine(ch)
  PROVE  RowOK'
<1>1. reg \in Int /\ d.x \in Nat
  BY RowFacts, Zenon DEF RowOK
<1>2. CASE Draw(ch)
  <2>1. d' = draw_char(Marked(d, ch), ch, d.x, d.y) /\ reg' \in Int /\ ppc = "start" /\ ppc' = "load_x"
    BY <1>1, <1>2 DEF Draw, Store, To
  <2>2. SameRow(draw_char(Marked(d, ch), ch, d.x, d.y))
    BY SameRows, Zenon
  <2> QED BY <2>1, <2>2, RowRests
<1>3. CASE ppc = "load_x" /\ Load(d.x) /\ To("store_x")
  <2>1. d' = d /\ reg' \in Int /\ ppc = "load_x" /\ ppc' = "store_x"
    BY <1>1, <1>3 DEF Load, To
  <2>2. SameRow(d)
    BY SameRows, Zenon
  <2> QED BY <2>1, <2>2, RowRests
<1>c. (reg + 1) % Columns \in Nat
  BY <1>1 DEF Columns
<1>4. CASE ppc = "store_x" /\ Store([d EXCEPT !.x = (reg + 1) % Columns]) /\ To("edge")
  <2>1. d' = [d EXCEPT !.x = (reg + 1) % Columns] /\ reg' \in Int /\ ppc = "store_x" /\ ppc' = "edge"
    BY <1>1, <1>4 DEF Store, To
  <2>2. SameRow([d EXCEPT !.x = (reg + 1) % Columns])
    BY <1>c, SameRows, Zenon
  <2> QED BY <2>1, <2>2, RowRests
<1>5. CASE ppc = "edge" /\ Store([d EXCEPT !.x = 0]) /\ To("load_y")
  <2>1. d' = [d EXCEPT !.x = 0] /\ reg' \in Int /\ ppc = "edge" /\ ppc' = "load_y"
    BY <1>1, <1>5 DEF Store, To
  <2>2. SameRow([d EXCEPT !.x = 0])
    BY SameRows, 0 \in Nat, Zenon
  <2> QED BY <2>1, <2>2, RowRests
<1>6. CASE ppc = "edge" /\ Store(d) /\ To("start")
  <2>1. d' = d /\ reg' \in Int /\ ppc = "edge" /\ ppc' = "start"
    BY <1>1, <1>6 DEF Store, To
  <2>2. SameRow(d)
    BY SameRows, Zenon
  <2> QED BY <2>1, <2>2, RowRests
<1>7. CASE StartLine(ch)
  <2>1. d' = [d EXCEPT !.x = 0] /\ reg' \in Int /\ ppc = "start" /\ ppc' = "load_y"
    BY <1>1, <1>7 DEF StartLine, Store, To
  <2>2. SameRow([d EXCEPT !.x = 0])
    BY SameRows, 0 \in Nat, Zenon
  <2> QED BY <2>1, <2>2, RowRests
<1> QED BY <1>2, <1>3, <1>4, <1>5, <1>6, <1>7, Zenon DEF AdvanceColumn


\* The row is advanced, and at the bottom the screen scrolls.
LEMMA RowKeeps ==
  ASSUME RowOK, AdvanceRow
  PROVE  RowOK'
<1>1. /\ DOMAIN d = Fields /\ d.w \in Nat \ {0} /\ d.h \in Nat \ {0, 1} /\ d.x \in Nat
      /\ d.y \in Int /\ 0 <= d.y /\ d.y <= d.h - 1 /\ reg \in Int
  BY RowFacts, Zenon DEF RowOK
<1>2. \A y \in Int : d' = SetRow(d, y) =>
        DOMAIN d' = Fields /\ d'.w = d.w /\ d'.h = d.h /\ d'.x = d.x /\ d'.y = y
  BY ONLY <1>1, Zenon DEF SetRow, Fields
<1>3. CASE ppc = "load_y" /\ Load(d.y) /\ To("store_y")
  <2>1. d' = d /\ reg' = d.y /\ ppc' = "store_y" /\ d.y <= d.h - 2
    BY <1>3, RowFacts, Zenon DEF Load, To
  <2>2. RowIn(d, 0, d.h - 1) /\ reg' \in Int /\ reg' \in 0 .. d.h - 2
    BY ONLY <1>1, <2>1 DEF RowIn
  <2> QED BY ONLY <2>1, <2>2, Zenon DEF RowOK
<1>4. CASE ppc = "store_y" /\ Store(SetRow(d, reg + 1)) /\ To("bottom")
  <2>1. reg + 1 \in Int /\ d' = SetRow(d, reg + 1) /\ reg' = 0 /\ ppc' = "bottom"
    BY <1>1, <1>4 DEF Store, To
  <2>2. reg \in 0 .. d.h - 2
    BY <1>4, Zenon DEF RowOK
  <2>3. DOMAIN d' = Fields /\ d'.w = d.w /\ d'.h = d.h /\ d'.x = d.x /\ d'.y = reg + 1
    BY <1>2, <2>1, Zenon
  <2>4. RowIn(d', 0, d'.h - 1)
    BY ONLY <1>1, <2>2, <2>3 DEF RowIn
  <2> QED BY ONLY <2>1, <2>4 DEF RowOK
<1>5. CASE ppc = "bottom" /\ Store(d) /\ To(IF AtBottom(d) THEN "scroll" ELSE "start")
  <2>1. d' = d /\ reg' = 0
    BY <1>5 DEF Store
  <2>2. CASE AtBottom(d)
    <3>1. ppc' = "scroll"
      BY <1>5, <2>2 DEF To
    <3>2. d.y = d.h - 1 /\ RowIn(d, 0, d.h - 1)
      BY ONLY <1>1, <2>2 DEF AtBottom, RowIn
    <3> QED BY ONLY <2>1, <3>1, <3>2 DEF RowOK
  <2>3. CASE ~AtBottom(d)
    <3>1. ppc' = "start"
      BY <1>5, <2>3 DEF To
    <3>2. d.y <= d.h - 2 /\ RowIn(d, 0, d.h - 1)
      BY ONLY <1>1, <2>3 DEF AtBottom, RowIn
    <3> QED BY ONLY <2>1, <3>1, <3>2 DEF RowOK
  <2> QED BY <2>2, <2>3
<1>6. CASE ppc = "scroll" /\ Store(MoveUp(d)) /\ To("load_row")
  <2>1. d' = MoveUp(d) /\ reg' = 0 /\ ppc' = "load_row"
    BY <1>6 DEF Store, To
  <2>2. DOMAIN d' = Fields /\ d'.w = d.w /\ d'.h = d.h /\ d'.x = d.x /\ d'.y = d.y
    BY ONLY <1>1, <2>1 DEF MoveUp, Fields
  <2>3. d.y = d.h - 1
    BY <1>6, Zenon DEF RowOK
  <2>4. RowIn(d', 0, d'.h - 1) /\ d'.y = d'.h - 1
    BY ONLY <1>1, <2>2, <2>3 DEF RowIn
  <2> QED BY ONLY <2>1, <2>4 DEF RowOK
<1>7. CASE ppc = "load_row" /\ Load(d.y) /\ To("store_row")
  <2>1. d' = d /\ reg' = d.y /\ ppc' = "store_row"
    BY <1>7 DEF Load, To
  <2>2. d.y = d.h - 1
    BY <1>7, Zenon DEF RowOK
  <2>3. RowIn(d, 0, d.h - 1)
    BY ONLY <1>1 DEF RowIn
  <2> QED BY ONLY <1>1, <2>1, <2>2, <2>3 DEF RowOK
<1>8. CASE ppc = "store_row" /\ Store(SetRow(d, reg - 1)) /\ To("mark_all")
  <2>1. reg - 1 \in Int /\ d' = SetRow(d, reg - 1) /\ reg' = 0 /\ ppc' = "mark_all"
    BY <1>1, <1>8 DEF Store, To
  <2>2. reg = d.h - 1
    BY <1>8, Zenon DEF RowOK
  <2>3. DOMAIN d' = Fields /\ d'.w = d.w /\ d'.h = d.h /\ d'.x = d.x /\ d'.y = reg - 1
    BY <1>2, <2>1, Zenon
  <2>4. RowIn(d', 0, d'.h - 1) /\ d'.y <= d'.h - 2
    BY ONLY <1>1, <2>2, <2>3 DEF RowIn
  <2> QED BY ONLY <2>1, <2>4 DEF RowOK
<1>9. CASE ppc = "mark_all" /\ Store(MarkAll(d)) /\ To("start")
  <2>1. d' = MarkAll(d) /\ reg' \in Int /\ ppc = "mark_all" /\ ppc' = "start"
    BY <1>9 DEF Store, To
  <2>2. SameRow(MarkAll(d))
    BY SameRows, Zenon
  <2> QED BY <2>1, <2>2, RowRests
<1> QED BY <1>3, <1>4, <1>5, <1>6, <1>7, <1>8, <1>9, Zenon DEF AdvanceRow

\* The cursor goes back.
LEMMA EraseKeeps ==
  ASSUME RowOK, NEW ch, Erase(ch)
  PROVE  RowOK'
<1>1. /\ DOMAIN d = Fields /\ d.w \in Nat \ {0} /\ d.h \in Nat \ {0, 1} /\ d.x \in Nat
      /\ d.y \in Int /\ 0 <= d.y /\ d.y <= d.h - 1 /\ reg \in Int
  BY RowFacts, Zenon DEF RowOK
<1>2. CASE ppc = "start" /\ Store(d) /\ To("load_up") /\ d.y >= 1
  <2>1. d' = d /\ reg' = 0 /\ ppc' = "load_up" /\ d.y <= d.h - 2 /\ d.y >= 1
    BY <1>2, RowFacts DEF Store, To
  <2>2. RowIn(d, 0, d.h - 1)
    BY ONLY <1>1 DEF RowIn
  <2> QED BY ONLY <2>1, <2>2 DEF RowOK
<1>3. CASE ppc = "load_up" /\ Load(d.y) /\ To("store_up")
  <2>1. d' = d /\ reg' = d.y /\ ppc' = "store_up" /\ d.y <= d.h - 2
    BY <1>3, RowFacts DEF Load, To
  <2>2. d.y >= 1
    BY <1>3, Zenon DEF RowOK
  <2>3. RowIn(d, 0, d.h - 1) /\ reg' \in Int /\ reg' \in 1 .. d.h - 2
    BY ONLY <1>1, <2>1, <2>2 DEF RowIn
  <2> QED BY ONLY <2>1, <2>3 DEF RowOK
<1>4. CASE ppc = "store_up" /\ Store(SetRow(d, reg - 1)) /\ To("right")
  <2>1. reg - 1 \in Int /\ d' = SetRow(d, reg - 1) /\ reg' = 0 /\ ppc' = "right"
    BY <1>1, <1>4 DEF Store, To
  <2>2. reg \in 1 .. d.h - 2
    BY <1>4, Zenon DEF RowOK
  <2>3. DOMAIN d' = Fields /\ d'.w = d.w /\ d'.h = d.h /\ d'.x = d.x /\ d'.y = reg - 1
    BY ONLY <1>1, <2>1 DEF SetRow, Fields
  <2>4. RowIn(d', 0, d'.h - 1) /\ d'.y <= d'.h - 2
    BY ONLY <1>1, <2>2, <2>3 DEF RowIn
  <2> QED BY ONLY <2>1, <2>4 DEF RowOK
<1>c. (reg - 1) % Columns \in Nat /\ d.w - 1 \in Nat
  BY <1>1 DEF Columns
<1>5. CASE ppc = "start" /\ Store(d) /\ To("load_left")
  <2>1. d' = d /\ reg' \in Int /\ ppc = "start" /\ ppc' = "load_left"
    BY <1>1, <1>5 DEF Store, To
  <2>2. SameRow(d)
    BY SameRows, Zenon
  <2> QED BY <2>1, <2>2, RowRests
<1>6. CASE ppc = "start" /\ Store(d) /\ To("start")
  <2>1. d' = d /\ reg' \in Int /\ ppc = "start" /\ ppc' = "start"
    BY <1>1, <1>6 DEF Store, To
  <2>2. SameRow(d)
    BY SameRows, Zenon
  <2> QED BY <2>1, <2>2, RowRests
<1>7. CASE ppc = "load_left" /\ Load(d.x) /\ To("store_left")
  <2>1. d' = d /\ reg' \in Int /\ ppc = "load_left" /\ ppc' = "store_left"
    BY <1>1, <1>7 DEF Load, To
  <2>2. SameRow(d)
    BY SameRows, Zenon
  <2> QED BY <2>1, <2>2, RowRests
<1>8. CASE ppc = "store_left" /\ Store([d EXCEPT !.x = (reg - 1) % Columns]) /\ To("blank")
  <2>1. d' = [d EXCEPT !.x = (reg - 1) % Columns] /\ reg' \in Int /\ ppc = "store_left" /\ ppc' = "blank"
    BY <1>1, <1>8 DEF Store, To
  <2>2. SameRow([d EXCEPT !.x = (reg - 1) % Columns])
    BY <1>c, SameRows, Zenon
  <2> QED BY <2>1, <2>2, RowRests
<1>9. CASE ppc = "right" /\ Store([d EXCEPT !.x = d.w - 1]) /\ To("blank")
  <2>1. d' = [d EXCEPT !.x = d.w - 1] /\ reg' \in Int /\ ppc = "right" /\ ppc' = "blank"
    BY <1>1, <1>9 DEF Store, To
  <2>2. SameRow([d EXCEPT !.x = d.w - 1])
    BY <1>c, SameRows, Zenon
  <2> QED BY <2>1, <2>2, RowRests
<1>10. CASE ppc = "blank" /\ Store(draw_char(d, BLANK, d.x, d.y)) /\ To("start")
  <2>1. d' = draw_char(d, BLANK, d.x, d.y) /\ reg' \in Int /\ ppc = "blank" /\ ppc' = "start"
    BY <1>1, <1>10 DEF Store, To
  <2>2. SameRow(draw_char(d, BLANK, d.x, d.y))
    BY SameRows, Zenon
  <2> QED BY <2>1, <2>2, RowRests
<1> QED BY <1>2, <1>3, <1>4, <1>5, <1>6, <1>7, <1>8, <1>9, <1>10, Zenon DEF Erase

\* display_flush copies rows and leaves the cursor alone.
LEMMA FlushKeeps ==
  ASSUME RowOK, NEW item, Flush(item)
  PROVE  RowOK'
<1>1. reg \in Int /\ DOMAIN d = Fields /\ d.x \in Nat
  BY RowFacts, Zenon DEF RowOK
<1>2. /\ \E t : d' = t /\ SameRow(t)
      /\ reg' \in Int /\ ppc \in {"start", "copy", "clean"} /\ ppc' \in {"start", "copy", "clean"}
  <2>1. CASE ppc = "start" /\ Load(0) /\ To(IF d.dirty THEN "copy" ELSE "start")
    <3>1. d' = d /\ reg' \in Int /\ ppc' \in {"start", "copy", "clean"}
      BY <2>1 DEF Load, To
    <3> QED BY <2>1, <3>1, SameRows
  <2>2. CASE ppc = "copy" /\ Store([d EXCEPT !.dirty = FALSE]) /\ To("start")
    <3>1. SameRow([d EXCEPT !.dirty = FALSE])
      BY ONLY <1>1 DEF SameRow, Fields
    <3> QED BY <2>2, <3>1 DEF Store, To
  <2>3. CASE ppc = "copy" /\ d' = [d EXCEPT !.fb[reg] = d.shadow[reg]] /\ To("clean") /\ UNCHANGED reg
    <3>1. SameRow([d EXCEPT !.fb[reg] = d.shadow[reg]])
      BY ONLY <1>1 DEF SameRow, Fields
    <3> QED BY <1>1, <2>3, <3>1 DEF To
  <2>4. CASE ppc = "copy" /\ Load(reg + 1) /\ To("copy")
    <3>1. d' = d /\ reg' \in Int /\ ppc' = "copy"
      BY <1>1, <2>4 DEF Load, To
    <3> QED BY <2>4, <3>1, SameRows
  <2>5. CASE ppc = "clean" /\ d' = [d EXCEPT !.dirty_rows = @ \ {reg}] /\ reg' = reg + 1 /\ To("copy")
    <3>1. SameRow([d EXCEPT !.dirty_rows = @ \ {reg}])
      BY ONLY <1>1 DEF SameRow, Fields
    <3> QED BY <1>1, <2>5, <3>1 DEF To
  <2> QED BY <2>1, <2>2, <2>3, <2>4, <2>5, Zenon DEF Flush
<1>3. PICK t : d' = t /\ SameRow(t)
  BY <1>2
<1>4. /\ ppc \notin {"bottom", "scroll", "load_row", "store_row"}
      /\ ppc' \notin {"bottom", "scroll", "load_row", "store_row", "store_y", "load_up", "store_up"}
  BY <1>2
<1> QED BY <1>2, <1>3, <1>4, RowRests, Zenon

\* display_clear blanks the screen and moves the cursor home.
LEMMA ClearKeeps ==
  ASSUME RowOK, NEW item, Clear(item)
  PROVE  RowOK'
<1>1. /\ DOMAIN d = Fields /\ d.w \in Nat \ {0} /\ d.h \in Nat \ {0, 1} /\ d.x \in Nat
  BY RowFacts, Zenon
<1>2. CASE ppc = "start" /\ Store(MarkAll([d EXCEPT !.shadow = BlankScreen(d)])) /\ To("home_x")
  <2>1. PICK s : s = [d EXCEPT !.shadow = BlankScreen(d)]
    BY Zenon
  <2>2. DOMAIN s = Fields /\ s.w = d.w /\ s.h = d.h /\ s.x = d.x /\ s.y = d.y
    BY ONLY <1>1, <2>1 DEF Fields
  <2>3. SameRow(MarkAll(s))
    BY ONLY <1>1, <2>2 DEF SameRow, MarkAll, Fields
  <2>4. d' = MarkAll(s) /\ reg' \in Int /\ ppc = "start" /\ ppc' = "home_x"
    BY <1>2, <2>1 DEF Store, To
  <2> QED BY <2>3, <2>4, RowRests
<1>3. CASE ppc = "home_x" /\ Store([d EXCEPT !.x = 0]) /\ To("home_y")
  <2>1. d' = [d EXCEPT !.x = 0] /\ reg' \in Int /\ ppc = "home_x" /\ ppc' = "home_y"
    BY <1>3 DEF Store, To
  <2>2. SameRow([d EXCEPT !.x = 0])
    BY SameRows, 0 \in Nat, Zenon
  <2> QED BY <2>1, <2>2, RowRests
<1>4. CASE ppc = "home_y" /\ Store(SetRow(d, 0)) /\ To("start")
  <2>1. d' = SetRow(d, 0) /\ reg' = 0 /\ ppc' = "start"
    BY <1>4 DEF Store, To
  <2>2. DOMAIN d' = Fields /\ d'.w = d.w /\ d'.h = d.h /\ d'.x = d.x /\ d'.y = 0
    BY ONLY <1>1, <2>1 DEF SetRow, Fields
  <2>3. RowIn(d', 0, d'.h - 1) /\ d'.y <= d'.h - 2
    BY ONLY <1>1, <2>2 DEF RowIn
  <2> QED BY ONLY <2>1, <2>3 DEF RowOK
<1> QED BY <1>2, <1>3, <1>4, Zenon DEF Clear

-----------------------------------------------------------------------------
(* Reading the clock. *)

\* bcd_to_bin undoes the clock's coding of a number of two digits.
LEMMA BcdRoundTrip ==
  ASSUME NEW v \in 0 .. 99, NEW r, r = 16 * (v \div 10) + (v % 10)
  PROVE  /\ r \in Nat /\ bcd_to_bin(r) = v
         /\ v <= 12 => r <= 18
<1>1. PICK a \in Int, b \in Int : a = v \div 10 /\ b = v % 10
  OBVIOUS
<1>2. v = 10 * a + b /\ b \in 0 .. 9 /\ a \in 0 .. 9
  BY ONLY <1>1, v \in 0 .. 99
<1>3. r = 16 * a + b
  BY <1>1
<1>4. r \div 16 = a /\ r % 16 = b /\ r \in Nat
  BY ONLY <1>2, <1>3
<1>5. bcd_to_bin(r) = v
  BY ONLY <1>2, <1>4 DEF bcd_to_bin
<1>6. v <= 12 => r <= 18
  BY ONLY <1>2, <1>3
<1> QED BY ONLY <1>4, <1>5, <1>6

\* What the driver makes of the register of one field.
DecodedField(f, r) ==
  LET bin(v) == IF clock.bcd THEN bcd_to_bin(v) ELSE v
  IN  CASE f = HOUR -> decode_hour(r, clock.bcd, clock.h24)
        [] f = YEAR -> 2000 + (bin(r) % 100)
        [] OTHER -> bin(r)

\* The driver decodes a number that the clock has coded.
LEMMA CodedDecodes ==
  ASSUME clock.bcd \in BOOLEAN, NEW v \in 0 .. 99, NEW r, r = Coded(v)
  PROVE  /\ r \in Nat
         /\ (IF clock.bcd THEN bcd_to_bin(r) ELSE r) = v
         /\ v <= 12 => r <= 18
<1>1. CASE clock.bcd
  BY <1>1, BcdRoundTrip DEF Coded
<1>2. CASE ~clock.bcd
  BY <1>2 DEF Coded
<1> QED BY <1>1, <1>2

\* The hour in both modes.
LEMMA HourDecodes ==
  ASSUME clock.bcd \in BOOLEAN, clock.h24 \in BOOLEAN,
         NEW v \in 0 .. 23, NEW r, r = Register(HOUR, v)
  PROVE  r \in Int /\ DecodedField(HOUR, r) = v
<1>1. DecodedField(HOUR, r) = decode_hour(r, clock.bcd, clock.h24)
  BY DEF DecodedField, HOUR, YEAR
<1>2. CASE clock.h24
  <2>1. r = Coded(v) /\ v \in 0 .. 99
    BY <1>2 DEF Register, HOUR, YEAR
  <2>2. /\ r \in Nat /\ (IF clock.bcd THEN bcd_to_bin(r) ELSE r) = v
    BY ONLY <2>1, clock.bcd \in BOOLEAN, CodedDecodes
  <2>3. r < 128
    <3>1. CASE clock.bcd
      BY <2>1, <3>1 DEF Coded
    <3>2. CASE ~clock.bcd
      BY <2>1, <3>2 DEF Coded
    <3> QED BY <3>1, <3>2
  <2>4. r % 128 = r
    BY ONLY <2>2, <2>3
  <2>5. decode_hour(r, clock.bcd, clock.h24) = IF clock.bcd THEN bcd_to_bin(r) ELSE r
    BY ONLY <1>2, <2>4, Zenon DEF decode_hour
  <2> QED BY ONLY <1>1, <2>2, <2>5
<1>3. CASE ~clock.h24
  <2>0. PICK w \in 1 .. 12 : w = IF v % 12 = 0 THEN 12 ELSE v % 12
    OBVIOUS
  <2>1. PICK s : s = Coded(w)
    BY Zenon
  <2>2. r = s + (IF v >= 12 THEN 128 ELSE 0)
    <3>1. r = Coded(IF v % 12 = 0 THEN 12 ELSE v % 12) + (IF v >= 12 THEN 128 ELSE 0)
      BY <1>3 DEF Register, HOUR, YEAR
    <3> QED BY ONLY <2>0, <2>1, <3>1, Zenon
  <2>3. s \in Nat /\ (IF clock.bcd THEN bcd_to_bin(s) ELSE s) = w /\ s <= 18
    <3>1. w \in 0 .. 99 /\ w <= 12
      OBVIOUS
    <3> QED BY ONLY <2>1, <3>1, clock.bcd \in BOOLEAN, CodedDecodes
  <2>4. r % 128 = s /\ r \in Int /\ (r >= 128 <=> v >= 12)
    BY ONLY <2>2, <2>3, v \in 0 .. 23
  <2>5. PICK hour : hour = IF clock.bcd THEN bcd_to_bin(r % 128) ELSE r % 128
    BY Zenon
  <2>6. hour = w
    BY ONLY <2>3, <2>4, <2>5
  <2>7. decode_hour(r, clock.bcd, clock.h24) =
          CASE r >= 128 /\ hour < 12 -> hour + 12
            [] ~(r >= 128) /\ hour = 12 -> 0
            [] OTHER -> hour
    BY ONLY <1>3, <2>5 DEF decode_hour
  <2>8. decode_hour(r, clock.bcd, clock.h24) = v
    BY ONLY <2>0, <2>4, <2>6, <2>7, v \in 0 .. 23
  <2> QED BY ONLY <1>1, <2>4, <2>8
<1> QED BY <1>2, <1>3

\* In every mode of the clock the driver gets back what a register shows.
LEMMA RegisterDecodes ==
  ASSUME clock.bcd \in BOOLEAN, clock.h24 \in BOOLEAN,
         NEW t, IsTime(t), NEW f \in SECOND .. YEAR, NEW r, r = Register(f, t[f])
  PROVE  r \in Int /\ DecodedField(f, r) = t[f]
<1>1. CASE f = HOUR
  <2>1. PICK v \in 0 .. 23 : v = t[HOUR]
    BY DEF IsTime
  <2>2. r = Register(HOUR, v)
    BY <1>1, <2>1
  <2> QED BY <1>1, <2>1, <2>2, HourDecodes, ZenonT(60)
<1>2. CASE f = YEAR
  <2>1. PICK v \in 2000 .. 2099 : v = t[YEAR]
    BY DEF IsTime
  <2>2. PICK w \in 0 .. 99 : w = v % 100 /\ v = 2000 + w
    OBVIOUS
  <2>3. r = Coded(w)
    <3>1. r = Register(YEAR, v)
      BY ONLY <1>2, <2>1, r = Register(f, t[f])
    <3>2. Register(YEAR, v) = Coded(v % 100)
      BY ONLY TRUE DEF Register, HOUR, YEAR
    <3> QED BY ONLY <2>2, <3>1, <3>2
  <2>4. r \in Nat /\ (IF clock.bcd THEN bcd_to_bin(r) ELSE r) = w
    BY ONLY <2>3, w \in 0 .. 99, clock.bcd \in BOOLEAN, CodedDecodes
  <2>5. w % 100 = w
    OBVIOUS
  <2>6. DecodedField(f, r) = 2000 + ((IF clock.bcd THEN bcd_to_bin(r) ELSE r) % 100)
    BY <1>2 DEF DecodedField, HOUR, YEAR
  <2>7. DecodedField(f, r) = 2000 + w
    BY ONLY <2>4, <2>5, <2>6
  <2>8. DecodedField(f, r) = t[f]
    <3>1. t[f] = v
      BY ONLY <1>2, <2>1
    <3>2. DecodedField(f, r) = v
      BY <2>2, <2>7
    <3> QED BY ONLY <3>1, <3>2
  <2> QED BY ONLY <2>4, <2>8, SMTT(60)
<1>3. CASE f # HOUR /\ f # YEAR
  <2>1. PICK v \in 0 .. 99 : v = t[f]
    <3>1. f \in {SECOND, MINUTE, DAY, MONTH}
      BY <1>3 DEF SECOND, MINUTE, HOUR, DAY, MONTH, YEAR
    <3>2. t[f] \in 0 .. 99
      <4>1. /\ t[SECOND] \in 0 .. 99 /\ t[MINUTE] \in 0 .. 99
            /\ t[DAY] \in 0 .. 99 /\ t[MONTH] \in 0 .. 99
        <5>1. /\ t[SECOND] \in 0 .. 59 /\ t[MINUTE] \in 0 .. 59
              /\ t[DAY] \in 1 .. 31 /\ t[MONTH] \in 1 .. 12
          BY ONLY IsTime(t) DEF IsTime
        <5> QED BY ONLY <5>1
      <4> QED BY ONLY <3>1, <4>1, ZenonT(60)
    <3> QED BY <3>2
  <2>2. r = Coded(v)
    BY <1>3, <2>1, Zenon DEF Register
  <2>3. r \in Nat /\ (IF clock.bcd THEN bcd_to_bin(r) ELSE r) = v
    BY ONLY <2>2, v \in 0 .. 99, clock.bcd \in BOOLEAN, CodedDecodes
  <2>4. DecodedField(f, r) = IF clock.bcd THEN bcd_to_bin(r) ELSE r
    BY <1>3 DEF DecodedField
  <2> QED BY ONLY <2>1, <2>3, <2>4
<1> QED BY <1>1, <1>2, <1>3

\* Decoded field by field.
LEMMA DecodedIs ==
  ASSUME NEW regs, NEW f \in SECOND .. YEAR
  PROVE  Decoded(regs)[f] = DecodedField(f, regs[f])
<1>1. CASE f = HOUR
  BY <1>1 DEF Decoded, DecodedField, HOUR, YEAR
<1>2. CASE f = YEAR
  BY <1>2 DEF Decoded, DecodedField, HOUR, YEAR
<1>3. CASE f # HOUR /\ f # YEAR
  BY <1>3 DEF Decoded, DecodedField
<1> QED BY <1>1, <1>2, <1>3

\* Two readings that agree, one finished before the time n was shown and one
\* started while it was, are both readings of the time n.
LEMMA AgreeingReadings ==
  ASSUME clock.bcd \in BOOLEAN, clock.h24 \in BOOLEAN, NEW times, times = clock.times,
         Steady(times), NEW n \in Nat, NEW hi \in Nat, 1 <= n, n <= Len(times), hi <= Len(times),
         NEW regs, ReadIn(regs, YEAR, 1, n), ReadIn(regs, YEAR, n, hi)
  PROVE  \A f \in SECOND .. YEAR : Decoded(regs)[f] = times[n][f]
<1> SUFFICES ASSUME NEW f \in SECOND .. YEAR
             PROVE  Decoded(regs)[f] = times[n][f]
  OBVIOUS
<1>1. f \in 1 .. YEAR /\ (f = SECOND \/ f \in MINUTE .. YEAR)
  BY DEF SECOND, MINUTE, YEAR
<1>2. PICK a \in 1 .. n : regs[f] = Register(f, times[a][f])
  BY <1>1, Zenon DEF ReadIn
<1>3. PICK b \in n .. hi : regs[f] = Register(f, times[b][f])
  BY <1>1, Zenon DEF ReadIn
<1>4. /\ a \in 1 .. Len(times) /\ b \in 1 .. Len(times) /\ n \in a .. b
      /\ a <= n /\ n <= b
  <2>1. Len(times) \in Nat
    BY DEF Steady
  <2> QED BY ONLY <2>1, a \in 1 .. n, b \in n .. hi, n \in Nat, hi \in Nat, 1 <= n,
                  n <= Len(times), hi <= Len(times)
<1>5. IsTime(times[a]) /\ IsTime(times[b])
  BY <1>4, Zenon DEF Steady
<1>6. PICK r, ta, tb : r = regs[f] /\ ta = times[a] /\ tb = times[b]
  BY Zenon
<1>7. DecodedField(f, r) = ta[f] /\ DecodedField(f, r) = tb[f]
  <2>1. r = Register(f, ta[f]) /\ r = Register(f, tb[f]) /\ IsTime(ta) /\ IsTime(tb)
    BY ONLY <1>2, <1>3, <1>5, <1>6, Zenon
  <2> QED BY <2>1, RegisterDecodes, Zenon
<1>8. PICK v : v = DecodedField(f, r)
  BY Zenon
<1>9. times[a][f] = v /\ times[b][f] = v
  BY ONLY <1>6, <1>7, <1>8, Zenon
<1>10. times[n][f] = v
  <2>1. CASE f = SECOND
    <3>1. a = b
      <4>1. \A i, j \in 1 .. Len(times) : times[i][SECOND] = times[j][SECOND] => i = j
        BY Zenon DEF Steady
      <4> QED BY ONLY <1>4, <1>9, <2>1, <4>1
    <3>2. a = n
      BY ONLY <1>4, <3>1, n \in Nat, a \in 1 .. n, b \in n .. hi, SMTT(60)
    <3> QED BY ONLY <1>9, <3>2, Zenon
  <2>2. CASE f \in MINUTE .. YEAR
    <3>1. \A i, j \in 1 .. Len(times) : \A k \in i .. j : \A g \in MINUTE .. YEAR :
            times[i][g] = times[j][g] => times[k][g] = times[i][g]
      BY Zenon DEF Steady
    <3> QED BY ONLY <1>4, <1>9, <2>2, <3>1
  <2> QED BY ONLY <1>1, <2>1, <2>2, Zenon
<1>11. Decoded(regs)[f] = DecodedField(f, r)
  BY <1>6, DecodedIs
<1> QED BY ONLY <1>8, <1>10, <1>11

\* A reading stays what it is while the clock goes on.
LEMMA ReadingStays ==
  ASSUME clock'.times = clock.times, clock'.bcd = clock.bcd, clock'.h24 = clock.h24
  PROVE  /\ prev' = prev => \A n, lo, hi : ReadIn(prev, n, lo, hi) => ReadIn(prev, n, lo, hi)'
         /\ cur' = cur => \A n, lo, hi : ReadIn(cur, n, lo, hi) => ReadIn(cur, n, lo, hi)'
<1>1. \A v : Coded(v)' = Coded(v)
  BY Zenon DEF Coded
<1>2. \A f, v : Register(f, v)' = Register(f, v)
  BY <1>1, Zenon DEF Register
<1>3. ASSUME prev' = prev, NEW n, NEW lo, NEW hi, ReadIn(prev, n, lo, hi)
      PROVE  ReadIn(prev, n, lo, hi)'
  BY <1>2, <1>3, Zenon DEF ReadIn
<1>4. ASSUME cur' = cur, NEW n, NEW lo, NEW hi, ReadIn(cur, n, lo, hi)
      PROVE  ReadIn(cur, n, lo, hi)'
  BY <1>2, <1>4, Zenon DEF ReadIn
<1> QED BY <1>3, <1>4, Zenon

\* A reading made in some rows of time was made in more of them.
LEMMA ReadWider ==
  ASSUME NEW regs, NEW m, NEW lo \in Int, NEW hi \in Int, NEW hi2 \in Int, hi <= hi2,
         ReadIn(regs, m, lo, hi)
  PROVE  ReadIn(regs, m, lo, hi2)
<1>1. lo .. hi \subseteq lo .. hi2
  BY ONLY lo \in Int, hi \in Int, hi2 \in Int, hi <= hi2
<1> QED BY <1>1, Zenon DEF ReadIn

\* What is true of the clock during a call.
LEMMA ClockFacts ==
  ASSUME ClockOK
  PROVE  /\ clock.now \in Nat /\ Len(clock.times) \in Nat /\ Latest \in Nat
         /\ 1 <= clock.now /\ clock.now <= Latest /\ Latest <= Len(clock.times)
<1>1. Len(clock.times) \in Nat
  BY Zenon DEF ClockOK, Steady
<1>2. clock.now \in 1 .. Len(clock.times) /\ Latest <= Len(clock.times) /\ clock.updating \in BOOLEAN
  BY Zenon DEF ClockOK
<1> QED BY ONLY <1>1, <1>2 DEF Latest

\* The clock begins an update, or ends it.
LEMMA UpdateKeeps ==
  ASSUME RtcInv, ClockUpdates
  PROVE  RtcInv'
<1>1. ClockOK /\ rpc' = rpc /\ prev' = prev /\ cur' = cur /\ stamp' = stamp
  BY Zenon DEF RtcInv, ClockUpdates
<1>2. /\ clock.now \in Nat /\ Len(clock.times) \in Nat /\ Latest \in Nat
      /\ 1 <= clock.now /\ clock.now <= Latest /\ Latest <= Len(clock.times)
  BY <1>1, ClockFacts
<1>3. DOMAIN clock = {"times", "bcd", "h24", "now", "updating"} /\ clock.updating \in BOOLEAN
  BY <1>1, Zenon DEF ClockOK
<1>4. /\ DOMAIN clock' = DOMAIN clock
      /\ clock'.times = clock.times /\ clock'.bcd = clock.bcd /\ clock'.h24 = clock.h24
      /\ \/ /\ ~clock.updating /\ clock.now < Len(clock.times)
            /\ clock'.updating = TRUE /\ clock'.now = clock.now
         \/ clock.updating /\ clock'.updating = FALSE /\ clock'.now = clock.now + 1
  <2>1. CASE /\ ~clock.updating /\ clock.now < Len(clock.times)
             /\ clock' = [clock EXCEPT !.updating = TRUE]
    BY ONLY <1>3, <2>1
  <2>2. CASE clock.updating /\ clock' = [clock EXCEPT !.updating = FALSE, !.now = @ + 1]
    BY ONLY <1>3, <2>2, ZenonT(60)
  <2> QED BY <2>1, <2>2, Zenon DEF ClockUpdates
<1>5. /\ Latest' \in Nat /\ Latest <= Latest' /\ Latest' <= Len(clock.times)
      /\ clock'.now \in 1 .. Len(clock.times) /\ clock.now <= clock'.now
  BY ONLY <1>2, <1>3, <1>4 DEF Latest
<1>6. ClockOK'
  <2>1. Steady(clock'.times)
    BY <1>1, <1>4, Zenon DEF ClockOK
  <2>2. clock'.bcd \in BOOLEAN /\ clock'.h24 \in BOOLEAN /\ clock'.updating \in BOOLEAN
    BY <1>1, <1>4, Zenon DEF ClockOK
  <2> QED BY ONLY <1>3, <1>4, <1>5, <2>1, <2>2, Zenon DEF ClockOK
<1>7. PICK l \in Nat, k \in Nat : l = Latest /\ k = Latest' /\ l <= k
  BY <1>2, <1>5
<1>8. CASE rpc = "wait" /\ PrevOK /\ ReadIn(prev, Len(prev), 1, Latest)
  <2>1. PICK m : m = Len(prev)
    BY Zenon
  <2>2. ReadIn(prev, m, 1, k)
    BY ONLY <1>7, <1>8, <2>1, ReadWider
  <2>3. ReadIn(prev, m, 1, k)'
    BY <1>1, <1>4, <2>2, ReadingStays, Zenon
  <2>4. PrevOK' /\ m = Len(prev')
    BY <1>1, <1>8, <2>1, Zenon DEF PrevOK
  <2> QED BY <1>1, <1>6, <1>7, <1>8, <2>3, <2>4, Zenon DEF RtcInv
<1>9. CASE /\ rpc = "read" /\ PrevOK /\ cur \in Seq(Int) /\ Len(cur) < YEAR
           /\ \E n \in 1 .. clock.now :
                ReadIn(prev, Len(prev), 1, n) /\ ReadIn(cur, Len(cur), n, Latest)
  <2>1. PICK n \in 1 .. clock.now :
          ReadIn(prev, Len(prev), 1, n) /\ ReadIn(cur, Len(cur), n, Latest)
    BY <1>9, Zenon
  <2>2. PICK m, o : m = Len(prev) /\ o = Len(cur)
    BY Zenon
  <2>3. n \in Int /\ n \in 1 .. clock'.now
    BY ONLY <1>2, <1>4, n \in 1 .. clock.now
  <2>4. ReadIn(prev, m, 1, n) /\ ReadIn(cur, o, n, k)
    BY ONLY <1>7, <2>1, <2>2, <2>3, ReadWider
  <2>5. ReadIn(prev, m, 1, n)' /\ ReadIn(cur, o, n, k)'
    BY <1>1, <1>4, <2>4, ReadingStays, Zenon
  <2>6. PrevOK' /\ m = Len(prev') /\ o = Len(cur') /\ cur' \in Seq(Int) /\ Len(cur') < YEAR
    BY <1>1, <1>9, <2>2, Zenon DEF PrevOK
  <2> QED BY <1>1, <1>6, <1>7, <1>9, <2>3, <2>5, <2>6, Zenon DEF RtcInv
<1>10. CASE rpc = "idle" /\ stamp # NoTime /\ ClockNotTorn
  <2>1. PICK i \in 1 .. clock.now : \A f \in SECOND .. YEAR : stamp[f] = clock.times[i][f]
    BY <1>10, Zenon DEF ClockNotTorn
  <2>2. i \in 1 .. clock'.now
    BY ONLY <1>2, <1>4, i \in 1 .. clock.now
  <2>3. ClockNotTorn'
    BY <1>1, <1>4, <2>1, <2>2, Zenon DEF ClockNotTorn
  <2> QED BY <1>1, <1>6, <1>10, <2>3, ZenonT(60) DEF RtcInv, NoTime
<1> QED BY <1>8, <1>9, <1>10, Zenon DEF RtcInv, ClockUpdates

\* rtc_read_datetime is called.
LEMMA StartKeeps ==
  ASSUME RtcInv, NEW clocks, \A k \in clocks : RealClock(k), StartRead(clocks)
  PROVE  RtcInv'
<1>1. clock = NoClock /\ prev = <<>> /\ stamp = NoTime /\ prev' = prev /\ stamp' = stamp
      /\ rpc' = "wait"
  BY Zenon DEF RtcInv, StartRead
<1>2. PICK k \in clocks :
        clock' = [times |-> k.times, bcd |-> k.bcd, h24 |-> k.h24, now |-> 1, updating |-> k.updating]
  BY Zenon DEF StartRead
<1>3. RealClock(k)
  BY Zenon
<1>4. PICK ts, b, h, g : ts = k.times /\ b = k.bcd /\ h = k.h24 /\ g = k.updating
  BY Zenon
<1>5. /\ b \in BOOLEAN /\ h \in BOOLEAN /\ g \in BOOLEAN /\ Steady(ts) /\ (g => Len(ts) > 1)
  BY <1>3, <1>4, Zenon DEF RealClock
<1>6. clock' = [times |-> ts, bcd |-> b, h24 |-> h, now |-> 1, updating |-> g]
  BY <1>2, <1>4, Zenon
<1>7. /\ DOMAIN clock' = {"times", "bcd", "h24", "now", "updating"}
      /\ clock'.times = ts /\ clock'.bcd = b /\ clock'.h24 = h /\ clock'.now = 1
      /\ clock'.updating = g
  BY ONLY <1>6
<1>8. Len(ts) \in Nat \ {0}
  BY <1>5, Zenon DEF Steady
<1>9. 1 \in 1 .. Len(ts) /\ Latest' <= Len(ts)
  BY ONLY <1>5, <1>7, <1>8 DEF Latest
<1>10. ClockOK'
  BY ONLY <1>5, <1>7, <1>9, Zenon DEF ClockOK
<1>11. PrevOK' /\ Len(prev') = 0
  BY ONLY <1>1 DEF PrevOK
<1>12. ReadIn(prev, Len(prev), 1, Latest)'
  <2>1. 1 .. 0 = {}
    OBVIOUS
  <2> QED BY <1>11, <2>1, Zenon DEF ReadIn
<1> QED BY <1>1, <1>10, <1>11, <1>12, Zenon DEF RtcInv

\* The wait is over: a reading starts while no update is going on.
LEMMA WaitKeeps ==
  ASSUME RtcInv, WaitForClock
  PROVE  RtcInv'
<1>1. /\ ClockOK /\ PrevOK /\ ReadIn(prev, Len(prev), 1, Latest) /\ ~clock.updating
      /\ clock' = clock /\ rpc' = "read" /\ prev' = prev /\ cur' = <<>> /\ stamp' = stamp
  BY RtcInv, WaitForClock, "wait" # "read", "wait" # "idle", Zenon DEF RtcInv, WaitForClock
<1>2. PICK n : n = clock.now
  BY Zenon
<1>3. n \in 1 .. clock.now /\ Latest = n
  BY <1>1, <1>2, ClockFacts DEF Latest
<1>4. PICK m : m = Len(prev)
  BY Zenon
<1>5. ReadIn(prev, m, 1, n)'
  <2>1. ReadIn(prev, m, 1, n)
    BY <1>1, <1>3, <1>4, Zenon
  <2> QED BY <1>1, <2>1, ReadingStays, Zenon
<1>6. cur' \in Seq(Int) /\ Len(cur') = 0 /\ Len(cur') < YEAR
  BY ONLY <1>1 DEF YEAR
<1>7. ReadIn(cur, Len(cur), n, Latest)'
  <2>1. 1 .. 0 = {}
    OBVIOUS
  <2> QED BY <1>6, <2>1, Zenon DEF ReadIn
<1>8. ClockOK' /\ PrevOK' /\ m = Len(prev') /\ n \in 1 .. clock'.now
  BY <1>1, <1>3, <1>4, Zenon DEF ClockOK, PrevOK, Latest
<1> QED BY <1>1, <1>5, <1>6, <1>7, <1>8, Zenon DEF RtcInv

\* A register is read; the last one ends the call if the readings agree.
LEMMA ReadKeeps ==
  ASSUME RtcInv, ReadRegister
  PROVE  RtcInv'
<1>1. /\ ClockOK /\ rpc = "read" /\ PrevOK /\ cur \in Seq(Int) /\ Len(cur) < YEAR
      /\ \E n \in 1 .. clock.now :
           ReadIn(prev, Len(prev), 1, n) /\ ReadIn(cur, Len(cur), n, Latest)
      /\ clock' = clock
  BY "read" # "wait", "read" # "idle", Zenon DEF RtcInv, ReadRegister
<1>2. PICK n \in 1 .. clock.now :
        ReadIn(prev, Len(prev), 1, n) /\ ReadIn(cur, Len(cur), n, Latest)
  BY <1>1, Zenon
<1>3. /\ clock.now \in Nat /\ Len(clock.times) \in Nat /\ Latest \in Nat
      /\ 1 <= clock.now /\ clock.now <= Latest /\ Latest <= Len(clock.times)
  BY <1>1, ClockFacts
<1>4. PICK o \in Nat : o = Len(cur) + 1 /\ o <= YEAR /\ 1 <= o
  BY ONLY <1>1 DEF YEAR
<1>5. PICK v : v \in cmos_read(o) /\ cur' = Append(cur, v)
  BY <1>4, Zenon DEF ReadRegister
<1>6. PICK i \in n .. Latest : v = Register(o, clock.times[i][o])
  <2>1. PICK j \in clock.now .. (IF clock.updating THEN clock.now + 1 ELSE clock.now) :
          v = Register(o, clock.times[j][o])
    BY <1>5, Zenon DEF cmos_read
  <2>2. j \in n .. Latest
    BY ONLY <1>3, <2>1, n \in 1 .. clock.now,
            j \in clock.now .. (IF clock.updating THEN clock.now + 1 ELSE clock.now) DEF Latest
  <2> QED BY <2>1, <2>2, Zenon
<1>7. v \in Int
  <2>1. PICK t : t = clock.times[i]
    BY Zenon
  <2>2. i \in 1 .. Len(clock.times)
    BY ONLY <1>3, n \in 1 .. clock.now, i \in n .. Latest
  <2>3. IsTime(t) /\ clock.bcd \in BOOLEAN /\ clock.h24 \in BOOLEAN
    BY <1>1, <2>1, <2>2, Zenon DEF ClockOK, Steady
  <2>4. o \in SECOND .. YEAR
    BY ONLY <1>4 DEF SECOND, YEAR
  <2> QED BY <1>6, <2>1, <2>3, <2>4, RegisterDecodes, Zenon
<1>8. /\ cur' \in Seq(Int) /\ Len(cur') = o /\ cur'[o] = v
      /\ \A f \in 1 .. Len(cur) : cur'[f] = cur[f]
  BY ONLY <1>1, <1>4, <1>5, <1>7
<1>9. PICK regs : regs = cur'
  BY Zenon
<1>10. ReadIn(regs, o, n, Latest)
  <2>1. ASSUME NEW f \in 1 .. o
        PROVE  \E j \in n .. Latest : regs[f] = Register(f, clock.times[j][f])
    <3>1. CASE f = o
      BY <1>6, <1>8, <1>9, <3>1
    <3>2. CASE f # o
      <4>1. f \in 1 .. Len(cur)
        BY ONLY <1>1, <1>4, <3>2, f \in 1 .. o
      <4>2. regs[f] = cur[f]
        BY <1>8, <1>9, <4>1
      <4> QED BY <1>2, <4>1, <4>2, Zenon DEF ReadIn
    <3> QED BY <3>1, <3>2
  <2> QED BY <2>1, Zenon DEF ReadIn
<1>11. ClockOK' /\ Latest' = Latest
  BY <1>1, Zenon DEF ClockOK, Latest
<1>12. \A m, lo, hi : ReadIn(regs, m, lo, hi) => ReadIn(cur, m, lo, hi)'
  <2>1. \A f, w : Register(f, w)' = Register(f, w)
    BY <1>1, ZenonT(60) DEF Register, Coded
  <2> QED BY <1>1, <1>9, <2>1, Zenon DEF ReadIn
<1>13. CASE o < YEAR
  <2>1. rpc' = rpc /\ prev' = prev /\ stamp' = stamp
    BY <1>8, <1>13 DEF ReadRegister
  <2>2. PICK m : m = Len(prev)
    BY Zenon
  <2>3. ReadIn(prev, m, 1, n)'
    BY <1>1, <1>2, <2>1, <2>2, ReadingStays, Zenon
  <2>4. ReadIn(cur, Len(cur), n, Latest)'
    BY <1>8, <1>10, <1>11, <1>12, Zenon
  <2>5. PrevOK' /\ m = Len(prev') /\ n \in 1 .. clock'.now
    BY <1>1, <2>1, <2>2, Zenon DEF PrevOK
  <2>6. Len(cur') < YEAR
    BY <1>8, <1>13
  <2> QED BY <1>1, <1>8, <1>11, <2>1, <2>3, <2>4, <2>5, <2>6, Zenon DEF RtcInv
<1>14. CASE o = YEAR /\ Agree(prev, cur')
  <2>1. stamp' = Decoded(cur') /\ rpc' = "idle"
    BY <1>8, <1>14 DEF ReadRegister
  <2>2. prev = regs /\ Len(prev) = YEAR
    BY <1>8, <1>9, <1>14 DEF Agree
  <2>3. PICK ts, hi, k : ts = clock.times /\ hi = Latest /\ k = clock.now
    BY Zenon
  <2>4. /\ Steady(ts) /\ n \in Nat /\ hi \in Nat /\ 1 <= n /\ n <= Len(ts) /\ hi <= Len(ts)
    <3>1. Steady(ts)
      BY <1>1, <2>3, Zenon DEF ClockOK
    <3> QED BY <1>3, <2>3, <3>1
  <2>5. ReadIn(regs, YEAR, 1, n) /\ ReadIn(regs, YEAR, n, hi)
    BY <1>2, <1>10, <1>14, <2>2, <2>3, Zenon
  <2>6. clock.bcd \in BOOLEAN /\ clock.h24 \in BOOLEAN
    BY <1>1, Zenon DEF ClockOK
  <2>7. \A f \in SECOND .. YEAR : Decoded(regs)[f] = ts[n][f]
    BY ONLY <2>3, <2>4, <2>5, <2>6, AgreeingReadings
  <2>8. stamp' = Decoded(regs)
    BY <1>9, <2>1, Zenon
  <2>9. stamp' # NoTime
    <3>1. DOMAIN Decoded(regs) = 1 .. 6 /\ DOMAIN NoTime = {} /\ 1 \in 1 .. 6
      BY DEF Decoded, NoTime, SECOND, YEAR
    <3> QED BY <2>8, <3>1
  <2>10. ClockNotTorn'
    <3>1. n \in 1 .. clock'.now /\ clock'.times = ts
      BY ONLY <1>1, <2>3, Zenon
    <3>2. \A f \in SECOND .. YEAR : stamp'[f] = clock'.times[n][f]
      BY ONLY <2>7, <2>8, <3>1
    <3> QED BY <3>1, <3>2, Zenon DEF ClockNotTorn
  <2> QED BY <1>11, <2>1, <2>9, <2>10, Zenon DEF RtcInv, NoTime
<1>15. CASE o = YEAR /\ ~Agree(prev, cur')
  <2>1. prev' = cur' /\ rpc' = "wait" /\ stamp' = stamp
    BY <1>8, <1>15 DEF ReadRegister
  <2>2. PrevOK'
    <3>1. stamp = NoTime
      BY <1>1, Zenon DEF PrevOK
    <3> QED BY <1>8, <1>15, <2>1, <3>1 DEF PrevOK
  <2>3. PICK k : k = Latest
    BY Zenon
  <2>4. ReadIn(regs, o, 1, k)
    <3>1. 1 .. k = 1 .. k /\ n .. k \subseteq 1 .. k
      BY ONLY <1>3, <2>3, n \in 1 .. clock.now
    <3> QED BY <1>10, <2>3, <3>1, Zenon DEF ReadIn
  <2>5. ReadIn(cur, o, 1, k)'
    BY <1>12, <2>4, Zenon
  <2>6. ReadIn(prev, o, 1, k)'
    BY <2>1, <2>5, Zenon DEF ReadIn
  <2> QED BY <1>8, <1>11, <2>1, <2>2, <2>3, <2>6, Zenon DEF RtcInv
<1> QED BY <1>4, <1>13, <1>14, <1>15 DEF YEAR
=============================================================================
