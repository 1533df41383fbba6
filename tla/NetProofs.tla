------------------------------- MODULE NetProofs -------------------------------
(***************************************************************************)
(* The two halves of the modem driver.                                     *)
(*                                                                         *)
(* RxRing: the receive ring is never overrun, and hands its bytes out in   *)
(* order, for every size, water mark and latency, as long as the ring has  *)
(* room for the disk operations between two times that net_rx() finds it   *)
(* nearly empty (Roomy).                                                   *)
(*                                                                         *)
(* Line: for any number of calls, of lines typed and of refused bytes, its *)
(* types, CallerIsHeard and FreshBytes.                                    *)
(***************************************************************************)
EXTENDS RxRing, Line, SequenceTheorems, TLAPS

(***************************************************************************)
(* The receive ring (RxRing).                                              *)
(***************************************************************************)

\* What one time of putting RTS back can bring: the byte that makes the interrupt
\* drop it again, and those that are under way by then.
Gulp == Slack + 1

Bound == High - 1 + (MaxIo + 4) * Gulp

\* The ring is as large as the traffic asks for.
Roomy == Size >= Bound

-----------------------------------------------------------------------------
(* The inductive invariant. *)

Reg == IF rdr = 0 THEN 0 ELSE 1

\* How often RTS may still be put back before net_rx() next finds the ring below Low.
Asserts == MaxIo - io + (IF s_hold_depth > 0 \/ step = "release" THEN 1 ELSE 0)
                      + (IF step = "rts" THEN 1 ELSE 0)
                      + (IF step = "flush" THEN 0 ELSE IF step = "dtr" THEN 1 ELSE 2)

\* The two indices are as far apart as there are bytes waiting.
CountInv ==
  /\ Waiting \in 0..Size
  /\ s_rx_tail = (s_rx_head + Waiting) % Wrap
  /\ rdr \in {0, nsent}

\* The waiting bytes lie in the ring in the order in which they were sent.
BufInv ==
  \A j \in 0..(Waiting - 1) : s_rx_buf[(s_rx_head + j) % Size] = taken + 1 + j

\* A disk operation runs only while nothing else does.
HoldInv ==
  /\ s_hold_depth > 0 => step = "app" /\ ~rts
  /\ s_hold_depth <= io

\* Whatever may still arrive fits below Bound.
RoomInv ==
  IF rts THEN Waiting + (Asserts + 1) * Gulp <= Bound
         ELSE Waiting + Reg + credit + Asserts * Gulp <= Bound

IInv == RingTypeOK /\ CountInv /\ BufInv /\ HoldInv /\ RoomInv /\ InOrder

-----------------------------------------------------------------------------
(* Arithmetic. *)

\* A remainder is unique.
LEMMA ModUnique ==
  ASSUME NEW S \in Nat \ {0}, NEW q \in Int, NEW r \in 0..(S - 1)
  PROVE  (q * S + r) % S = r
BY Z3

\* Division with remainder.
LEMMA DivMod ==
  ASSUME NEW S \in Nat \ {0}, NEW x \in Int
  PROVE  /\ x \div S \in Int /\ x % S \in 0..(S - 1)
         /\ x = (x \div S) * S + (x % S)
BY Z3

\* A small number is its own remainder.
LEMMA ModSmall ==
  ASSUME NEW S \in Nat \ {0}, NEW x \in 0..(S - 1)
  PROVE  x % S = x
BY Z3

\* Multiples of S do not change a remainder.
LEMMA ModShift ==
  ASSUME NEW S \in Nat \ {0}, NEW p \in Int, NEW y \in Int
  PROVE  (p * S + y) % S = y % S
<1> DEFINE q == y \div S
           r == y % S
<1>1. q \in Int /\ r \in 0..(S - 1) /\ y = q * S + r
  BY DivMod
<1> HIDE DEF q, r
<1>2. p * S + y = (p + q) * S + r /\ p + q \in Int
  BY <1>1, Z3
<1>3. (p * S + y) % S = r
  BY <1>1, <1>2, ModUnique
<1> QED BY <1>3 DEF r

\* Reducing one summand modulo a multiple of S first makes no difference.
LEMMA ModChain ==
  ASSUME NEW S \in Nat \ {0}, NEW W \in Nat \ {0}, W % S = 0,
         NEW x \in Int, NEW y \in Int
  PROVE  ((x % W) + y) % S = (x + y) % S
<1> DEFINE q == x \div W
           r == x % W
           p == W \div S
           k == q * p
<1>1. q \in Int /\ r \in Int /\ p \in Int /\ x = q * W + r /\ W = p * S
  BY DivMod
<1>2. x + y = k * S + (r + y) /\ k \in Int /\ r + y \in Int
  <2> HIDE DEF q, r, p
  <2> QED BY <1>1, Z3
<1> HIDE DEF q, r, p, k
<1>3. (x + y) % S = (r + y) % S
  <2>1. (k * S + (r + y)) % S = (r + y) % S
    BY <1>2, ModShift
  <2> QED BY <1>2, <2>1
<1> QED BY <1>3 DEF r

\* Reducing modulo a multiple of S first makes no difference.
LEMMA ModTwice ==
  ASSUME NEW S \in Nat \ {0}, NEW W \in Nat \ {0}, W % S = 0, NEW x \in Int
  PROVE  (x % W) % S = x % S
<1> DEFINE y == 0
<1>1. y \in Int /\ (x % W) + y = x % W /\ x + y = x
  BY DivMod
<1> HIDE DEF y
<1>2. ((x % W) + y) % S = (x + y) % S
  BY <1>1, ModChain
<1> QED BY <1>1, <1>2

\* Two numbers less than S apart have different remainders.
LEMMA ModDistinct ==
  ASSUME NEW S \in Nat \ {0}, NEW x \in Int, NEW d \in 1..(S - 1)
  PROVE  (x + d) % S # x % S
<1> DEFINE q == x \div S
           r == x % S
<1>1. q \in Int /\ r \in 0..(S - 1) /\ x = q * S + r
  BY DivMod
<1> HIDE DEF q, r
<1>2. CASE r + d < S
  <2>1. x + d = q * S + (r + d) /\ r + d \in 0..(S - 1)
    BY <1>1, <1>2, Z3
  <2>2. (x + d) % S = r + d
    BY <1>1, <2>1, ModUnique
  <2> QED BY <2>2, <1>1 DEF r
<1>3. CASE r + d >= S
  <2>1. x + d = (q + 1) * S + (r + d - S) /\ r + d - S \in 0..(S - 1) /\ q + 1 \in Int
    BY <1>1, <1>3, Z3
  <2>2. (x + d) % S = r + d - S
    BY <2>1, ModUnique
  <2> QED BY <2>2, <1>1 DEF r
<1> QED BY <1>1, <1>2, <1>3

\* The constants are numbers, and the wrap of the counters is a multiple of Size.
LEMMA Constants ==
  /\ Size \in Nat \ {0} /\ Wrap \in Nat \ {0} /\ Size < Wrap /\ Wrap % Size = 0
  /\ High \in Nat \ {0} /\ Low \in Nat /\ Low <= High /\ Slack \in Nat
  /\ MaxIo \in Nat /\ MaxDepth \in Nat /\ MaxBytes \in Nat /\ Gulp \in Nat \ {0}
BY RingAssumption DEF Gulp

\* Multiplication is monotone.
LEMMA Monotone ==
  ASSUME NEW x \in Nat, NEW y \in Nat, NEW g \in Nat, x <= y
  PROVE  x * g \in Nat /\ y * g \in Nat /\ x * g <= y * g
BY Z3

\* RTS can be put back MaxIo + 3 times at most, so a nearly empty ring has room.
LEMMA RoomWhenLow ==
  ASSUME NEW w \in Nat, NEW a \in Nat, w <= High - 1, a <= MaxIo + 3
  PROVE  w + (a + 1) * Gulp <= Bound
<1>1. (a + 1) * Gulp <= (MaxIo + 4) * Gulp
  BY Constants, Z3
<1> QED BY <1>1, Constants DEF Bound

\* An empty ring has room, too.
LEMMA RoomWhenEmpty ==
  ASSUME NEW a \in Nat, a <= MaxIo + 3
  PROVE  (a + 1) * Gulp <= Bound /\ (a + 1) * Gulp \in Int
<1> DEFINE w == 0
<1>1. w \in Nat /\ w <= High - 1
  BY Constants
<1>2. (a + 1) * Gulp \in Int /\ w + (a + 1) * Gulp = (a + 1) * Gulp
  BY Constants, Z3
<1> HIDE DEF w
<1>3. w + (a + 1) * Gulp <= Bound
  BY <1>1, RoomWhenLow
<1> QED BY <1>2, <1>3

-----------------------------------------------------------------------------
(* What the invariant says of the state at hand. *)

\* What is in the ring, and how often RTS may be put back, are small numbers.
LEMMA Numbers ==
  ASSUME IInv
  PROVE  /\ Waiting \in Nat /\ Waiting <= Size
         /\ Reg \in {0, 1} /\ Asserts \in Nat /\ Asserts <= MaxIo + 3
         /\ Waiting + Reg = nsent - taken
<1>1. Waiting \in Nat /\ Waiting <= Size
  BY Constants DEF IInv, CountInv
<1>2. Reg \in {0, 1} /\ Waiting + Reg = nsent - taken
  BY DEF IInv, RingTypeOK, Reg, Waiting
<1>3. Asserts \in Nat /\ Asserts <= MaxIo + 3
  BY Constants DEF IInv, RingTypeOK, HoldInv, Asserts
<1> QED BY <1>1, <1>2, <1>3

\* The fill that the code computes from two wrapping counters is the number of
\* bytes in the ring.
LEMMA FillIsWaiting ==
  ASSUME IInv
  PROVE  Fill = Waiting
<1> DEFINE w == Waiting
           h == s_rx_head
           g == 0 - h
<1>1. h \in Int /\ w \in 0..(Wrap - 1) /\ s_rx_tail = (h + w) % Wrap
  BY Numbers, Constants DEF IInv, RingTypeOK, CountInv
<1>2. Wrap % Wrap = 0
  BY Constants, Z3
<1>3. ((h + w) + g) = w /\ s_rx_tail + g = s_rx_tail - h /\ g \in Int /\ h + w \in Int
  BY <1>1, Constants
<1> HIDE DEF w, h, g
<1>4. (((h + w) % Wrap) + g) % Wrap = ((h + w) + g) % Wrap
  BY <1>2, <1>3, Constants, ModChain
<1>5. w % Wrap = w
  BY <1>1, Constants, ModSmall
<1>6. Fill = (s_rx_tail - h) % Wrap
  BY DEF Fill, h
<1> QED BY <1>1, <1>3, <1>4, <1>5, <1>6 DEF w

\* The ring is empty exactly when the two indices are equal.
LEMMA DifferMeansWaiting ==
  ASSUME IInv, s_rx_head # s_rx_tail
  PROVE  Waiting > 0
<1>1. CASE Waiting = 0
  <2>1. s_rx_tail = s_rx_head % Wrap /\ s_rx_head \in 0..(Wrap - 1)
    BY <1>1, Constants DEF IInv, CountInv, RingTypeOK
  <2> QED BY <2>1, Constants, ModSmall
<1> QED BY <1>1, Numbers

\* What RoomInv says of the bytes that are in the ring or may come to be.
LEMMA RoomNow ==
  ASSUME IInv, Roomy
  PROVE  /\ rts => Waiting + Asserts * Gulp + Gulp <= Bound
         /\ ~rts => Waiting + Reg + credit + Asserts * Gulp <= Bound
         /\ Asserts * Gulp \in Nat /\ Bound <= Size /\ Bound \in Int
<1>1. Asserts \in Nat /\ Gulp \in Nat /\ Waiting \in Nat
  BY Numbers, Constants
<1>2. (Asserts + 1) * Gulp = Asserts * Gulp + Gulp /\ Asserts * Gulp \in Nat
  BY <1>1, Z3
<1>3. Bound \in Int
  BY Constants DEF Bound
<1> QED BY <1>1, <1>2, <1>3, Constants DEF IInv, RoomInv, Roomy

-----------------------------------------------------------------------------
(* The caller's modem, and the interrupt. *)

LEMMA ModemSendsKeeps ==
  ASSUME IInv, Roomy, ModemSends
  PROVE  IInv'
<1>1. Waiting' = Waiting /\ Reg = 0 /\ Reg' = 1 /\ Asserts' = Asserts /\ rdr' = nsent'
  BY Constants DEF IInv, RingTypeOK, ModemSends, Waiting, Reg, Asserts, thread
<1>2. RingTypeOK'
  BY Constants DEF IInv, RingTypeOK, ModemSends, rxVars, thread
<1>3. CountInv'
  BY <1>1 DEF IInv, CountInv, ModemSends, rxVars
<1>4. BufInv'
  BY <1>1 DEF IInv, BufInv, ModemSends, rxVars, thread
<1>5. HoldInv' /\ InOrder'
  BY DEF IInv, HoldInv, InOrder, ModemSends, thread
<1>6. RoomInv'
  <2>1. CASE rts
    BY <2>1, <1>1 DEF IInv, RoomInv, ModemSends
  <2>2. CASE ~rts
    <3>1. credit' = credit - 1 /\ rts' = rts /\ credit \in Int
      BY <2>2 DEF IInv, RingTypeOK, ModemSends
    <3>2. Waiting \in Int /\ Asserts * Gulp \in Int /\ Bound \in Int
      BY Numbers, RoomNow
    <3>3. Waiting + 0 + credit + Asserts * Gulp <= Bound
      BY <1>1, <2>2, RoomNow
    <3>4. Waiting' + Reg' + credit' + Asserts' * Gulp <= Bound
      BY <1>1, <3>1, <3>2, <3>3
    <3> QED BY <3>1, <3>4, <2>2 DEF RoomInv, Bound, Gulp
  <2> QED BY <2>1, <2>2
<1> QED BY <1>2, <1>3, <1>4, <1>5, <1>6 DEF IInv

\* The interrupt finds room for its byte, and where it puts it no waiting byte lies.
LEMMA IsrKeeps ==
  ASSUME IInv, Roomy, Isr
  PROVE  IInv'
<1> DEFINE w == Waiting
           h == s_rx_head
           a == Asserts * Gulp
<1>1. Waiting' = w + 1 /\ Reg = 1 /\ Reg' = 0 /\ Asserts' = Asserts /\ rdr = nsent
  BY Numbers DEF IInv, CountInv, RingTypeOK, Isr, Waiting, Reg, Asserts, thread
<1>2. w + 1 <= Size /\ w \in Nat /\ a \in Nat /\ Bound \in Int
  <2>1. w \in Nat /\ a \in Nat /\ Bound \in Int /\ Bound <= Size
    BY Numbers, RoomNow
  <2>2. CASE rts
    <3>1. w + a + Gulp <= Bound
      BY <2>2, RoomNow
    <3> HIDE DEF w, a
    <3> QED BY <2>1, <3>1, Constants
  <2>3. CASE ~rts
    <3>1. w + 1 + credit + a <= Bound /\ credit \in Nat
      BY <1>1, <2>3, RoomNow, Constants DEF IInv, RingTypeOK
    <3> HIDE DEF w, a
    <3> QED BY <2>1, <3>1, Constants
  <2> QED BY <2>1, <2>2, <2>3
<1>3. h \in Int /\ s_rx_tail = (h + w) % Wrap /\ h + w \in Int
  BY <1>2 DEF IInv, RingTypeOK, CountInv
<1>4. s_rx_tail % Size = (h + w) % Size
  <2> DEFINE t == h + w
  <2>1. t \in Int /\ s_rx_tail = t % Wrap
    BY <1>3
  <2> HIDE DEF t
  <2>2. (t % Wrap) % Size = t % Size
    BY <2>1, Constants, ModTwice
  <2> QED BY <2>1, <2>2 DEF t
<1>5. RingTypeOK'
  <2>1. s_rx_tail' \in 0..(Wrap - 1)
    <3>1. s_rx_tail + 1 \in Int
      BY Constants DEF IInv, RingTypeOK
    <3> QED BY <3>1, Constants, DivMod DEF Isr
  <2>2. s_rx_buf' \in [0..(Size - 1) -> 0..MaxBytes]
    BY DEF IInv, RingTypeOK, Isr
  <2>3. rts' \in BOOLEAN /\ credit' \in 0..Slack
    <3>1. \/ rts' = FALSE /\ credit' = (IF rts THEN Slack ELSE credit)
          \/ rts' = rts /\ credit' = credit
      BY DEF Isr, RtsOff
    <3>2. rts \in BOOLEAN /\ credit \in 0..Slack /\ Slack \in 0..Slack
      BY Constants DEF IInv, RingTypeOK
    <3> QED BY <3>1, <3>2
  <2>4. rdr' \in 0..MaxBytes
    BY Constants DEF Isr
  <2>5. UNCHANGED <<s_rx_head, armed, s_hold_depth, step, room, in, io, taken, nsent>>
    BY DEF Isr, thread
  <2> QED BY <2>1, <2>2, <2>3, <2>4, <2>5 DEF IInv, RingTypeOK
<1>6. CountInv'
  <2>1. (((h + w) % Wrap) + 1) % Wrap = (h + (w + 1)) % Wrap
    <3>1. Wrap % Wrap = 0
      BY Constants, Z3
    <3>2. (((h + w) % Wrap) + 1) % Wrap = ((h + w) + 1) % Wrap
      BY <3>1, <1>3, Constants, ModChain
    <3>3. (h + w) + 1 = h + (w + 1)
      BY <1>2, <1>3
    <3> QED BY <3>2, <3>3
  <2>2. s_rx_tail' = (h + (w + 1)) % Wrap /\ s_rx_head' = h /\ rdr' = 0
    BY <2>1, <1>3 DEF Isr
  <2> QED BY <1>1, <1>2, <2>2, Constants DEF CountInv
<1>7. BufInv'
  <2> SUFFICES ASSUME NEW j \in 0..w
               PROVE  s_rx_buf'[(h + j) % Size] = taken + 1 + j
    BY <1>1, <1>2 DEF BufInv, Isr, thread
  <2>1. (h + j) % Size \in 0..(Size - 1) /\ s_rx_tail % Size \in 0..(Size - 1)
    <3> DEFINE x == h + j
               y == h + w
    <3>1. x \in Int /\ y \in Int
      BY <1>2, <1>3
    <3> HIDE DEF x, y
    <3>2. x % Size \in 0..(Size - 1) /\ y % Size \in 0..(Size - 1)
      BY <3>1, Constants, DivMod
    <3> QED BY <3>2, <1>4 DEF x, y
  <2>2. CASE j = w
    <3>1. s_rx_buf'[s_rx_tail % Size] = nsent
      BY <1>1, <2>1 DEF IInv, RingTypeOK, Isr
    <3>2. nsent = taken + 1 + w
      BY <1>1, Numbers DEF IInv, RingTypeOK
    <3> QED BY <3>1, <3>2, <2>2, <1>4
  <2>3. CASE j # w
    <3>1. (h + j) % Size # s_rx_tail % Size
      <4> DEFINE x == h + j
                 d == w - j
      <4>1. x \in Int /\ d \in 1..(Size - 1) /\ x + d = h + w
        BY <1>2, <1>3, <2>3, Constants
      <4> HIDE DEF x, d
      <4>2. (x + d) % Size # x % Size
        BY <4>1, Constants, ModDistinct
      <4> QED BY <4>1, <4>2, <1>4 DEF x
    <3>2. s_rx_buf'[(h + j) % Size] = s_rx_buf[(h + j) % Size]
      BY <3>1, <2>1 DEF IInv, RingTypeOK, Isr
    <3>3. j \in 0..(w - 1)
      BY <2>3, <1>2
    <3> QED BY <3>2, <3>3 DEF IInv, BufInv
  <2> QED BY <2>2, <2>3
<1>8. HoldInv' /\ InOrder'
  BY DEF IInv, HoldInv, InOrder, Isr, RtsOff, thread
<1>9. RoomInv'
  <2> HIDE DEF a
  <2>1. CASE ~rts
    <3>1. w + 1 + credit + a <= Bound
      BY <1>1, <2>1, RoomNow DEF a
    <3>2. ~rts' /\ credit' = credit /\ credit \in Int
      BY <2>1 DEF Isr, RtsOff, IInv, RingTypeOK
    <3>3. Waiting' + Reg' + credit' + Asserts' * Gulp <= Bound
      BY <1>1, <1>2, <3>1, <3>2 DEF a
    <3> QED BY <3>2, <3>3 DEF RoomInv, Bound, Gulp
  <2>2. CASE rts /\ Fill' >= High
    <3>1. w + a + Gulp <= Bound
      BY <2>2, RoomNow DEF a
    <3>2. ~rts' /\ credit' = Slack
      BY <2>2 DEF Isr, RtsOff
    <3>3. Waiting' + Reg' + credit' + Asserts' * Gulp <= Bound
      BY <1>1, <1>2, <3>1, <3>2, Constants DEF a, Gulp
    <3> QED BY <3>2, <3>3 DEF RoomInv, Bound, Gulp
  <2>3. CASE rts /\ ~(Fill' >= High)
    <3>1. Fill' = w + 1
      <4>1. s_rx_tail' = (h + (w + 1)) % Wrap /\ s_rx_head' = h /\ w + 1 \in 0..(Wrap - 1)
        BY <1>1, <1>2, <1>6, Constants DEF CountInv, Isr
      <4> DEFINE x == h + (w + 1)
                 g == 0 - h
      <4>2. x \in Int /\ g \in Int /\ x + g = w + 1 /\ Wrap % Wrap = 0
        BY <1>2, <1>3, Constants, Z3
      <4> HIDE DEF x, g
      <4>3. ((x % Wrap) + g) % Wrap = (x + g) % Wrap
        BY <4>2, Constants, ModChain
      <4>4. (w + 1) % Wrap = w + 1
        BY <4>1, Constants, ModSmall
      <4>5. (x % Wrap) + g = s_rx_tail' - s_rx_head'
        BY <4>1, <1>3, <1>5 DEF x, g, RingTypeOK
      <4> QED BY <4>2, <4>3, <4>4, <4>5 DEF Fill
    <3>2. w + 1 <= High - 1
      BY <2>3, <3>1, <1>2, Constants
    <3>3. (w + 1) + (Asserts + 1) * Gulp <= Bound
      BY <3>2, <1>2, Numbers, RoomWhenLow
    <3>4. rts'
      BY <2>3 DEF Isr
    <3> QED BY <3>3, <3>4, <1>1 DEF RoomInv, Bound, Gulp
  <2> QED BY <2>1, <2>2, <2>3
<1> QED BY <1>5, <1>6, <1>7, <1>8, <1>9 DEF IInv

-----------------------------------------------------------------------------
(* net_rx() and net_rx_raw(). *)

LEMMA RxBeginKeeps ==
  ASSUME IInv, Roomy, NEW limit \in Wants, RxBegin(limit)
  PROVE  IInv'
<1>1. Waiting' = Waiting /\ Reg' = Reg /\ Asserts' = Asserts
  BY DEF RxBegin, rxVars, aciaVars, Waiting, Reg, Asserts
<1>2. RingTypeOK'
  BY RingAssumption DEF IInv, RingTypeOK, RxBegin, rxVars, aciaVars
<1>3. CountInv' /\ BufInv'
  BY <1>1 DEF IInv, CountInv, BufInv, RxBegin, rxVars, aciaVars
<1>4. HoldInv' /\ InOrder'
  BY DEF IInv, HoldInv, InOrder, RxBegin, aciaVars, RingTypeOK
<1>5. RoomInv'
  BY <1>1 DEF IInv, RoomInv, RxBegin, aciaVars, Bound, Gulp
<1> QED BY <1>2, <1>3, <1>4, <1>5 DEF IInv

\* The byte that is taken out is the one that follows the byte taken out before.
LEMMA RxDrainKeeps ==
  ASSUME IInv, Roomy, RxDrain
  PROVE  IInv'
<1>1. Reg' = Reg /\ Asserts' = Asserts
  BY DEF IInv, RxDrain, aciaVars, Reg, Asserts
<1>2. CASE s_rx_head # s_rx_tail /\ room > 0
  <2> DEFINE w == Waiting
             h == s_rx_head
  <2>1. w > 0 /\ w \in Nat /\ Waiting' = w - 1 /\ taken' = taken + 1
    BY <1>2, DifferMeansWaiting, Numbers DEF IInv, RingTypeOK, RxDrain, aciaVars, Waiting
  <2>2. h \in Int /\ s_rx_head' = (h + 1) % Wrap /\ in' = s_rx_buf[h % Size]
    BY <1>2 DEF IInv, RingTypeOK, RxDrain
  <2>3. in' = taken + 1
    <3>1. s_rx_buf[(h + 0) % Size] = taken + 1 + 0
      BY <2>1 DEF IInv, BufInv
    <3> QED BY <3>1, <2>2 DEF IInv, RingTypeOK
  <2>4. RingTypeOK'
    <3>1. s_rx_head' \in 0..(Wrap - 1)
      <4>1. h + 1 \in Int
        BY <2>2
      <4> QED BY <4>1, <2>2, Constants, DivMod
    <3>2. taken + 1 \in 0..nsent /\ taken + 1 \in 0..MaxBytes
      BY <2>1, Numbers, Constants DEF IInv, RingTypeOK
    <3>3. room' \in Nat /\ step' = step
      BY <1>2 DEF IInv, RingTypeOK, RxDrain
    <3> QED BY <3>1, <3>2, <3>3, <2>1, <2>3 DEF IInv, RingTypeOK, RxDrain, aciaVars
  <2>5. CountInv'
    <3>1. (((h + 1) % Wrap) + (w - 1)) % Wrap = (h + w) % Wrap
      <4> DEFINE x == h + 1
                 y == w - 1
      <4>1. x \in Int /\ y \in Int /\ x + y = h + w /\ Wrap % Wrap = 0
        BY <2>1, <2>2, Constants, Z3
      <4> HIDE DEF x, y
      <4>2. ((x % Wrap) + y) % Wrap = (x + y) % Wrap
        BY <4>1, Constants, ModChain
      <4> QED BY <4>1, <4>2 DEF x, y
    <3>2. s_rx_tail' = (h + w) % Wrap /\ rdr' = rdr /\ nsent' = nsent
      BY DEF IInv, CountInv, RxDrain, aciaVars
    <3>3. Waiting' \in 0..Size
      BY <2>1, Numbers, Constants
    <3> QED BY <3>1, <3>2, <3>3, <2>1, <2>2 DEF IInv, CountInv
  <2>6. BufInv'
    <3> SUFFICES ASSUME NEW j \in 0..(w - 2)
                 PROVE  s_rx_buf[(((h + 1) % Wrap) + j) % Size] = (taken + 1) + 1 + j
      BY <2>1, <2>2 DEF BufInv, RxDrain
    <3> DEFINE x == h + 1
    <3>1. x \in Int /\ x + j = h + (j + 1) /\ j + 1 \in 0..(w - 1) /\ j \in Int
      BY <2>1, <2>2
    <3>2. ((x % Wrap) + j) % Size = (x + j) % Size
      <4>1. x \in Int /\ j \in Int
        BY <3>1
      <4> HIDE DEF x
      <4> QED BY ZenonT(30), <4>1, Constants, ModChain
    <3>3. s_rx_buf[(h + (j + 1)) % Size] = taken + 1 + (j + 1)
      BY <3>1 DEF IInv, BufInv
    <3> QED BY <3>1, <3>2, <3>3 DEF IInv, RingTypeOK
  <2>7. HoldInv' /\ InOrder'
    BY <1>2, <2>1, <2>3 DEF IInv, HoldInv, InOrder, RxDrain, aciaVars
  <2>8. RoomInv'
    <3>1. rts' = rts /\ credit' = credit /\ credit \in Int
      BY DEF IInv, RingTypeOK, RxDrain, aciaVars
    <3> DEFINE a == Asserts * Gulp
               b == (Asserts + 1) * Gulp
    <3>2. a \in Int /\ b \in Int /\ Bound \in Int /\ Reg \in Int
      BY Numbers, Constants, RoomNow, Z3
    <3> HIDE DEF a, b
    <3>3. rts => Waiting' + b <= Bound
      BY <2>1, <3>2 DEF IInv, RoomInv, b
    <3>4. ~rts => Waiting' + Reg + credit + a <= Bound
      BY <2>1, <3>1, <3>2 DEF IInv, RoomInv, a
    <3> QED BY <1>1, <3>1, <3>3, <3>4 DEF RoomInv, a, b, Bound, Gulp
  <2> QED BY <2>4, <2>5, <2>6, <2>7, <2>8 DEF IInv
<1>3. CASE ~(s_rx_head # s_rx_tail /\ room > 0)
  <2>1. /\ Waiting' = Waiting
        /\ UNCHANGED <<rxVars, aciaVars, room, in, taken, nsent, s_hold_depth, io, armed>>
    BY <1>3 DEF RxDrain, rxVars, aciaVars, Waiting
  <2>2. RingTypeOK'
    BY <1>3, <2>1 DEF IInv, RingTypeOK, RxDrain, rxVars, aciaVars
  <2>3. CountInv' /\ BufInv' /\ InOrder'
    BY <2>1 DEF IInv, CountInv, BufInv, InOrder, rxVars, aciaVars
  <2>4. HoldInv'
    BY <2>1 DEF IInv, HoldInv, RxDrain, aciaVars, RingTypeOK
  <2>5. RoomInv'
    BY <1>1, <2>1 DEF IInv, RoomInv, aciaVars, Bound, Gulp
  <2> QED BY <2>2, <2>3, <2>4, <2>5 DEF IInv
<1> QED BY <1>2, <1>3

\* The ring is found nearly empty: RTS may be put back MaxIo + 3 times from here.
LEMMA RxTestFillKeeps ==
  ASSUME IInv, Roomy, RxTestFill
  PROVE  IInv'
<1>1. Waiting' = Waiting /\ Reg' = Reg /\ UNCHANGED <<rxVars, aciaVars, taken, nsent, in>>
  BY DEF RxTestFill, rxVars, aciaVars, Waiting, Reg
<1>2. RingTypeOK'
  BY Constants DEF IInv, RingTypeOK, RxTestFill, rxVars, aciaVars
<1>3. CountInv' /\ BufInv' /\ InOrder'
  BY <1>1 DEF IInv, CountInv, BufInv, InOrder, rxVars, aciaVars
<1>4. s_hold_depth = 0 /\ s_hold_depth' = 0
  BY DEF IInv, HoldInv, RingTypeOK, RxTestFill
<1>5. HoldInv'
  BY <1>2, <1>4 DEF HoldInv, RingTypeOK
<1>6. RoomInv'
  <2>1. CASE s_hold_depth = 0 /\ Fill < Low
    <3>1. Asserts' = MaxIo + 3 /\ Waiting <= High - 1
      BY <1>4, <2>1, FillIsWaiting, Numbers, Constants DEF RxTestFill, Asserts
    <3>2. Waiting + (MaxIo + 4) * Gulp <= Bound
      <4> DEFINE m == MaxIo + 3
      <4>1. m \in Nat /\ m <= MaxIo + 3 /\ m + 1 = MaxIo + 4
        BY Constants
      <4> HIDE DEF m
      <4>2. Waiting + (m + 1) * Gulp <= Bound
        BY <3>1, <4>1, Numbers, RoomWhenLow
      <4> QED BY <4>1, <4>2
    <3>3. Waiting + Reg + credit + (MaxIo + 3) * Gulp <= Bound
      <4>1. (MaxIo + 4) * Gulp = (MaxIo + 3) * Gulp + Gulp /\ (MaxIo + 3) * Gulp \in Int
        BY Constants, Z3
      <4>2. Reg + credit <= Gulp /\ Reg + credit \in Int /\ Waiting \in Int /\ Bound \in Int
        <5>1. Reg \in {0, 1} /\ Waiting \in Int /\ Bound \in Int
          BY Numbers, RoomNow
        <5>2. credit \in 0..Slack
          BY DEF IInv, RingTypeOK
        <5> QED BY <5>1, <5>2, Constants DEF Gulp
      <4>3. Waiting + (Reg + credit) + (MaxIo + 3) * Gulp <= Bound
        BY <3>2, <4>1, <4>2, Constants
      <4>4. Waiting + (Reg + credit) = Waiting + Reg + credit
        BY SMTT(20), Numbers, Constants DEF IInv, RingTypeOK
      <4> QED BY <4>3, <4>4
    <3>4. (MaxIo + 3) + 1 = MaxIo + 4
      BY Constants
    <3> QED BY <1>1, <3>1, <3>2, <3>3, <3>4 DEF RoomInv, aciaVars, Bound, Gulp
  <2>2. CASE ~(s_hold_depth = 0 /\ Fill < Low)
    <3>1. Asserts' = Asserts
      BY <1>4, <2>2 DEF RxTestFill, Asserts
    <3> QED BY <1>1, <3>1 DEF IInv, RoomInv, aciaVars, Bound, Gulp
  <2> QED BY <2>1, <2>2
<1> QED BY <1>2, <1>3, <1>5, <1>6 DEF IInv

\* Putting RTS back uses up one of the times that RoomInv allows for it.
LEMMA AssertUsesRoom ==
  ASSUME IInv, Roomy, RtsOn, Waiting' = Waiting, Asserts' = Asserts - 1
  PROVE  RoomInv'
<1> DEFINE a == Asserts * Gulp
           w == Waiting
<1>1. a \in Nat /\ w \in Nat /\ Bound \in Int /\ Reg \in Nat /\ Asserts' + 1 = Asserts
  BY Numbers, RoomNow
<1>2. w + a <= Bound
  <2>1. rts => w + a + Gulp <= Bound
    BY RoomNow
  <2>2. ~rts => w + Reg + credit + a <= Bound
    BY RoomNow
  <2>3. credit \in Nat
    BY Constants DEF IInv, RingTypeOK
  <2> HIDE DEF a, w
  <2> QED BY <1>1, <2>1, <2>2, <2>3, Constants
<1> QED BY <1>1, <1>2 DEF RoomInv, RtsOn, Bound, Gulp

LEMMA RxAssertKeeps ==
  ASSUME IInv, Roomy, RxAssert
  PROVE  IInv'
<1>1. Waiting' = Waiting /\ UNCHANGED <<rxVars, rdr, taken, nsent, in, io, s_hold_depth>>
  BY DEF RxAssert, rxVars, Waiting
<1>2. s_hold_depth = 0 /\ step = "rts" /\ step' = "app" /\ rts' = TRUE /\ credit' = 0
  BY DEF IInv, HoldInv, RingTypeOK, RxAssert, RtsOn
<1>3. RingTypeOK'
  BY <1>2, Constants DEF IInv, RingTypeOK, RxAssert, rxVars
<1>4. CountInv' /\ BufInv' /\ InOrder'
  BY <1>1 DEF IInv, CountInv, BufInv, InOrder, rxVars
<1>5. HoldInv'
  BY <1>1, <1>2, <1>3 DEF HoldInv, RingTypeOK
<1>6. Asserts' = Asserts - 1
  BY <1>1, <1>2, Constants DEF IInv, RingTypeOK, Asserts
<1>7. RoomInv'
  BY <1>1, <1>6, AssertUsesRoom DEF RxAssert
<1> QED BY <1>3, <1>4, <1>5, <1>7 DEF IInv

-----------------------------------------------------------------------------
(* Disk operations, and the end of a call. *)

\* A disk operation drops RTS first: what was allowed for a sender at liberty
\* now stands for the byte in the register and those under way.
LEMMA HoldKeeps ==
  ASSUME IInv, Roomy, Hold
  PROVE  IInv'
<1>1. Waiting' = Waiting /\ Reg' = Reg /\ UNCHANGED <<rxVars, rdr, taken, nsent, in, step, room>>
  BY DEF Hold, rxVars, Waiting, Reg
<1>2. /\ step = "app" /\ io < MaxIo /\ s_hold_depth \in Nat /\ io \in Nat
      /\ s_hold_depth' = s_hold_depth + 1 /\ io' = io + 1
  BY Constants DEF IInv, RingTypeOK, Hold
<1>3. ~rts' /\ credit' = (IF rts THEN Slack ELSE credit) /\ (rts => s_hold_depth = 0)
  <2>1. CASE s_hold_depth = 0
    BY <2>1 DEF Hold, RtsOff
  <2>2. CASE s_hold_depth # 0
    <3>1. ~rts
      BY <1>2, <2>2 DEF IInv, HoldInv
    <3> QED BY <3>1, <2>2 DEF Hold
  <2> QED BY <2>1, <2>2
<1>4. rts' \in BOOLEAN
  BY DEF Hold, RtsOff, IInv, RingTypeOK
<1>5. RingTypeOK'
  <2>1. credit' \in 0..Slack
    BY <1>3, Constants DEF IInv, RingTypeOK
  <2>2. s_hold_depth' \in 0..MaxDepth /\ io' \in 0..MaxIo
    BY <1>2, Constants DEF Hold
  <2>3. armed' \in BOOLEAN
    BY DEF Hold, IInv, RingTypeOK
  <2> QED BY <1>1, <1>4, <2>1, <2>2, <2>3 DEF IInv, RingTypeOK, rxVars
<1>6. CountInv' /\ BufInv' /\ InOrder'
  BY <1>1 DEF IInv, CountInv, BufInv, InOrder, rxVars
<1>7. HoldInv'
  BY <1>1, <1>2, <1>3 DEF IInv, HoldInv
<1>8. RoomInv'
  <2> DEFINE a == Asserts * Gulp
             b == Asserts' * Gulp
             w == Waiting
  <2>1. a \in Nat /\ w \in Nat /\ Bound \in Int /\ Reg \in {0, 1} /\ credit \in Nat
    BY Numbers, RoomNow, Constants DEF IInv, RingTypeOK
  <2>2. b \in Nat /\ b <= a
    <3>1. Asserts' \in Nat /\ Asserts' <= Asserts
      BY <1>1, <1>2, Constants DEF Asserts
    <3>2. Asserts \in Nat /\ Gulp \in Nat
      BY Numbers, Constants
    <3> QED BY <3>1, <3>2, Monotone
  <2>3. rts => w + a + Gulp <= Bound
    BY RoomNow
  <2>4. ~rts => w + Reg + credit + a <= Bound
    BY RoomNow
  <2>5. w + Reg + credit' + b <= Bound
    <3>1. CASE rts
      <4>1. credit' = Slack
        BY <1>3, <3>1
      <4> HIDE DEF a, b, w
      <4> QED BY <2>1, <2>2, <2>3, <3>1, <4>1, Constants DEF Gulp
    <3>2. CASE ~rts
      <4>1. credit' = credit
        BY <1>3, <3>2
      <4> HIDE DEF a, b, w
      <4> QED BY <2>1, <2>2, <2>4, <3>2, <4>1, Constants
    <3> QED BY <3>1, <3>2
  <2> QED BY <1>1, <1>3, <2>5 DEF RoomInv, Bound, Gulp
<1> QED BY <1>5, <1>6, <1>7, <1>8 DEF IInv

LEMMA ReleaseKeeps ==
  ASSUME IInv, Roomy, Release
  PROVE  IInv'
<1>1. Waiting' = Waiting /\ Reg' = Reg /\ UNCHANGED <<rxVars, aciaVars, taken, nsent, in, room, io>>
  BY DEF Release, rxVars, aciaVars, Waiting, Reg
<1>2. s_hold_depth \in Nat \ {0} /\ s_hold_depth' = s_hold_depth - 1 /\ step = "app" /\ ~rts
  BY Constants DEF IInv, RingTypeOK, HoldInv, Release
<1>3. \/ s_hold_depth = 1 /\ step' = "release"
      \/ s_hold_depth > 1 /\ step' = "app"
  BY <1>2 DEF Release
<1>4. RingTypeOK'
  <2>1. armed' \in BOOLEAN
    BY DEF IInv, RingTypeOK, Release
  <2>2. s_hold_depth' \in 0..MaxDepth
    BY <1>2, Constants DEF IInv, RingTypeOK
  <2> QED BY <1>1, <1>3, <2>1, <2>2 DEF IInv, RingTypeOK, rxVars, aciaVars
<1>5. CountInv' /\ BufInv' /\ InOrder'
  BY <1>1 DEF IInv, CountInv, BufInv, InOrder, rxVars, aciaVars
<1>6. HoldInv'
  BY <1>1, <1>2, <1>3 DEF IInv, RingTypeOK, HoldInv, aciaVars
<1>7. Asserts' = Asserts
  BY <1>1, <1>2, <1>3 DEF Asserts
<1>8. RoomInv'
  BY <1>1, <1>7 DEF IInv, RoomInv, aciaVars, Bound, Gulp
<1> QED BY <1>4, <1>5, <1>6, <1>8 DEF IInv

LEMMA ReleaseAssertKeeps ==
  ASSUME IInv, Roomy, ReleaseAssert
  PROVE  IInv'
<1>1. Waiting' = Waiting /\ UNCHANGED <<rxVars, rdr, taken, nsent, in, io, s_hold_depth>>
  BY DEF ReleaseAssert, rxVars, Waiting
<1>2. s_hold_depth = 0 /\ step = "release" /\ step' = "app" /\ rts' = TRUE /\ credit' = 0
  BY DEF IInv, HoldInv, RingTypeOK, ReleaseAssert, RtsOn
<1>3. RingTypeOK'
  BY <1>2, Constants DEF IInv, RingTypeOK, ReleaseAssert, rxVars
<1>4. CountInv' /\ BufInv' /\ InOrder'
  BY <1>1 DEF IInv, CountInv, BufInv, InOrder, rxVars
<1>5. HoldInv'
  BY <1>1, <1>2, <1>3 DEF HoldInv, RingTypeOK
<1>6. Asserts' = Asserts - 1
  BY <1>1, <1>2, Constants DEF IInv, RingTypeOK, Asserts
<1>7. RoomInv'
  BY <1>1, <1>6, AssertUsesRoom DEF ReleaseAssert
<1> QED BY <1>3, <1>4, <1>5, <1>7 DEF IInv

LEMMA DtrOffKeeps ==
  ASSUME IInv, Roomy, DtrOff
  PROVE  IInv'
<1>1. Waiting' = Waiting /\ UNCHANGED <<rxVars, rdr, taken, nsent, in, io, s_hold_depth>>
  BY DEF DtrOff, rxVars, Waiting
<1>2. s_hold_depth = 0 /\ step = "app" /\ step' = "dtr" /\ rts' = TRUE /\ credit' = 0
  BY DEF IInv, HoldInv, RingTypeOK, DtrOff, RtsOn
<1>3. RingTypeOK'
  BY <1>2, Constants DEF IInv, RingTypeOK, DtrOff, rxVars
<1>4. CountInv' /\ BufInv' /\ InOrder'
  BY <1>1 DEF IInv, CountInv, BufInv, InOrder, rxVars
<1>5. HoldInv'
  BY <1>1, <1>2, <1>3 DEF HoldInv, RingTypeOK
<1>6. Asserts' = Asserts - 1
  BY <1>1, <1>2, Constants DEF IInv, RingTypeOK, Asserts
<1>7. RoomInv'
  BY <1>1, <1>6, AssertUsesRoom DEF DtrOff
<1> QED BY <1>3, <1>4, <1>5, <1>7 DEF IInv

LEMMA DtrOnKeeps ==
  ASSUME IInv, Roomy, DtrOn
  PROVE  IInv'
<1>1. Waiting' = Waiting /\ UNCHANGED <<rxVars, rdr, taken, nsent, in, io, s_hold_depth>>
  BY DEF DtrOn, rxVars, Waiting
<1>2. s_hold_depth = 0 /\ step = "dtr" /\ step' = "flush" /\ rts' = TRUE /\ credit' = 0
  BY DEF IInv, HoldInv, RingTypeOK, DtrOn, RtsOn
<1>3. RingTypeOK'
  BY <1>2, Constants DEF IInv, RingTypeOK, DtrOn, rxVars
<1>4. CountInv' /\ BufInv' /\ InOrder'
  BY <1>1 DEF IInv, CountInv, BufInv, InOrder, rxVars
<1>5. HoldInv'
  BY <1>1, <1>2, <1>3 DEF HoldInv, RingTypeOK
<1>6. Asserts' = Asserts - 1
  BY <1>1, <1>2, Constants DEF IInv, RingTypeOK, Asserts
<1>7. RoomInv'
  BY <1>1, <1>6, AssertUsesRoom DEF DtrOn
<1> QED BY <1>3, <1>4, <1>5, <1>7 DEF IInv

\* A flush empties the ring, so that RTS may be put back as often as ever.
LEMMA FlushKeeps ==
  ASSUME IInv, Roomy, Flush
  PROVE  IInv'
<1>1. taken' = taken + Waiting /\ in' = taken' /\ s_rx_head' = s_rx_tail
  BY FillIsWaiting DEF Flush
<1>2. Reg' = Reg /\ Waiting' = 0 /\ nsent' = nsent /\ rdr' = rdr /\ taken' \in 0..nsent
  BY <1>1, Numbers, Constants DEF IInv, RingTypeOK, Flush, aciaVars, Waiting, Reg
<1>3. rts' = rts /\ credit' = credit /\ step' = "app" /\ s_hold_depth' = 0 /\ s_hold_depth = 0
  BY DEF IInv, HoldInv, RingTypeOK, Flush, aciaVars
<1>4. RingTypeOK'
  BY <1>1, <1>2, <1>3, Constants DEF IInv, RingTypeOK, Flush
<1>5. CountInv'
  <2>1. s_rx_tail \in 0..(Wrap - 1)
    BY DEF IInv, RingTypeOK
  <2>2. s_rx_tail % Wrap = s_rx_tail /\ s_rx_tail + 0 = s_rx_tail
    BY <2>1, Constants, ModSmall
  <2> QED BY <1>1, <1>2, <2>2, Constants DEF IInv, CountInv, Flush
<1>6. BufInv' /\ HoldInv' /\ InOrder'
  BY <1>1, <1>2, <1>3 DEF BufInv, HoldInv, InOrder, Flush, IInv, RingTypeOK
<1>7. RoomInv'
  <2> DEFINE m == Asserts'
             b == (m + 1) * Gulp
             a == m * Gulp
  <2>1. m \in Nat /\ m <= MaxIo + 3
    BY <1>3, Constants DEF IInv, RingTypeOK, Flush, Asserts
  <2>2. a \in Int /\ b = a + Gulp
    <3> HIDE DEF m
    <3> QED BY <2>1, Constants, Z3
  <2>3. b <= Bound /\ b \in Int /\ Bound \in Int
    <3> HIDE DEF m
    <3> QED BY <2>1, RoomWhenEmpty, RoomNow
  <2>4. Reg' + credit' <= Gulp /\ Reg' + credit' \in Int
    <3>1. Reg \in {0, 1} /\ credit \in 0..Slack
      BY Numbers DEF IInv, RingTypeOK
    <3> QED BY <1>2, <1>3, <3>1, Constants DEF Gulp
  <2>5. (Reg' + credit') + a <= Bound
    <3> DEFINE c == Reg' + credit'
    <3> HIDE DEF a, b, c, m
    <3>1. c <= Gulp /\ c \in Int
      BY <2>4 DEF c
    <3>2. c + a <= Bound
      BY <2>2, <2>3, <3>1, Constants
    <3> QED BY <3>2 DEF c
  <2>6. 0 + b = b /\ 0 + Reg' + credit' = Reg' + credit'
    <3>1. Reg' \in Int /\ credit' \in Int
      BY <1>2, <1>3, Numbers, Constants DEF IInv, RingTypeOK
    <3> HIDE DEF b
    <3> QED BY <2>3, <3>1
  <2> QED BY <1>2, <2>3, <2>5, <2>6 DEF RoomInv, Bound, Gulp
<1> QED BY <1>4, <1>5, <1>6, <1>7 DEF IInv

-----------------------------------------------------------------------------
(* The theorems. *)

\* The initial state satisfies the invariant.
LEMMA InitIInv ==
  ASSUME RingInit, Roomy
  PROVE  IInv
<1>1. Waiting = 0 /\ Reg = 0 /\ Asserts = MaxIo + 2
  BY Constants DEF RingInit, Waiting, Reg, Asserts
<1>2. RingTypeOK
  BY Constants DEF RingInit, RingTypeOK
<1>3. CountInv
  <2>1. 0 % Wrap = 0
    BY Constants, ModSmall
  <2> QED BY <1>1, <2>1, Constants DEF RingInit, CountInv
<1>4. BufInv /\ HoldInv /\ InOrder
  BY <1>1 DEF RingInit, BufInv, HoldInv, InOrder
<1>5. RoomInv
  <2>1. ((MaxIo + 2) + 1) * Gulp <= Bound /\ ((MaxIo + 2) + 1) * Gulp \in Int
    <3> DEFINE m == MaxIo + 2
    <3>1. m \in Nat /\ m <= MaxIo + 3
      BY Constants
    <3> HIDE DEF m
    <3>2. (m + 1) * Gulp <= Bound /\ (m + 1) * Gulp \in Int
      BY <3>1, RoomWhenEmpty
    <3> QED BY <3>2 DEF m
  <2> QED BY <1>1, <2>1 DEF RingInit, RoomInv
<1> QED BY <1>2, <1>3, <1>4, <1>5 DEF IInv

\* Every step preserves the invariant.
LEMMA StepIInv ==
  ASSUME IInv, Roomy, [RingNext]_ringVars
  PROVE  IInv'
<1>1. CASE UNCHANGED ringVars
  BY <1>1
  DEF ringVars, rxVars, aciaVars, thread, IInv, RingTypeOK, CountInv, BufInv, HoldInv, RoomInv,
              InOrder, Waiting, Reg, Asserts, Bound, Gulp
<1>2. CASE RingNext
  BY <1>2, ModemSendsKeeps, IsrKeeps, RxBeginKeeps, RxDrainKeeps, RxTestFillKeeps, RxAssertKeeps,
     HoldKeeps, ReleaseKeeps, ReleaseAssertKeeps, DtrOffKeeps, DtrOnKeeps, FlushKeeps
  DEF RingNext
<1> QED BY <1>1, <1>2

\* Roomy is about the constants only: what holds of them once holds for ever.
LEMMA SpecIInv ==
  ASSUME Roomy
  PROVE  RingSpec => []IInv
<1>1. RingInit => IInv
  BY InitIInv
<1>2. IInv /\ [RingNext]_ringVars => IInv'
  BY StepIInv
<1> QED BY <1>1, <1>2, PTL DEF RingSpec

\* All variables of the receive path keep to their types: no counter leaves its
\* byte, no disk operation is counted twice (net.c:225-247).
THEOREM RingTypes ==
  ASSUME Roomy
  PROVE  RingSpec => []RingTypeOK
<1>1. IInv => RingTypeOK
  BY DEF IInv
<1> QED BY <1>1, SpecIInv, PTL

\* If the ring has room for the disk operations between two times that net_rx()
\* finds it nearly empty, the sender pauses before it overruns (net.c:140-145).
THEOREM RingNeverOverrun ==
  ASSUME Roomy
  PROVE  RingSpec => []NoOverrun
<1>1. IInv => NoOverrun
  BY Numbers DEF NoOverrun
<1> QED BY <1>1, SpecIInv, PTL

\* Then net_rx() hands out every byte once and in order, although it and the
\* interrupt share the ring without masking each other (net.c:66).
THEOREM RingInOrder ==
  ASSUME Roomy
  PROVE  RingSpec => []InOrder
<1>1. IInv => InOrder
  BY DEF IInv
<1> QED BY <1>1, SpecIInv, PTL

\* RTS stays off as long as a disk operation runs, however they nest (net.c:219-247).
THEOREM RingQuietDuringIo ==
  ASSUME Roomy
  PROVE  RingSpec => []QuietDuringIo
<1>1. IInv => QuietDuringIo
  BY DEF IInv, HoldInv, QuietDuringIo
<1> QED BY <1>1, SpecIInv, PTL

(***************************************************************************)
(* Calls (Line).                                                           *)
(***************************************************************************)

\* A transmitter that refused TX_STALL_LIMIT bytes has the line going down,
\* by the flag that the next net_rx() reads or by a hang-up under way.
DeadIsTornDown ==
  s_tx_stalls = TX_STALL_LIMIT =>
    /\ s_state = "DROPPING"
    /\ \/ pc \in {"escape", "low", "reset"}
       \/ s_tx_dead /\ pc \in {"start", "rx", "ring", "back"}

InService == {"detect", "loop", "step", "key", "prompt"}

Fresh(r, c) == \A i \in 1..Len(r) : r[i].call >= c
Known(r, c) == \A i \in 1..Len(r) : r[i].call <= c

\* The modem holds the latest call or none, and nothing knows of a later one.
LatestCall ==
  /\ line = 0 \/ line = calls
  /\ alive => line # 0
  /\ conn <= calls /\ sess <= calls
  /\ Known(ring, calls)

\* Once _term_drain() has found the ring empty it holds nothing older than
\* the session.
Drained ==
  /\ (at \in InService \/ (at = "drain" /\ pc = "back" /\ got = 0))
       => Fresh(ring, sess)
  /\ at \in InService => (got = 0 \/ got >= sess)

Inv == TypeOK /\ DeadIsTornDown /\ CallerIsHeard /\ LatestCall /\ Drained

-----------------------------------------------------------------------------
(* The ring.                                                               *)

\* The empty ring holds tokens of no call.
LEMMA EmptyRing ==
  ASSUME NEW c \in Nat
  PROVE  <<>> \in Seq(Tokens) /\ Fresh(<<>>, c) /\ Known(<<>>, c)
BY DEF Fresh, Known

\* A token added keeps what all tokens of the ring have in common with it.
LEMMA PushedToken ==
  ASSUME NEW r \in Seq(Tokens), NEW t \in Tokens, NEW c \in Nat
  PROVE  /\ Append(r, t) \in Seq(Tokens)
         /\ Fresh(r, c) /\ t.call >= c => Fresh(Append(r, t), c)
         /\ Known(r, c) /\ t.call <= c => Known(Append(r, t), c)
<1>1. /\ Append(r, t) \in Seq(Tokens) /\ Len(Append(r, t)) = Len(r) + 1
      /\ \A i \in 1..Len(r) : Append(r, t)[i] = r[i]
      /\ Append(r, t)[Len(r) + 1] = t
  BY AppendProperties
<1>2. \A m \in Nat : \A i \in 1..(m + 1) : i \in 1..m \/ i = m + 1
  OBVIOUS
<1>3. \A i \in 1..(Len(r) + 1) : i \in 1..Len(r) \/ i = Len(r) + 1
  BY <1>2, LenProperties
<1> QED BY <1>1, <1>3 DEF Fresh, Known

\* A token belongs to some call.
LEMMA TokenCall == \A t \in Tokens : t.call \in 1..MaxCalls
BY DEF Tokens

\* The tokens the modem adds.
LEMMA MarkIsToken ==
  ASSUME NEW k \in {"text", "CONNECT", "NO CARRIER"}, NEW n \in 1..MaxCalls
  PROVE  Mark(k, n) \in Tokens /\ Mark(k, n).call = n
BY DEF Mark, Tokens

\* A token taken was one of the ring's, and so are those left.
LEMMA TakenToken ==
  ASSUME NEW r \in Seq(Tokens), r # <<>>, NEW c \in Nat
  PROVE  /\ Head(r) \in Tokens /\ Tail(r) \in Seq(Tokens)
         /\ Fresh(r, c) => Head(r).call >= c /\ Fresh(Tail(r), c)
         /\ Known(r, c) => Head(r).call <= c /\ Known(Tail(r), c)
<1>1. /\ Head(r) \in Tokens /\ Tail(r) \in Seq(Tokens)
      /\ Len(Tail(r)) = Len(r) - 1 /\ Len(r) \in Nat \ {0} /\ Head(r) = r[1]
      /\ \A i \in 1..Len(Tail(r)) : Tail(r)[i] = r[i + 1]
  BY HeadTailProperties, EmptySeq, LenProperties
<1>2. 1 \in 1..Len(r) /\ \A i \in 1..Len(Tail(r)) : i + 1 \in 1..Len(r)
  BY <1>1
<1> QED BY <1>1, <1>2 DEF Fresh, Known

-----------------------------------------------------------------------------
(* The invariant.                                                          *)

\* The invariant holds when net_init() returns.
LEMMA InitInv == Init => Inv
<1> SUFFICES ASSUME Init PROVE Inv
  OBVIOUS
<1>1. TypeOK
  <2>1. ring \in Seq(Tokens)
    BY EmptySeq DEF Init
  <2>2. /\ alive \in BOOLEAN /\ s_saw_dsr_inactive \in BOOLEAN
        /\ s_dsr_was_active \in BOOLEAN /\ connected \in BOOLEAN
        /\ s_tx_dead \in BOOLEAN /\ s_idle_fired \in BOOLEAN
    BY Zenon DEF Init, AtMode
  <2> QED BY <2>1, <2>2, LineAssumption DEF Init, TypeOK, Waits
<1>2. DeadIsTornDown /\ CallerIsHeard /\ Drained
  BY LineAssumption
     DEF Init, DeadIsTornDown, CallerIsHeard, Drained, InService
<1>3. LatestCall
  BY EmptyRing DEF Init, LatestCall
<1> QED BY <1>1, <1>2, <1>3 DEF Inv

\* What a hang-up adds to the ring is of the call that it ends.
LEMMA HangsUpRing ==
  ASSUME Inv, NEW reported \in BOOLEAN, HangsUp(reported), line # 0,
         NEW c \in Nat
  PROVE  /\ line' = 0 /\ alive' = FALSE /\ modem' = modem /\ calls' = calls
         /\ typed' = typed /\ ring' \in Seq(Tokens)
         /\ Fresh(ring, c) /\ calls >= c => Fresh(ring', c)
         /\ Known(ring', calls)
<1> DEFINE text == Mark("text", line)
           over == Mark("NO CARRIER", line)
           half == Append(ring, text)
<1>1. /\ line \in 1..MaxCalls /\ line = calls /\ calls \in Nat
      /\ ring \in Seq(Tokens) /\ Known(ring, calls)
  BY LineAssumption DEF Inv, TypeOK, LatestCall
<1>2. /\ text \in Tokens /\ text.call = line
      /\ over \in Tokens /\ over.call = line
  BY <1>1, MarkIsToken
<1>3. ring' = ring \/ ring' = Append(half, over)
  BY DEF HangsUp
<1> HIDE DEF text, over
<1>4. /\ half \in Seq(Tokens) /\ Known(half, calls)
      /\ Fresh(ring, c) /\ calls >= c => Fresh(half, c)
  BY <1>1, <1>2, PushedToken
<1> HIDE DEF half
<1>5. Append(half, over) \in Seq(Tokens) /\ Known(Append(half, over), calls)
  BY <1>1, <1>2, <1>4, PushedToken
<1>6. Fresh(half, c) /\ calls >= c => Fresh(Append(half, over), c)
  BY <1>1, <1>2, <1>4, PushedToken
<1> QED BY <1>1, <1>3, <1>4, <1>5, <1>6 DEF HangsUp

\* The modem's steps keep it.
LEMMA ModemInv == Inv /\ Modem => Inv'
<1> SUFFICES ASSUME Inv, Modem PROVE Inv'
  OBVIOUS
<1> USE LineAssumption DEF Inv, netVars, appVars
<1>1. /\ ring \in Seq(Tokens) /\ calls \in 0..MaxCalls /\ sess \in Nat
      /\ sess <= calls /\ calls \in Nat
  BY DEF TypeOK, LatestCall
<1>2. CASE Dial
  <2>1. calls + 1 \in 1..MaxCalls
    BY <1>1, <1>2 DEF Dial
  <2>2. /\ Mark("CONNECT", calls + 1) \in Tokens
        /\ Mark("CONNECT", calls + 1).call = calls + 1
    BY <2>1, MarkIsToken
  <2>3. Known(ring, calls + 1)
    <3>1. \A t \in Tokens : t.call \in Nat
      BY TokenCall
    <3>2. \A i \in 1..Len(ring) : ring[i] \in Tokens
      BY <1>1, ElementOfSeq
    <3> QED BY <1>1, <3>1, <3>2 DEF LatestCall, Known
  <2>4. /\ ring' \in Seq(Tokens) /\ Known(ring', calls + 1)
        /\ Fresh(ring, sess) => Fresh(ring', sess)
    BY <1>1, <1>2, <2>2, <2>3, PushedToken DEF Dial
  <2>5. TypeOK'
    BY <1>2, <2>1, <2>4 DEF Dial, TypeOK
  <2>6. LatestCall'
    BY <1>1, <1>2, <2>4 DEF Dial, TypeOK, LatestCall
  <2>7. (DeadIsTornDown /\ CallerIsHeard /\ Drained)'
    BY <1>2, <2>4 DEF Dial, DeadIsTornDown, CallerIsHeard, Drained
  <2> QED BY <2>5, <2>6, <2>7
<1>3. CASE Type
  <2>1. line \in 1..MaxCalls /\ line = calls
    BY <1>3 DEF Type, TypeOK, LatestCall
  <2>2. Mark("text", line) \in Tokens /\ Mark("text", line).call = line
    BY <2>1, MarkIsToken
  <2>3. /\ ring' \in Seq(Tokens) /\ Known(ring', calls)
        /\ Fresh(ring, sess) => Fresh(ring', sess)
    BY <1>1, <1>3, <2>1, <2>2, PushedToken DEF Type, LatestCall
  <2>4. TypeOK'
    BY <1>3, <2>3 DEF Type, TypeOK
  <2>5. (DeadIsTornDown /\ CallerIsHeard /\ LatestCall /\ Drained)'
    BY <1>3, <2>3
       DEF Type, DeadIsTornDown, CallerIsHeard, LatestCall, Drained
  <2> QED BY <2>4, <2>5
<1>4. CASE Leave
  <2>1. PICK reported \in BOOLEAN : HangsUp(reported)
    BY <1>4 DEF Leave, Reports
  <2>2. line # 0
    BY <1>4 DEF Leave, LatestCall
  <2>3. /\ line' = 0 /\ alive' = FALSE /\ modem' = modem /\ calls' = calls
        /\ typed' = typed /\ ring' \in Seq(Tokens) /\ Known(ring', calls)
        /\ Fresh(ring, sess) => Fresh(ring', sess)
    BY <1>1, <2>1, <2>2, HangsUpRing
  <2>4. TypeOK'
    <3>1. alive' \in BOOLEAN
      BY <2>3, Zenon
    <3> QED BY <1>4, <2>3, <3>1 DEF Leave, TypeOK
  <2>5. (DeadIsTornDown /\ CallerIsHeard /\ LatestCall /\ Drained)'
    BY <1>4, <2>3
       DEF Leave, DeadIsTornDown, CallerIsHeard, LatestCall, Drained
  <2> QED BY <2>4, <2>5
<1>5. CASE LeaveUnnoticed
  <2>1. TypeOK'
    <3>1. alive' \in BOOLEAN
      BY <1>5, Zenon DEF LeaveUnnoticed
    <3> QED BY <1>5, <3>1 DEF LeaveUnnoticed, TypeOK
  <2>2. (DeadIsTornDown /\ CallerIsHeard /\ LatestCall /\ Drained)'
    BY <1>5 DEF LeaveUnnoticed, DeadIsTornDown, CallerIsHeard, LatestCall,
                Drained
  <2> QED BY <2>1, <2>2
<1> QED BY <1>2, <1>3, <1>4, <1>5 DEF Modem

\* A byte sent, or refused, touches the driver's state alone.
LEMMA SendKeeps ==
  ASSUME Inv, Send
  PROVE  /\ s_state' \in {"IDLE", "CONNECTED", "DROPPING"}
         /\ s_tx_stalls' \in 0..TX_STALL_LIMIT /\ s_tx_dead' \in BOOLEAN
         /\ s_state' = "CONNECTED" => s_state = "CONNECTED"
         /\ s_tx_stalls' = TX_STALL_LIMIT =>
              \/ s_state' = "DROPPING" /\ s_tx_dead'
              \/ /\ s_tx_stalls = TX_STALL_LIMIT /\ s_state' = s_state
                 /\ s_tx_dead' = s_tx_dead
         /\ UNCHANGED <<s_saw_dsr_inactive, s_dsr_was_active, connected, conn>>
<1> USE LineAssumption DEF Inv, TypeOK
<1>1. CASE s_state # "CONNECTED"
  BY <1>1 DEF Send, netVars
<1>2. CASE s_state = "CONNECTED" /\ Sent
  BY <1>2 DEF Send, Sent
<1>3. CASE s_state = "CONNECTED" /\ Stalled
  <2>1. s_tx_stalls \in 0..(TX_STALL_LIMIT - 1)
    BY <1>3 DEF DeadIsTornDown
  <2>2. CASE s_tx_stalls + 1 >= TX_STALL_LIMIT
    <3>1. s_state' = "DROPPING" /\ s_tx_dead' = TRUE
      BY <1>3, <2>2, Zenon DEF Stalled
    <3> QED BY <1>3, <2>1, <2>2, <3>1 DEF Send, Stalled
  <2>3. CASE ~(s_tx_stalls + 1 >= TX_STALL_LIMIT)
    <3>1. s_state' = s_state /\ s_tx_dead' = s_tx_dead
      BY <1>3, <2>3, Zenon DEF Stalled
    <3> QED BY <1>3, <2>1, <2>3, <3>1 DEF Send, Stalled
  <2> QED BY <2>2, <2>3
<1> QED BY <1>1, <1>2, <1>3 DEF Send

\* A wait whose session goes on, or ends, with the ring as it is keeps the
\* invariant.
LEMMA WaitInv ==
  ASSUME Inv, Send \/ UNCHANGED netVars, pc \in {"start", "back"},
         UNCHANGED <<modemVars, ring, got, sess>>,
         pc' \in {"start", "rx", "escape", "back"},
         ret' \in {"start", "check", "back"},
         at' \in Waits, s_idle_fired' \in BOOLEAN,
         at' \in InService =>
           at \in InService \/ (at = "drain" /\ pc = "back" /\ got = 0),
         at' = "drain" => pc' # "back"
  PROVE  Inv'
<1> USE DEF Inv
<1>1. /\ s_state' \in {"IDLE", "CONNECTED", "DROPPING"}
      /\ s_tx_stalls' \in 0..TX_STALL_LIMIT /\ s_tx_dead' \in BOOLEAN
      /\ s_state' = "CONNECTED" => s_state = "CONNECTED"
      /\ s_tx_stalls' = TX_STALL_LIMIT =>
           \/ s_state' = "DROPPING" /\ s_tx_dead'
           \/ /\ s_tx_stalls = TX_STALL_LIMIT /\ s_state' = s_state
              /\ s_tx_dead' = s_tx_dead
      /\ UNCHANGED <<s_saw_dsr_inactive, s_dsr_was_active, connected, conn>>
  <2>1. CASE Send
    BY <2>1, SendKeeps
  <2>2. CASE UNCHANGED netVars
    BY <2>2 DEF netVars, TypeOK
  <2> QED BY <2>1, <2>2
<1>2. TypeOK'
  BY <1>1 DEF TypeOK, modemVars
<1>3. DeadIsTornDown'
  <2>1. s_tx_stalls = TX_STALL_LIMIT => s_state = "DROPPING" /\ s_tx_dead
    BY DEF DeadIsTornDown
  <2> QED BY <1>1, <2>1 DEF DeadIsTornDown
<1>4. CallerIsHeard'
  BY <1>1 DEF CallerIsHeard
<1>5. LatestCall'
  BY <1>1 DEF LatestCall, modemVars
<1>6. Drained'
  <2>1. at' \in InService => at \in InService \/ got = 0
    OBVIOUS
  <2>2. at' \in InService => Fresh(ring', sess')
    BY DEF Drained
  <2>3. at' \in InService => (got' = 0 \/ got' >= sess')
    BY <2>1 DEF Drained
  <2> QED BY <2>2, <2>3 DEF Drained
<1> QED BY <1>2, <1>3, <1>4, <1>5, <1>6

\* The steps of the waits keep it.
LEMMA BbsInv == Inv /\ Bbs => Inv'
<1> SUFFICES ASSUME Inv, Bbs PROVE Inv'
  OBVIOUS
<1> USE DEF Kept, Go, Again, Here, Disconnect, Waits, InService, KeyWaits
<1>1. at \in Waits /\ ret \in {"start", "check", "back"}
      /\ s_idle_fired \in BOOLEAN
  BY DEF Inv, TypeOK
<1>2. CASE Poll
  BY <1>1, <1>2, WaitInv DEF Poll
<1>3. CASE Wfc
  <2>1. CASE s_state # "CONNECTED"
    BY <1>1, <1>3, <2>1, WaitInv DEF Wfc
  <2>2. CASE s_state = "CONNECTED"
    <3>1. /\ UNCHANGED <<modemVars, ring, got, netVars, ret>>
          /\ pc = "back" /\ pc' = "start" /\ at' = "drain" /\ sess' = conn
          /\ UNCHANGED s_idle_fired
      BY <1>3, <2>2 DEF Wfc
    <3>2. TypeOK'
      BY <3>1 DEF Inv, TypeOK, modemVars, netVars
    <3>3. (DeadIsTornDown /\ CallerIsHeard)'
      BY <2>2, <3>1 DEF Inv, DeadIsTornDown, CallerIsHeard, netVars
    <3>4. (LatestCall /\ Drained)'
      BY <3>1 DEF Inv, LatestCall, Drained, modemVars, netVars
    <3> QED BY <3>2, <3>3, <3>4 DEF Inv
  <2> QED BY <2>1, <2>2
<1>4. CASE Drain
  BY <1>1, <1>4, WaitInv DEF Drain
<1>5. CASE DetectKey
  <2>1. s_idle_fired' \in BOOLEAN
    BY <1>5, Zenon DEF DetectKey, ArmIdle
  <2> QED BY <1>1, <1>5, <2>1, WaitInv DEF DetectKey
<1>6. CASE DetectNone
  <2>1. s_idle_fired' \in BOOLEAN
    BY <1>6, Zenon DEF DetectNone, ArmIdle
  <2> QED BY <1>1, <1>6, <2>1, WaitInv DEF DetectNone
<1>7. CASE DetectIdle
  <2>1. s_idle_fired' \in BOOLEAN
    BY <1>7, Zenon DEF DetectIdle, ArmIdle
  <2> QED BY <1>1, <1>7, <2>1, WaitInv DEF DetectIdle
<1>8. CASE LoopDropped
  BY <1>1, <1>8, WaitInv DEF LoopDropped
<1>9. CASE LoopStep
  BY <1>1, <1>9, WaitInv DEF LoopStep
<1>10. CASE LoopOutput
  BY <1>1, <1>10, WaitInv DEF LoopOutput
<1>11. CASE KeyTaken
  BY <1>1, <1>11, WaitInv DEF KeyTaken
<1>12. CASE KeyNone
  BY <1>1, <1>12, WaitInv DEF KeyNone
<1>13. CASE Keepalive
  BY <1>1, <1>13, WaitInv DEF Keepalive
<1>14. CASE IdleOut
  BY <1>1, <1>14, WaitInv DEF IdleOut
<1>15. CASE Kick
  BY <1>1, <1>15, WaitInv DEF Kick
<1>16. CASE SessionEnd
  BY <1>1, <1>16, WaitInv DEF SessionEnd
<1>17. CASE Settled
  BY <1>1, <1>17, WaitInv DEF Settled
<1> QED BY <1>2, <1>3, <1>4, <1>5, <1>6, <1>7, <1>8, <1>9, <1>10, <1>11,
           <1>12, <1>13, <1>14, <1>15, <1>16, <1>17 DEF Bbs

\* The steps of net_rx() and net_disconnect() keep it.
LEMMA NetInv == Inv /\ Net => Inv'
<1> SUFFICES ASSUME Inv, Net PROVE Inv'
  OBVIOUS
<1> USE LineAssumption DEF Inv, appVars
<1>1. /\ ring \in Seq(Tokens) /\ calls \in 0..MaxCalls /\ sess \in Nat
      /\ sess <= calls /\ calls \in Nat
  BY DEF TypeOK, LatestCall
<1>2. CASE Escape
  <2>1. CASE UNCHANGED <<modemVars, ring>>
    <3>1. TypeOK'
      BY <1>2, <2>1 DEF Escape, TypeOK, modemVars, netVars
    <3> QED BY <1>2, <2>1, <3>1
        DEF Escape, DeadIsTornDown, CallerIsHeard, LatestCall, Drained,
            modemVars, netVars
  <2>2. CASE line # 0 /\ HangsUp(TRUE)
    <3>1. /\ line' = 0 /\ alive' = FALSE /\ modem' = modem /\ calls' = calls
          /\ typed' = typed /\ ring' \in Seq(Tokens) /\ Known(ring', calls)
          /\ Fresh(ring, sess) => Fresh(ring', sess)
      BY <1>1, <2>2, HangsUpRing
    <3>2. alive' \in BOOLEAN
      BY <3>1, Zenon
    <3>3. TypeOK'
      BY <1>2, <3>1, <3>2 DEF Escape, TypeOK, netVars
    <3> QED BY <1>2, <3>1, <3>3
        DEF Escape, DeadIsTornDown, CallerIsHeard, LatestCall, Drained, netVars
  <2> QED BY <1>2, <2>1, <2>2 DEF Escape
<1>3. CASE DtrPulse
  <2>1. CASE UNCHANGED <<modemVars, ring>>
    <3>1. TypeOK'
      BY <1>3, <2>1 DEF DtrPulse, TypeOK, modemVars, netVars
    <3> QED BY <1>3, <2>1, <3>1
        DEF DtrPulse, DeadIsTornDown, CallerIsHeard, LatestCall, Drained,
            modemVars, netVars
  <2>2. CASE line # 0 /\ \E reported \in Reports : HangsUp(reported)
    <3>0. PICK reported \in BOOLEAN : HangsUp(reported)
      BY <2>2 DEF Reports
    <3>1. /\ line' = 0 /\ alive' = FALSE /\ modem' = modem /\ calls' = calls
          /\ typed' = typed /\ ring' \in Seq(Tokens) /\ Known(ring', calls)
          /\ Fresh(ring, sess) => Fresh(ring', sess)
      BY <1>1, <2>2, <3>0, HangsUpRing
    <3>2. alive' \in BOOLEAN
      BY <3>1, Zenon
    <3>3. TypeOK'
      BY <1>3, <3>1, <3>2 DEF DtrPulse, TypeOK, netVars
    <3> QED BY <1>3, <3>1, <3>3
        DEF DtrPulse, DeadIsTornDown, CallerIsHeard, LatestCall, Drained,
            netVars
  <2> QED BY <1>3, <2>1, <2>2 DEF DtrPulse
<1>4. CASE Reset
  <2>1. ring' \in Seq(Tokens) /\ Fresh(ring', sess) /\ Known(ring', calls)
    BY <1>1, <1>4, EmptyRing DEF Reset
  <2>2. /\ s_tx_dead' \in BOOLEAN /\ s_saw_dsr_inactive' \in BOOLEAN
        /\ s_dsr_was_active' \in BOOLEAN /\ connected' \in BOOLEAN
    BY <1>4, Zenon DEF Reset
  <2>3. TypeOK'
    BY <1>4, <2>1, <2>2 DEF Reset, TypeOK, modemVars
  <2> QED BY <1>4, <2>1, <2>3
      DEF Reset, DeadIsTornDown, CallerIsHeard, LatestCall, Drained, modemVars
<1>5. CASE RxDead
  <2>1. pc' \in {"escape", "check"} /\ ret' \in {"start", "check", "back"}
        /\ (s_tx_dead => pc' = "escape")
    BY <1>5 DEF RxDead, Disconnect, TypeOK
  <2>2. s_tx_dead' \in BOOLEAN
    BY <1>5, Zenon DEF RxDead
  <2>3. TypeOK'
    BY <1>5, <2>1, <2>2 DEF RxDead, TypeOK, modemVars
  <2>4. (DeadIsTornDown /\ CallerIsHeard)'
    BY <1>5, <2>1 DEF RxDead, DeadIsTornDown, CallerIsHeard
  <2>5. (LatestCall /\ Drained)'
    BY <1>5, <2>1 DEF RxDead, LatestCall, Drained, modemVars
  <2> QED BY <2>3, <2>4, <2>5
<1>6. CASE RxCheck
  <2>1. \/ UNCHANGED <<s_state, connected>>
        \/ s_state' = "DROPPING" /\ connected' \in BOOLEAN
    BY <1>6, Zenon DEF RxCheck
  <2>2. TypeOK'
    BY <1>6, <2>1 DEF RxCheck, TypeOK, modemVars
  <2>3. (DeadIsTornDown /\ CallerIsHeard)'
    BY <1>6, <2>1 DEF RxCheck, DeadIsTornDown, CallerIsHeard
  <2>4. (LatestCall /\ Drained)'
    BY <1>6 DEF RxCheck, LatestCall, Drained, modemVars
  <2> QED BY <2>2, <2>3, <2>4
<1>7. CASE RxTrack
  <2>1. s_dsr_was_active' \in BOOLEAN
    BY <1>7, Zenon DEF RxTrack
  <2>2. TypeOK'
    BY <1>7, <2>1 DEF RxTrack, TypeOK, modemVars
  <2> QED BY <1>7, <2>2
      DEF RxTrack, DeadIsTornDown, CallerIsHeard, LatestCall, Drained,
          modemVars
<1>8. CASE RxSettle
  <2>1. \/ UNCHANGED <<s_state, s_saw_dsr_inactive>>
        \/ s_state' = "IDLE" /\ s_saw_dsr_inactive' \in BOOLEAN
    BY <1>8, Zenon DEF RxSettle
  <2>2. TypeOK'
    BY <1>8, <2>1 DEF RxSettle, TypeOK, modemVars
  <2>3. (DeadIsTornDown /\ CallerIsHeard)'
    BY <1>8, <2>1 DEF RxSettle, DeadIsTornDown, CallerIsHeard
  <2>4. (LatestCall /\ Drained)'
    BY <1>8 DEF RxSettle, LatestCall, Drained, modemVars
  <2> QED BY <2>2, <2>3, <2>4
<1>9. CASE RxAnswer
  <2>1. s_saw_dsr_inactive' \in BOOLEAN
    BY <1>9, Zenon DEF RxAnswer
  <2>2. CASE UNCHANGED <<s_state, connected, s_dsr_was_active, conn>>
    <3>1. TypeOK'
      BY <1>9, <2>1, <2>2 DEF RxAnswer, TypeOK, modemVars
    <3> QED BY <1>9, <2>2, <3>1
        DEF RxAnswer, DeadIsTornDown, CallerIsHeard, LatestCall, Drained,
            modemVars
  <2>3. CASE /\ s_state = "IDLE" /\ s_state' = "CONNECTED"
             /\ connected' = TRUE /\ s_dsr_was_active' = TRUE /\ conn' = line
    <3>1. connected' \in BOOLEAN /\ s_dsr_was_active' \in BOOLEAN
      BY <2>3, Zenon
    <3>2. TypeOK'
      BY <1>9, <2>1, <2>3, <3>1 DEF RxAnswer, TypeOK, modemVars
    <3> QED BY <1>1, <1>9, <2>3, <3>2
        DEF RxAnswer, DeadIsTornDown, CallerIsHeard, LatestCall, Drained,
            modemVars
  <2> QED BY <1>9, <2>2, <2>3 DEF RxAnswer
<1>10. CASE RxReply
  <2>1. s_tx_stalls < TX_STALL_LIMIT
    BY <1>10 DEF RxReply, DeadIsTornDown, TypeOK
  <2>2. /\ s_state' \in {"IDLE", "CONNECTED", "DROPPING"}
        /\ s_tx_stalls' \in 0..TX_STALL_LIMIT /\ s_tx_dead' \in BOOLEAN
        /\ s_state' = "CONNECTED" => s_state = "CONNECTED"
        /\ s_tx_stalls' = TX_STALL_LIMIT => s_state' = "DROPPING" /\ s_tx_dead'
        /\ UNCHANGED <<s_saw_dsr_inactive, s_dsr_was_active, connected, conn>>
    <3>1. CASE Send
      BY <2>1, <3>1, SendKeeps DEF TypeOK
    <3>2. CASE UNCHANGED netVars
      BY <2>1, <3>2 DEF netVars, TypeOK
    <3> QED BY <1>10, <3>1, <3>2 DEF RxReply
  <2>3. TypeOK'
    BY <1>10, <2>2 DEF RxReply, TypeOK, modemVars
  <2> QED BY <1>10, <2>2, <2>3
      DEF RxReply, DeadIsTornDown, CallerIsHeard, LatestCall, Drained,
          modemVars
<1>11. CASE RxTake
  <2> DEFINE t == Head(ring)
  <2>1. /\ t \in Tokens /\ ring' \in Seq(Tokens)
        /\ t.call \in 1..MaxCalls /\ t.call <= calls /\ Known(ring', calls)
        /\ Fresh(ring, sess) => t.call >= sess /\ Fresh(ring', sess)
    BY <1>1, <1>11, TakenToken, TokenCall DEF RxTake, MoreToTake, LatestCall
  <2>2. Feed(t)
    BY <1>11 DEF RxTake
  <2> HIDE DEF t
  <2>3. \/ /\ s_state' = "DROPPING" /\ connected' = FALSE
           /\ UNCHANGED <<got, conn>>
        \/ /\ connected' = TRUE /\ UNCHANGED got
           /\ \/ s_state = "IDLE" /\ s_state' = "CONNECTED" /\ conn' = t.call
              \/ UNCHANGED <<s_state, conn>>
        \/ got' \in {got, t.call} /\ UNCHANGED <<s_state, connected, conn>>
    BY <2>2 DEF Feed
  <2>4. connected' \in BOOLEAN
    BY <2>3, Zenon DEF TypeOK
  <2>5. /\ UNCHANGED <<modemVars, s_saw_dsr_inactive, s_dsr_was_active>>
        /\ UNCHANGED <<s_tx_stalls, s_tx_dead, pc, ret, appVars>> /\ pc = "ring"
    BY <1>11 DEF RxTake
  <2>6. TypeOK'
    BY <2>1, <2>3, <2>4, <2>5 DEF TypeOK, modemVars
  <2>7. (DeadIsTornDown /\ CallerIsHeard)'
    BY <2>3, <2>5 DEF DeadIsTornDown, CallerIsHeard
  <2>8. LatestCall'
    BY <2>1, <2>3, <2>5 DEF LatestCall, modemVars
  <2>9. Drained'
    BY <2>1, <2>3, <2>5 DEF Drained
  <2> QED BY <2>6, <2>7, <2>8, <2>9
<1>12. CASE RxReturn
  <2>1. at = "drain" /\ got = 0 => Fresh(ring, sess)
    <3>1. want = 1 /\ 1 # 0 <=> ~(at \in {"wfc", "loop", "settle1", "settle2"})
      BY DEF want
    <3>2. at = "drain" /\ got = 0 => ring = <<>>
      BY <1>12, <3>1 DEF RxReturn, MoreToTake
    <3> QED BY <1>1, <3>2, EmptyRing
  <2>2. TypeOK'
    BY <1>12 DEF RxReturn, TypeOK, modemVars, netVars
  <2>3. (DeadIsTornDown /\ CallerIsHeard /\ LatestCall)'
    BY <1>12 DEF RxReturn, DeadIsTornDown, CallerIsHeard, LatestCall,
                 modemVars, netVars
  <2>4. Drained'
    BY <1>12, <2>1 DEF RxReturn, Drained
  <2> QED BY <2>2, <2>3, <2>4
<1> QED BY <1>2, <1>3, <1>4, <1>5, <1>6, <1>7, <1>8, <1>9, <1>10, <1>11,
           <1>12 DEF Net

-----------------------------------------------------------------------------
(* The theorems.                                                           *)

\* The invariant holds in every reachable state.
LEMMA LineInv == Spec => []Inv
<1>1. Inv /\ [Next]_vars => Inv'
  <2>1. ASSUME Inv, UNCHANGED vars PROVE Inv'
    BY <2>1 DEF Inv, TypeOK, DeadIsTornDown, CallerIsHeard, LatestCall,
                Drained, vars, modemVars, netVars, appVars
  <2> QED BY <2>1, ModemInv, NetInv, BbsInv DEF Next
<1> QED BY <1>1, InitInv, PTL DEF Spec

\* The driver's and the session's variables keep their types: with them, the
\* count of refused bytes never passes TX_STALL_LIMIT (acia_putc).
THEOREM LineTypes == Spec => []TypeOK
BY LineInv, PTL DEF Inv

\* A connected driver always passes the caller's bytes through (net_rx,
\* process_inbound, net_disconnect).
THEOREM LineHears == Spec => []CallerIsHeard
BY LineInv, PTL DEF Inv

\* No byte of an earlier call is a key of a session (term_detect_backspace,
\* net_disconnect).
THEOREM LineFresh == Spec => []FreshBytes
<1>1. Inv => FreshBytes
  BY DEF Inv, Drained, FreshBytes, InService
<1> QED BY <1>1, LineInv, PTL
=============================================================================
