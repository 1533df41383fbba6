-------------------------------- MODULE RxRing --------------------------------
(***************************************************************************)
(* The receive path of the modem driver (src/src/platform/cbmdos/net.c).   *)
(*                                                                         *)
(* A timer interrupt moves bytes from the 6551's one-byte register into a  *)
(* ring; net_rx(), called by whatever the BBS is doing, takes them out.    *)
(* Nothing tests for a full ring: RTS is dropped when it holds High bytes, *)
(* put back by net_rx() when it holds fewer than Low, and off while a disk *)
(* operation runs (net_rx_hold, net_rx_release).  The interrupt may fall   *)
(* between any two steps of the rest, which is one thread.                 *)
(*                                                                         *)
(* The poll is assumed to outrun the line (see TIMERB_LATCH_FAST), so that *)
(* no byte finds the 6551's register taken.  Byte k is the k-th sent.      *)
(***************************************************************************)
EXTENDS Integers

CONSTANTS
  Size,       \* bytes in s_rx_buf: RX_BUF_MASK + 1
  Wrap,       \* where s_rx_head and s_rx_tail wrap: 2^8
  High,       \* the fill at which the interrupt drops RTS
  Low,        \* the fill below which net_rx() puts it back
  Slack,      \* bytes that still arrive after RTS has been dropped
  Wants,      \* the values of net_rx()'s want
  MaxDepth,   \* how deep net_rx_hold() nests
  MaxIo,      \* bound on the disk operations between two times that net_rx()
              \* finds the ring below Low
  MaxBytes    \* bound on the bytes the caller sends

ASSUME RingAssumption ==
  /\ Size \in Nat \ {0} /\ Wrap \in Nat /\ Wrap > Size /\ Wrap % Size = 0
  /\ High \in 1..Size /\ Low \in 1..High /\ Slack \in Nat
  /\ Wants \subseteq Nat
  /\ MaxDepth \in Nat /\ MaxIo \in Nat /\ MaxBytes \in Nat

VARIABLES
  s_rx_buf,
  s_rx_head,
  s_rx_tail,
  rdr,          \* the 6551's receive register, 0 when empty
  rts,          \* the RTS bit of ACIA_CMD
  credit,       \* bytes the modem may still send although RTS is off
  armed,        \* the timer runs and $0314 points to the interrupt handler
  s_hold_depth,
  step,         \* where the thread is: in net_rx() ("drain", "check", "rts"), in
                \* net_rx_release(), in net_disconnect() ("dtr", "flush") or elsewhere
  room,         \* bytes the running net_rx() may still return
  in,           \* the byte net_rx() took last
  io,           \* disk operations since net_rx() last found the ring below Low
  nsent,        \* history: bytes sent so far
  taken         \* history: bytes taken out of the ring so far

rxVars   == <<s_rx_buf, s_rx_head, s_rx_tail>>
aciaVars == <<rdr, rts, credit>>
thread   == <<s_hold_depth, step, room, in, io, taken>>
ringVars == <<rxVars, aciaVars, armed, thread, nsent>>

-----------------------------------------------------------------------------
\* (u8)(s_rx_tail - s_rx_head)
Fill == (s_rx_tail - s_rx_head) % Wrap

\* A write to ACIA_CMD: with RTS off, the modem stops after Slack more bytes.
RtsOff == rts' = FALSE /\ credit' = IF rts THEN Slack ELSE credit
RtsOn  == rts' = TRUE /\ credit' = 0

RingInit ==
  /\ s_rx_buf = [i \in 0..(Size - 1) |-> 0]
  /\ s_rx_head = 0 /\ s_rx_tail = 0
  /\ rdr = 0 /\ rts = TRUE /\ credit = 0
  /\ armed = TRUE /\ s_hold_depth = 0
  /\ step = "app" /\ room = 0 /\ in = 0 /\ io = 0
  /\ nsent = 0 /\ taken = 0

-----------------------------------------------------------------------------
(* The caller's modem, and the interrupt. *)

ModemSends ==
  /\ rdr = 0 /\ nsent < MaxBytes
  /\ rts \/ credit > 0
  /\ nsent' = nsent + 1 /\ rdr' = nsent'
  /\ credit' = IF rts THEN credit ELSE credit - 1
  /\ UNCHANGED <<rxVars, rts, armed, thread>>

\* Mutant: no high-water mark.
IsrNoRts ==
  /\ armed /\ rdr # 0
  /\ s_rx_buf' = [s_rx_buf EXCEPT ![s_rx_tail % Size] = rdr]
  /\ s_rx_tail' = (s_rx_tail + 1) % Wrap
  /\ rdr' = 0
  /\ UNCHANGED <<s_rx_head, rts, credit, armed, thread, nsent>>

\* acia_irq_isr() finds a byte.
Isr ==
  /\ armed /\ rdr # 0
  /\ s_rx_buf' = [s_rx_buf EXCEPT ![s_rx_tail % Size] = rdr]
  /\ s_rx_tail' = (s_rx_tail + 1) % Wrap
  /\ rdr' = 0
  /\ UNCHANGED <<s_rx_head, armed, thread, nsent>>
  /\ IF Fill' >= High THEN RtsOff ELSE UNCHANGED <<rts, credit>>

-----------------------------------------------------------------------------
(* net_rx() and net_rx_raw(). *)

\* Both first see to it that the interrupt is alive.
RxBegin(want) ==
  /\ step = "app" /\ s_hold_depth = 0
  /\ step' = "drain" /\ room' = want
  /\ armed' = TRUE
  /\ UNCHANGED <<rxVars, aciaVars, s_hold_depth, in, io, taken, nsent>>

\* Mutant: the head is moved before the byte is read.
RxDrainLate ==
  /\ step = "drain"
  /\ IF s_rx_head # s_rx_tail /\ room > 0
       THEN /\ in' = s_rx_buf[(s_rx_head + 1) % Size]
            /\ s_rx_head' = (s_rx_head + 1) % Wrap
            /\ room' \in {room - 1, room} /\ taken' = taken + 1
            /\ UNCHANGED step
       ELSE step' = "check" /\ UNCHANGED <<s_rx_head, room, in, taken>>
  /\ UNCHANGED <<s_rx_buf, s_rx_tail, aciaVars, armed, s_hold_depth, io, nsent>>

\* Mutant: the counters are compared as if they did not wrap.
RxDrainNoWrap ==
  /\ step = "drain"
  /\ IF s_rx_head < s_rx_tail /\ room > 0
       THEN /\ in' = s_rx_buf[s_rx_head % Size]
            /\ s_rx_head' = (s_rx_head + 1) % Wrap
            /\ room' \in {room - 1, room} /\ taken' = taken + 1
            /\ UNCHANGED step
       ELSE step' = "check" /\ UNCHANGED <<s_rx_head, room, in, taken>>
  /\ UNCHANGED <<s_rx_buf, s_rx_tail, aciaVars, armed, s_hold_depth, io, nsent>>

\* One turn of their loop.  A byte that the telnet filter or the parser of modem
\* results keeps does not count; on an idle line none does.
RxDrain ==
  /\ step = "drain"
  /\ IF s_rx_head # s_rx_tail /\ room > 0
       THEN /\ in' = s_rx_buf[s_rx_head % Size]
            /\ s_rx_head' = (s_rx_head + 1) % Wrap
            /\ room' \in {room - 1, room} /\ taken' = taken + 1
            /\ UNCHANGED step
       ELSE step' = "check" /\ UNCHANGED <<s_rx_head, room, in, taken>>
  /\ UNCHANGED <<s_rx_buf, s_rx_tail, aciaVars, armed, s_hold_depth, io, nsent>>

\* Mutant: RTS is left as it is.
RxTestFillNever ==
  /\ step = "check"
  /\ step' = "app"
  /\ UNCHANGED <<rxVars, aciaVars, armed, s_hold_depth, room, in, io, taken, nsent>>

\* Is the ring below its low-water mark?  The answer may be old when it is used.
RxTestFill ==
  /\ step = "check"
  /\ IF s_hold_depth = 0 /\ Fill < Low THEN step' = "rts" /\ io' = 0
                                       ELSE step' = "app" /\ UNCHANGED io
  /\ UNCHANGED <<rxVars, aciaVars, armed, s_hold_depth, room, in, taken, nsent>>

RxAssert ==
  /\ step = "rts"
  /\ step' = "app"
  /\ RtsOn
  /\ UNCHANGED <<rxVars, rdr, armed, s_hold_depth, room, in, io, taken, nsent>>

-----------------------------------------------------------------------------
(* Disk operations, and the end of a call. *)

\* net_rx_hold(); the KERNAL may then stop the timer or reset the vector.
Hold ==
  /\ step = "app" /\ s_hold_depth < MaxDepth
  /\ io < MaxIo
  /\ s_hold_depth' = s_hold_depth + 1 /\ io' = io + 1
  /\ IF s_hold_depth = 0 THEN RtsOff ELSE UNCHANGED <<rts, credit>>
  /\ armed' \in {armed, FALSE}
  /\ UNCHANGED <<rxVars, rdr, step, room, in, taken, nsent>>

\* Mutant: a release without a hold counts down all the same.
ReleaseUnderflow ==
  /\ step = "app"
  /\ s_hold_depth' = s_hold_depth - 1
  /\ IF s_hold_depth = 1 THEN armed' = TRUE /\ step' = "release"
                         ELSE UNCHANGED <<armed, step>>
  /\ UNCHANGED <<rxVars, aciaVars, room, in, io, taken, nsent>>

\* Mutant: the inner of two operations puts RTS back.
ReleaseInner ==
  /\ step = "app" /\ s_hold_depth > 0
  /\ s_hold_depth' = s_hold_depth - 1
  /\ armed' = TRUE /\ step' = "release"
  /\ UNCHANGED <<rxVars, aciaVars, room, in, io, taken, nsent>>

\* net_rx_release(): the outermost one revives the interrupt ...
Release ==
  /\ step = "app" /\ s_hold_depth > 0
  /\ s_hold_depth' = s_hold_depth - 1
  /\ IF s_hold_depth = 1 THEN armed' = TRUE /\ step' = "release"
                         ELSE UNCHANGED <<armed, step>>
  /\ UNCHANGED <<rxVars, aciaVars, room, in, io, taken, nsent>>

\* ... and then puts RTS back, whatever the ring holds.
ReleaseAssert ==
  /\ step = "release"
  /\ step' = "app"
  /\ RtsOn
  /\ UNCHANGED <<rxVars, rdr, armed, s_hold_depth, room, in, io, taken, nsent>>

\* net_disconnect() drops DTR for half a second; both writes put RTS back ...
DtrOff ==
  /\ step = "app" /\ s_hold_depth = 0
  /\ step' = "dtr"
  /\ RtsOn
  /\ UNCHANGED <<rxVars, rdr, armed, s_hold_depth, room, in, io, taken, nsent>>

DtrOn ==
  /\ step = "dtr"
  /\ step' = "flush"
  /\ RtsOn
  /\ UNCHANGED <<rxVars, rdr, armed, s_hold_depth, room, in, io, taken, nsent>>

\* ... and it ends by throwing away what the ring holds.
Flush ==
  /\ step = "flush"
  /\ step' = "app"
  /\ s_rx_head' = s_rx_tail
  /\ taken' = taken + Fill /\ in' = taken'
  /\ UNCHANGED <<s_rx_buf, s_rx_tail, aciaVars, armed, s_hold_depth, room, io, nsent>>

-----------------------------------------------------------------------------
RingNext ==
  \/ ModemSends \/ Isr
  \/ \E want \in Wants : RxBegin(want)
  \/ RxDrain \/ RxTestFill \/ RxAssert
  \/ Hold \/ Release \/ ReleaseAssert
  \/ DtrOff \/ DtrOn \/ Flush

\* The interrupt and the thread both go on, every disk operation ends, and the
\* loops that wait for the caller ask net_rx() for a byte again and again.
Fairness ==
  /\ SF_ringVars(Isr)
  /\ WF_ringVars(RxDrain) /\ WF_ringVars(RxTestFill) /\ WF_ringVars(RxAssert)
  /\ WF_ringVars(Release) /\ WF_ringVars(ReleaseAssert)
  /\ WF_ringVars(DtrOn) /\ WF_ringVars(Flush)
  /\ SF_ringVars(\E want \in Wants \ {0} : RxBegin(want))

RingSpec == RingInit /\ [][RingNext]_ringVars
RingFairSpec == RingSpec /\ Fairness

-----------------------------------------------------------------------------
(* Properties. *)

\* What is in the ring: every byte sent but the one in the register and those taken.
Waiting == nsent - (IF rdr = 0 THEN 0 ELSE 1) - taken

RingTypeOK ==
  /\ s_rx_buf \in [0..(Size - 1) -> 0..MaxBytes]
  /\ s_rx_head \in 0..(Wrap - 1) /\ s_rx_tail \in 0..(Wrap - 1)
  /\ rdr \in 0..MaxBytes /\ rts \in BOOLEAN /\ credit \in 0..Slack
  /\ armed \in BOOLEAN /\ s_hold_depth \in 0..MaxDepth
  /\ step \in {"app", "drain", "check", "rts", "release", "dtr", "flush"}
  /\ room \in Nat /\ in \in 0..MaxBytes /\ io \in 0..MaxIo
  /\ nsent \in 0..MaxBytes /\ taken \in 0..nsent

\* The ring never holds more bytes than it has room for, although the interrupt
\* does not look: net.c:140, RTS is dropped "so the (un-rate-limited) sender pauses before the
\* 128-byte ring overruns".
NoOverrun == Waiting <= Size

\* The same of the bytes that the BBS still wants: those that net_disconnect() is
\* about to throw away do not matter.
PausesInTime == step \notin {"dtr", "flush"} => NoOverrun

\* net_rx() hands out the bytes in the order they were sent, each once: the
\* counters that wrap and the racing interrupt never lose or repeat one.
InOrder == in = taken

\* While a disk operation runs, with the poll masked, the modem is not told to send.
QuietDuringIo == s_hold_depth > 0 => ~rts

\* When the caller pauses, every byte sent so far is taken out of the ring: none
\* stays behind for want of a poll, an interrupt or room in net_rx()'s buffer.
EveryByteTaken == <>[](taken = nsent)

\* RTS never stays off: the caller is not frozen.
RtsComesBack == []<>rts
=============================================================================
