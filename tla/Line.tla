--------------------------------- MODULE Line ---------------------------------
(***************************************************************************)
(* A call, from ring to hang-up: the state machine of the modem driver     *)
(* (src/src/platform/cbmdos/net.c) under the waits of the BBS that pump it *)
(* (the WFC screen, terminal detection, the session's loop and prompts).   *)
(*                                                                         *)
(* Nothing runs net_rx() but the wait the BBS happens to be in, and the    *)
(* modem changes the line between any two reads of ACIA_STATUS.  On the    *)
(* Ultimate ("u64") DSR follows the line and DTR hangs up; its firmware    *)
(* may keep DSR after the caller has gone, until DTR falls, and may or may *)
(* not send NO CARRIER.  Under VICE ("tcpser") only result codes tell, and *)
(* only +++ATH hangs up.                                                   *)
(*                                                                         *)
(* A token of the ring is a line of text, or a result code, of a call.     *)
(* The telnet filter passes text through; a disk operation is any number   *)
(* of the modem's steps between two of the program's.                      *)
(***************************************************************************)
EXTENDS Integers, Sequences

CONSTANTS
  Modems,          \* which of "u64" and "tcpser" to start with
  TX_STALL_LIMIT,  \* refused bytes that mean a dead peer
  MaxCalls,        \* bound on the calls
  MaxText          \* bound on the lines a caller types

ASSUME LineAssumption ==
  /\ Modems \subseteq {"u64", "tcpser"} /\ Modems # {}
  /\ TX_STALL_LIMIT \in Nat \ {0} /\ MaxCalls \in Nat /\ MaxText \in Nat

VARIABLES
  modem,               \* bbs_cfg.modem_type, as resolved at boot
  line,                \* the call the modem holds, 0 for none
  alive,               \* the caller of that call is still there
  calls,               \* calls so far
  typed,               \* lines of text of the last call
  ring,                \* the tokens of the RX ring
  s_state,
  s_saw_dsr_inactive,
  s_dsr_was_active,
  connected,           \* s_at.connected
  s_tx_stalls,
  s_tx_dead,
  pc,                  \* where in net_rx() or net_disconnect()
  ret,                 \* where net_disconnect() returns to
  got,                 \* the call whose byte net_rx() returned, 0 for none
  at,                  \* the wait the BBS is in
  s_idle_fired,
  conn,                \* the call the driver last answered
  sess                 \* the call the session was started for

modemVars == <<modem, line, alive, calls, typed>>
netVars   == <<s_state, s_saw_dsr_inactive, s_dsr_was_active, connected,
               s_tx_stalls, s_tx_dead, conn>>
appVars   == <<at, s_idle_fired, sess>>
vars == <<modemVars, ring, netVars, pc, ret, got, appVars>>

AtMode == modem = "tcpser"             \* s_at_mode
Dsr    == AtMode \/ line # 0           \* ACIA_STATUS bit 6; constant in VICE

Mark(kind, call) == [kind |-> kind, call |-> call]
Tokens == [kind : {"text", "CONNECT", "NO CARRIER"}, call : 1..MaxCalls]

\* Two net_rx(0) pumps follow the hang-up that ends a session.
Waits    == {"wfc", "drain", "detect", "loop", "step", "key", "prompt", "end",
             "settle1", "settle2"}
KeyWaits == {"step", "key", "prompt"}

TypeOK ==
  /\ modem \in Modems /\ line \in 0..MaxCalls /\ alive \in BOOLEAN
  /\ calls \in 0..MaxCalls /\ typed \in 0..MaxText /\ ring \in Seq(Tokens)
  /\ s_state \in {"IDLE", "CONNECTED", "DROPPING"}
  /\ s_saw_dsr_inactive \in BOOLEAN /\ s_dsr_was_active \in BOOLEAN
  /\ connected \in BOOLEAN
  /\ s_tx_stalls \in 0..TX_STALL_LIMIT /\ s_tx_dead \in BOOLEAN
  /\ pc \in {"start", "rx", "check", "track", "settle", "answer", "reply",
             "ring", "back", "escape", "low", "reset"}
  /\ ret \in {"start", "check", "back"} /\ got \in 0..MaxCalls
  /\ at \in Waits /\ s_idle_fired \in BOOLEAN
  /\ conn \in 0..MaxCalls /\ sess \in 0..MaxCalls

\* After net_init() with no caller on the line.
Init ==
  /\ modem \in Modems /\ line = 0 /\ alive = FALSE /\ calls = 0 /\ typed = 0
  /\ ring = <<>>
  /\ s_state = "IDLE" /\ s_saw_dsr_inactive = ~AtMode
  /\ s_dsr_was_active = FALSE /\ connected = FALSE
  /\ s_tx_stalls = 0 /\ s_tx_dead = FALSE
  /\ pc = "start" /\ ret = "start" /\ got = 0
  /\ at = "wfc" /\ s_idle_fired = FALSE /\ conn = 0 /\ sess = 0

-----------------------------------------------------------------------------
(* The modem and the callers.                                              *)

\* The modem drops its call.  The letters of NO CARRIER reach a connected
\* parser as text before the end of the line makes them a result code.
HangsUp(reported) ==
  /\ line' = 0 /\ alive' = FALSE
  /\ ring' = IF reported
             THEN Append(Append(ring, Mark("text", line)),
                         Mark("NO CARRIER", line))
             ELSE ring
  /\ UNCHANGED <<modem, calls, typed>>

Reports == IF AtMode THEN {TRUE} ELSE BOOLEAN

\* ATS0=1 answers, unless DTR is low.
Dial ==
  /\ line = 0 /\ calls < MaxCalls /\ (pc = "low" => AtMode)
  /\ line' = calls + 1 /\ calls' = calls + 1 /\ alive' = TRUE /\ typed' = 0
  /\ ring' = Append(ring, Mark("CONNECT", calls + 1))
  /\ UNCHANGED <<modem, netVars, pc, ret, got, appVars>>

Type ==
  /\ alive /\ typed < MaxText
  /\ typed' = typed + 1
  /\ ring' = Append(ring, Mark("text", line))
  /\ UNCHANGED <<modem, line, alive, calls, netVars, pc, ret, got, appVars>>

Leave ==
  /\ alive
  /\ \E reported \in Reports : HangsUp(reported)
  /\ UNCHANGED <<netVars, pc, ret, got, appVars>>

\* The socket closes and the firmware does not notice.
LeaveUnnoticed ==
  /\ alive /\ ~AtMode
  /\ alive' = FALSE
  /\ UNCHANGED <<modem, line, calls, typed, ring, netVars>>
  /\ UNCHANGED <<pc, ret, got, appVars>>

Modem == Dial \/ Type \/ Leave \/ LeaveUnnoticed

-----------------------------------------------------------------------------
(* acia_putc() to a connected caller, from a text, a keepalive or an answer *)
(* of the telnet filter.  net_tx() stops at the first byte refused, so a    *)
(* whole text does what one byte does.                                      *)

Sent == s_tx_stalls' = 0 /\ UNCHANGED <<s_state, s_tx_dead>>

\* The transmitter takes no byte: the peer is gone, or reads none.
Stalled ==
  LET dead == s_tx_stalls + 1 >= TX_STALL_LIMIT
  IN /\ s_tx_stalls' = s_tx_stalls + 1
     /\ s_state' = IF dead THEN "DROPPING" ELSE s_state
     /\ s_tx_dead' = (s_tx_dead \/ dead)

Send ==
  IF s_state = "CONNECTED"
  THEN /\ \/ (line # 0 => alive) /\ Sent
          \/ line # 0 /\ Stalled
       /\ UNCHANGED <<s_saw_dsr_inactive, s_dsr_was_active, connected, conn>>
  ELSE UNCHANGED netVars

-----------------------------------------------------------------------------
(* net_disconnect().                                                       *)

Disconnect(to) == pc' = "escape" /\ ret' = to

\* acia_puts("+++"), acia_puts("ATH\r"), with their silences; acia_putc()
\* refuses every byte in NET_DROPPING.
Escape ==
  /\ pc = "escape"
  /\ IF AtMode /\ s_state # "DROPPING" /\ line # 0
     THEN HangsUp(TRUE)
     ELSE UNCHANGED <<modemVars, ring>>
  /\ pc' = "low"
  /\ UNCHANGED <<netVars, ret, got, appVars>>

\* DTR has been low for half a second and rises again.
DtrPulse ==
  /\ pc = "low"
  /\ IF line # 0 /\ ~AtMode
     THEN \E reported \in Reports : HangsUp(reported)
     ELSE UNCHANGED <<modemVars, ring>>
  /\ pc' = "reset"
  /\ UNCHANGED <<netVars, ret, got, appVars>>

\* A hang-up that carries the refused bytes over to the next call.
ResetKeepsStalls ==
  /\ pc = "reset"
  /\ s_state' = "DROPPING" /\ s_tx_dead' = FALSE
  /\ s_saw_dsr_inactive' = FALSE /\ s_dsr_was_active' = FALSE
  /\ connected' = FALSE /\ ring' = <<>>
  /\ pc' = ret
  /\ UNCHANGED <<modemVars, s_tx_stalls, conn, ret, got, appVars>>

Reset ==
  /\ pc = "reset"
  /\ s_state' = "DROPPING" /\ s_tx_stalls' = 0 /\ s_tx_dead' = FALSE
  /\ s_saw_dsr_inactive' = FALSE /\ s_dsr_was_active' = FALSE
  /\ connected' = FALSE /\ ring' = <<>>
  /\ pc' = ret
  /\ UNCHANGED <<modemVars, conn, ret, got, appVars>>

-----------------------------------------------------------------------------
(* net_rx(): one step for each read of the status register, and one for    *)
(* each token of the ring.                                                 *)

want == IF at \in {"wfc", "loop", "settle1", "settle2"} THEN 0 ELSE 1

RxDead ==
  /\ pc = "rx"
  /\ IF s_tx_dead THEN Disconnect("check") ELSE pc' = "check" /\ UNCHANGED ret
  /\ s_tx_dead' = FALSE /\ got' = 0
  /\ UNCHANGED <<modemVars, ring, s_state, s_saw_dsr_inactive,
                 s_dsr_was_active, connected, s_tx_stalls, conn, appVars>>

RxCheck ==
  /\ pc = "check" /\ pc' = "track"
  /\ IF s_state = "CONNECTED" /\ s_dsr_was_active /\ ~Dsr
     THEN s_state' = "DROPPING" /\ connected' = FALSE
     ELSE UNCHANGED <<s_state, connected>>
  /\ UNCHANGED <<modemVars, ring, s_saw_dsr_inactive, s_dsr_was_active,
                 s_tx_stalls, s_tx_dead, conn, ret, got, appVars>>

RxTrack ==
  /\ pc = "track" /\ pc' = "settle"
  /\ s_dsr_was_active' =
       (s_dsr_was_active \/ (~AtMode /\ s_state = "CONNECTED" /\ Dsr))
  /\ UNCHANGED <<modemVars, ring, s_state, s_saw_dsr_inactive, connected,
                 s_tx_stalls, s_tx_dead, conn, ret, got, appVars>>

\* A settle that waits for DSR to fall whatever the call before it was.
RxSettleOnDsrOnly ==
  /\ pc = "settle" /\ pc' = "answer"
  /\ IF s_state = "DROPPING" /\ ~Dsr
     THEN s_state' = "IDLE" /\ s_saw_dsr_inactive' = TRUE
     ELSE UNCHANGED <<s_state, s_saw_dsr_inactive>>
  /\ UNCHANGED <<modemVars, ring, s_dsr_was_active, connected,
                 s_tx_stalls, s_tx_dead, conn, ret, got, appVars>>

RxSettle ==
  /\ pc = "settle" /\ pc' = "answer"
  /\ IF s_state = "DROPPING" /\ (~Dsr \/ ~s_dsr_was_active)
     THEN s_state' = "IDLE" /\ s_saw_dsr_inactive' = TRUE
     ELSE UNCHANGED <<s_state, s_saw_dsr_inactive>>
  /\ UNCHANGED <<modemVars, ring, s_dsr_was_active, connected,
                 s_tx_stalls, s_tx_dead, conn, ret, got, appVars>>

\* An answer that leaves the parser waiting for a result code.
RxAnswerDeaf ==
  /\ pc = "answer" /\ pc' = "reply"
  /\ s_saw_dsr_inactive' = (s_saw_dsr_inactive \/ ~Dsr)
  /\ IF ~AtMode /\ s_state = "IDLE" /\ s_saw_dsr_inactive' /\ Dsr
     THEN s_state' = "CONNECTED" /\ s_dsr_was_active' = TRUE /\ conn' = line
     ELSE UNCHANGED <<s_state, s_dsr_was_active, conn>>
  /\ UNCHANGED <<modemVars, ring, connected, s_tx_stalls, s_tx_dead, ret, got,
                 appVars>>

RxAnswer ==
  /\ pc = "answer" /\ pc' = "reply"
  /\ s_saw_dsr_inactive' = (s_saw_dsr_inactive \/ ~Dsr)
  /\ IF ~AtMode /\ s_state = "IDLE" /\ s_saw_dsr_inactive' /\ Dsr
     THEN /\ s_state' = "CONNECTED" /\ connected' = TRUE
          /\ s_dsr_was_active' = TRUE /\ conn' = line
     ELSE UNCHANGED <<s_state, connected, s_dsr_was_active, conn>>
  /\ UNCHANGED <<modemVars, ring, s_tx_stalls, s_tx_dead, ret, got, appVars>>

\* The telnet filter may owe the caller an answer.
RxReply ==
  /\ pc = "reply" /\ pc' = "ring"
  /\ UNCHANGED netVars \/ Send
  /\ UNCHANGED <<modemVars, ring, ret, got, appVars>>

\* process_inbound() on one token.
Feed(t) ==
  CASE t.kind = "NO CARRIER" ->
         /\ s_state' = "DROPPING" /\ connected' = FALSE
         /\ UNCHANGED <<got, conn>>
    [] t.kind = "CONNECT" /\ ~connected ->
         /\ connected' = TRUE
         /\ s_state' = IF s_state = "IDLE" THEN "CONNECTED" ELSE s_state
         /\ conn' = IF s_state = "IDLE" THEN t.call ELSE conn
         /\ UNCHANGED got
    [] OTHER ->
         /\ got' = IF connected /\ s_state = "CONNECTED" /\ want = 1
                   THEN t.call ELSE got
         /\ UNCHANGED <<s_state, connected, conn>>

MoreToTake == ring # <<>> /\ ~(s_state = "CONNECTED" /\ (want = 0 \/ got # 0))

RxTake ==
  /\ pc = "ring" /\ MoreToTake
  /\ Feed(Head(ring)) /\ ring' = Tail(ring)
  /\ UNCHANGED <<modemVars, s_saw_dsr_inactive, s_dsr_was_active, s_tx_stalls,
                 s_tx_dead, pc, ret, appVars>>

RxReturn ==
  /\ pc = "ring" /\ ~MoreToTake
  /\ pc' = "back"
  /\ UNCHANGED <<modemVars, ring, netVars, ret, got, appVars>>

Net == \/ Escape \/ DtrPulse \/ Reset
       \/ RxDead \/ RxCheck \/ RxTrack \/ RxSettle \/ RxAnswer \/ RxReply
       \/ RxTake \/ RxReturn

-----------------------------------------------------------------------------
(* The waits of the BBS.  Each turn of one starts with net_rx().           *)

Here(a, p) == at = a /\ pc = p

Again  == pc' = "start" /\ UNCHANGED <<at, ret>>
Go(a)  == pc' = "start" /\ at' = a /\ UNCHANGED ret
Kept   == UNCHANGED <<modemVars, ring, got, sess>>

Poll ==
  /\ pc = "start" /\ at # "end"
  /\ pc' = "rx"
  /\ UNCHANGED <<netVars, ret, at, s_idle_fired>> /\ Kept

\* An answer that skips the drain of what the ring already held.
WfcUndrained ==
  /\ Here("wfc", "back")
  /\ IF s_state = "CONNECTED"
     THEN Go("detect") /\ sess' = conn ELSE Again /\ UNCHANGED sess
  /\ UNCHANGED <<modemVars, ring, got, netVars, s_idle_fired>>

\* wfc_update(), session_init(), and the head of term_detect_backspace().
Wfc ==
  /\ Here("wfc", "back")
  /\ IF s_state = "CONNECTED"
     THEN Go("drain") /\ sess' = conn ELSE Again /\ UNCHANGED sess
  /\ UNCHANGED <<modemVars, ring, got, netVars, s_idle_fired>>

\* _term_drain(), then a prompt.
Drain ==
  /\ Here("drain", "back")
  /\ IF got # 0 THEN Again /\ UNCHANGED netVars ELSE Go("detect") /\ Send
  /\ UNCHANGED s_idle_fired /\ Kept

\* session_spy_init(), when detection is over.
ArmIdle == s_idle_fired' = (s_idle_fired /\ at' # "loop")

\* A key: a terminal, or an invalid selection and another prompt.
DetectKey ==
  /\ Here("detect", "back") /\ got # 0
  /\ Go("loop") \/ Go("drain") \/ (at' = "loop" /\ Disconnect("start"))
  /\ Send /\ ArmIdle /\ Kept

DetectNone ==
  /\ Here("detect", "back") /\ got = 0
  /\ IF s_state # "CONNECTED" THEN Go("loop") ELSE Again
  /\ UNCHANGED netVars /\ ArmIdle /\ Kept

DetectIdle ==
  /\ Here("detect", "back") /\ got = 0 /\ s_state = "CONNECTED"
  /\ at' = "loop" /\ Disconnect("start")
  /\ Send /\ ArmIdle /\ Kept

LoopDropped ==
  /\ Here("loop", "back") /\ s_state # "CONNECTED"
  /\ Go("end")
  /\ UNCHANGED <<netVars, s_idle_fired>> /\ Kept

\* session_step(): a wait of its own, a logoff, a caller thrown out; then the
\* SysOp's F2.
LoopStep ==
  /\ Here("loop", "back") /\ s_state = "CONNECTED"
  /\ \/ \E a \in {"step", "key", "end"} : Go(a)
     \/ Disconnect("start") /\ at' \in {"loop", "end"}
  /\ Send /\ UNCHANGED s_idle_fired /\ Kept

LoopOutput ==
  /\ Here("loop", "back") /\ s_state = "CONNECTED"
  /\ Send /\ Again
  /\ UNCHANGED s_idle_fired /\ Kept

\* A key is read: the wait's command goes on, ends, or asks whether to abort.
KeyTaken ==
  /\ at \in KeyWaits /\ pc = "back" /\ got # 0
  /\ \E a \in {"loop", "key", "prompt"} : (a = "prompt" => at = "key") /\ Go(a)
  /\ Send /\ UNCHANGED s_idle_fired /\ Kept

\* Every wait of the session looping like the abort prompt.
KeyNoneUnchecked ==
  /\ at \in KeyWaits /\ pc = "back" /\ got = 0
  /\ IF at = "step" THEN Go("loop") ELSE Again
  /\ UNCHANGED <<netVars, s_idle_fired>> /\ Kept

\* sess_rx_byte() returns to session_step(); sess_read_key() looks at the
\* carrier; the editor's abort prompt does not.
KeyNone ==
  /\ at \in KeyWaits /\ pc = "back" /\ got = 0
  /\ IF at = "step" \/ (at = "key" /\ s_state # "CONNECTED")
     THEN Go("loop") ELSE Again
  /\ UNCHANGED <<netVars, s_idle_fired>> /\ Kept

\* Every few idle seconds: net_keepalive().
Keepalive ==
  /\ at \in KeyWaits /\ pc = "back" /\ got = 0 /\ ~s_idle_fired
  /\ s_state = "CONNECTED" /\ Send
  /\ UNCHANGED <<pc, ret, at, s_idle_fired>> /\ Kept

\* A limit that says goodbye and does not hang up.
IdleOutStays ==
  /\ at \in KeyWaits /\ pc = "back" /\ got = 0 /\ ~s_idle_fired
  /\ s_idle_fired' = TRUE
  /\ UNCHANGED <<netVars, pc, ret, at>> /\ Kept

\* sess_idle_check() past the limit, once in a session.
IdleOut ==
  /\ at \in KeyWaits /\ pc = "back" /\ got = 0 /\ ~s_idle_fired
  /\ s_idle_fired' = TRUE /\ Disconnect("back")
  /\ Send /\ UNCHANGED at /\ Kept

\* session_spy_poll() on F2, or session_time_check() past the limit; the look
\* at the carrier that follows in sess_read_key() finds NET_DROPPING.
Kick ==
  /\ at \in KeyWaits /\ pc = "back" /\ got = 0
  /\ at' = (IF at = "prompt" THEN at ELSE "loop") /\ Disconnect("start")
  /\ Send /\ UNCHANGED s_idle_fired /\ Kept

SessionEnd ==
  /\ Here("end", "start")
  /\ at' = "settle1" /\ Disconnect("start")
  /\ UNCHANGED <<netVars, s_idle_fired>> /\ Kept

Settled ==
  /\ pc = "back"
  /\ (at = "settle1" /\ Go("settle2")) \/ (at = "settle2" /\ Go("wfc"))
  /\ UNCHANGED <<netVars, s_idle_fired>> /\ Kept

Bbs == \/ Poll \/ Wfc \/ Drain \/ DetectKey \/ DetectNone \/ DetectIdle
       \/ LoopDropped \/ LoopStep \/ LoopOutput
       \/ KeyTaken \/ KeyNone \/ Keepalive \/ IdleOut \/ Kick
       \/ SessionEnd \/ Settled

Next == Modem \/ Net \/ Bbs

Spec == Init /\ [][Next]_vars

\* The program runs on; and a wait that finds no byte again and again is
\* found, some time, by the clock of its keepalive and of its idle limit.
FairSpec ==
  /\ Spec /\ WF_vars(Net \/ Bbs)
  /\ SF_vars(Keepalive) /\ SF_vars(IdleOut) /\ SF_vars(DetectIdle)

-----------------------------------------------------------------------------
(* Properties.                                                             *)

\* While the driver is connected its parser passes bytes through, however
\* the call was answered and whatever result codes came late: else every key
\* of the caller would be read as modem chatter (process_inbound, net_rx).
CallerIsHeard == s_state = "CONNECTED" => connected

\* No byte left in the ring by an earlier call is read as a key of a session
\* begun for a later one (net_disconnect's flush, term_detect_backspace's
\* drains).
FreshBytes ==
  (pc = "back" /\ got # 0 /\ at \in {"detect", "step", "key", "prompt"})
    => got >= sess

\* On the Ultimate a caller who stays is answered, whatever the call before
\* left behind in the driver (net_rx, net_disconnect).
LineAnswers ==
  \A k \in 1..MaxCalls :
    (~AtMode /\ line = k /\ alive)
      ~> (s_state = "CONNECTED" \/ line # k \/ ~alive)

\* A call whose caller has gone and whose DSR stays up does not hold the line
\* forever: the stalled transmitter or the idle limit drops DTR (acia_putc,
\* net_keepalive, sess_idle_check).  Not claimed of a session that lives on
\* after its own idle limit, which no longer watches the line.
LineRecovers == (line # 0 /\ ~alive /\ ~s_idle_fired) ~> (line = 0)

\* A wait that looks at the carrier does not outlive the call: the session is
\* back at the WFC screen unless a new call has been connected meanwhile
\* (sess_read_key, _term_getc_blocking, main_loop).
DropNoticed ==
  (at \in {"drain", "detect", "loop", "step", "key"} /\ s_state # "CONNECTED")
    ~> (at = "wfc" \/ s_state = "CONNECTED")

\* net.c:639: "Issue the Hayes escape + ATH so tcpser closes the TCP itself".
AtHangsUp == [][AtMode /\ pc = "escape" /\ pc' = "low" => line' = 0]_vars
=============================================================================
