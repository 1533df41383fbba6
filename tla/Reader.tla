------------------------------- MODULE Reader -------------------------------
(***************************************************************************)
(* The message reader: the boards prompt and the reading prompt            *)
(* (src/src/features/bulletin.c), the callers' read pointers (usrptr.c),   *)
(* and the line editor with its compose buffer (editor.c).                 *)
(*                                                                         *)
(* The reader keeps copies of what it works on: the board's record, the    *)
(* number and the header of the message shown last, the caller's pointers. *)
(* They are global, and outlive a call.  One caller is on at a time.       *)
(*                                                                         *)
(* A board is what MsgBase shows it to be: messages numbered from 1, a     *)
(* deleted one still in its place.  Posting is one action here.            *)
(***************************************************************************)
EXTENDS Naturals, Sequences, FiniteSetsExt

CONSTANTS
  Users,       \* user ids
  NBoards,     \* boards: ids from 1, listed in this order
  Readable,    \* <<user, board>>: the user's level reaches read_level,
  Writable,    \* write_level,
  Moderated,   \* or the user is the board's subop, or a SysOp
  MaxPerBoard, \* CFG_MSG_MAX_PER_BOARD
  Limit,       \* max_msgs of each board; one message is pruned at a time
  MaxLines,    \* CFG_EDITOR_MAX_LINES
  MaxChars,    \* CFG_EDITOR_MAX_CHARS, in lines
  MaxCount,    \* where editor_count_lines() stops counting: 0xFF
  Faults,      \* subset of FaultKinds
  MaxFaults,   \* bounds on the failures,
  MaxDrafts,   \* the messages begun
  MaxCalls     \* and the calls

FaultKinds == {"ptr",   \* USR.PTR cannot be opened, or not saved
               "board", \* a record of BOARDS cannot be read
               "msg",   \* a record of B<n>.IDX cannot be read, or written; a body
                        \* cannot be read
               "post",  \* msg_post() fails part way
               "user"}  \* the author's record cannot be read

Boards == 1 .. NBoards

ASSUME ReaderAssumption ==
  /\ Users \subseteq Nat \ {0}
  /\ Readable \cup Writable \cup Moderated \subseteq Users \X Boards
  /\ {NBoards, MaxPerBoard, MaxLines, MaxChars, MaxCount} \subseteq Nat \ {0}
  /\ Limit \in [Boards -> Nat \ {0}] /\ Faults \subseteq FaultKinds
  /\ {MaxFaults, MaxDrafts, MaxCalls} \subseteq Nat

VARIABLES
  base,      \* the messages of each board
  high,      \* msg_high_id in each board's record
  marks,     \* USR.PTR
  at,        \* "menu", the prompts "boards" and "reading", the editor, and
             \* its question whether to abort
  caller, carrier,
  s_board, s_high,      \* s_board: its id (0: none read yet) and msg_high_id
  s_cur_msg, s_author,  \* the message shown last, author_id of s_cur_info
  s_ptr,     \* the caller's pointers
  parent, to,           \* locals of bull_do_post()
  compose,   \* the lines of the compose buffer, each as its draft
  cut,       \* 1 if the buffer is full and ends within a line, otherwise 0
  s_line_count,
  shown,     \* history: what display_msg() has shown each caller
  found,     \* history: what they found current, entering without board 1
  uncounted, \* history: the lines /Q has left in the buffer and not counted
  draft, calls, fails   \* history: messages begun, calls, failures

disk    == <<base, high, marks>>
line    == <<caller, carrier, calls>>
board   == <<s_board, s_high>>
current == <<s_cur_msg, s_author>>
text    == <<compose, cut, s_line_count, uncounted>>
writing == <<parent, to, text, draft>>
seen    == <<shown, found>>
vars == <<disk, at, line, board, current, s_ptr, writing, seen, fails>>

NoFault  == UNCHANGED fails
Fault(k) == k \in Faults /\ fails < MaxFaults /\ fails' = fails + 1

Index(b) == IF b = 0 THEN << >> ELSE base[b]
Live(b)  == {m \in DOMAIN Index(b) : ~Index(b)[m].del}

\* msg_next_unread_any(): the live messages above h, the lowest to be read first.
Unread(h) == {m \in Live(s_board) : m > h}

Mark == IF s_board = 0 THEN 0 ELSE s_ptr[s_board]

NoMarks == [b \in Boards |-> 0]

Init ==
  /\ base = [b \in Boards |-> << >>] /\ high = NoMarks
  /\ marks = [u \in Users |-> NoMarks]
  /\ at = "menu" /\ caller = 0 /\ carrier = FALSE
  /\ s_board = 0 /\ s_high = 0 /\ s_cur_msg = 0 /\ s_author = 0
  /\ s_ptr = NoMarks
  /\ parent = 0 /\ to = 0
  /\ compose = << >> /\ cut = 0 /\ s_line_count = 0 /\ uncounted = 0
  /\ shown = [u \in Users |-> [b \in Boards |-> {}]] /\ found = shown
  /\ draft = 0 /\ calls = 0 /\ fails = 0

-----------------------------------------------------------------------------
(* Parts of the handlers. *)

\* Mutant: the message shown last stays current.
LoadBoardOnly(b) ==
  /\ s_board' = b /\ s_high' = high[b] /\ UNCHANGED current

\* bull_load_board(), when the record can be read.
LoadBoard(b) ==
  /\ s_board' = b /\ s_high' = high[b]
  /\ s_cur_msg' = 0 /\ UNCHANGED s_author

\* display_msg(): a message that is missing, deleted or not readable is not shown,
\* and what was current stays so.
Shows(m) ==
  /\ m \in Live(s_board) /\ NoFault
  /\ s_cur_msg' = m /\ s_author' = base[s_board][m].author
  /\ shown' = [shown EXCEPT ![caller][s_board] = @ \cup {m}] /\ UNCHANGED found
ShowsNot(m) ==
  /\ \/ m \notin Live(s_board) /\ NoFault
     \/ Fault("msg")
  /\ UNCHANGED <<current, seen>>
Display(m) == Shows(m) \/ ShowsNot(m)

\* usrptr_advance() to message m of the board at hand.
AdvanceTo(m) ==
  s_ptr' = IF s_board = 0 THEN s_ptr
           ELSE [s_ptr EXCEPT ![s_board] = IF m > @ THEN m ELSE @]

\* Mutant: what is left in the buffer stays.
ComposeStays == UNCHANGED <<compose, cut>>

\* reu_compose_init().
ComposeInit == compose' = << >> /\ cut' = 0

NoLines == ComposeInit /\ s_line_count' = 0 /\ uncounted' = 0

\* Mutant: the pointer goes to the message asked for.
DisplayJumpTo(m) == Display(m) /\ AdvanceTo(m)

\* R#: the pointer follows only if another message was shown.
DisplayJump(m) ==
  /\ Display(m)
  /\ IF s_cur_msg' = s_cur_msg THEN UNCHANGED s_ptr ELSE AdvanceTo(s_cur_msg')

\* A command at prompt p.
At(p) == at = p /\ carrier

\* A carrier lost while a prompt waits for a key is taken for ENTER.
EnterKey == UNCHANGED <<caller, calls>> /\ carrier' \in {TRUE, FALSE}

-----------------------------------------------------------------------------
(* bulletin_run(). *)

\* A caller enters: the pointers, none if they cannot be read, and board 1.  If that
\* cannot be read, the board and the message of the call before stay at hand.
Begin(u) ==
  /\ at = "menu" /\ calls < MaxCalls
  /\ at' = "boards" /\ caller' = u /\ carrier' = TRUE /\ calls' = calls + 1
  /\ \/ s_ptr' = marks[u] /\ LoadBoard(1) /\ NoFault
     \/ s_ptr' = NoMarks /\ LoadBoard(1) /\ Fault("ptr")
     \/ s_ptr' = marks[u] /\ UNCHANGED <<board, current>> /\ Fault("board")
  /\ found' = IF s_cur_msg' = 0 THEN found
              ELSE [found EXCEPT ![u][s_board] = @ \cup {s_cur_msg}]
  /\ UNCHANGED <<disk, writing, shown>>

\* ENTER, N, or R at the boards prompt, above pointer h.
ReadFirst(h) ==
  /\ IF Unread(h) = {}
       THEN UNCHANGED <<at, current, s_ptr, seen, fails>>
       ELSE /\ Display(Min(Unread(h))) /\ AdvanceTo(s_cur_msg')
            /\ at' = "reading"
  /\ UNCHANGED <<disk, board, writing>>

First   == At("boards") /\ EnterKey /\ ReadFirst(0)
NextNew == At("boards") /\ UNCHANGED line /\ ReadFirst(Mark)

\* R# at the boards prompt: the reading prompt follows, if need be with the message
\* shown before.
ReadNumber(m) ==
  /\ At("boards") /\ DisplayJump(m)
  /\ at' = IF s_cur_msg' > 0 THEN "reading" ELSE "boards"
  /\ UNCHANGED <<disk, line, board, writing>>

\* P or W: a new message.  Whom it is to is not kept, except of replies.
Post ==
  /\ At("boards") /\ draft < MaxDrafts
  /\ \E b \in {s_board} : b = 0 \/ <<caller, b>> \in Writable
  /\ at' = "editing" /\ draft' = draft + 1
  /\ parent' = 0 /\ to' = 0
  /\ NoLines
  /\ UNCHANGED <<disk, line, board, current, s_ptr, seen, fails>>

\* The k-th board after, or before, the one at hand, and round.
After  == [k \in Boards |-> ((s_board + k - 1) % NBoards) + 1]
Before == [k \in Boards |-> ((Max({s_board, 1}) - 1 + NBoards - k)
                              % NBoards) + 1]

\* +, -: bull_shift_board(), to the next board, as nth counts them, that the caller
\* may read; a board whose record cannot be read is passed over.
Shift(nth) ==
  /\ At("boards")
  /\ LET mine == {k \in Boards : <<caller, nth[k]>> \in Readable}
     IN \/ \E k \in mine :
             /\ LoadBoard(nth[k])
             /\ IF \A j \in mine : k <= j THEN NoFault ELSE Fault("board")
        \/ /\ (mine = {} /\ NoFault) \/ Fault("board")
           /\ UNCHANGED <<board, current>>
  /\ UNCHANGED <<disk, at, line, s_ptr, writing, seen>>

\* #: a board by its number.
Select(b) ==
  /\ At("boards")
  /\ \/ LoadBoard(b) /\ NoFault
     \/ UNCHANGED <<board, current>> /\ Fault("board")
  /\ UNCHANGED <<disk, at, line, s_ptr, writing, seen>>

\* The way out, by Q or without a carrier: usrptr_save().
Leave ==
  /\ at = "boards"
  /\ at' = "menu" /\ caller' = 0 /\ carrier' = FALSE
  /\ \/ marks' = [marks EXCEPT ![caller] = s_ptr] /\ NoFault
     \/ UNCHANGED marks /\ Fault("ptr")
  /\ UNCHANGED <<base, high, calls, board, current, s_ptr, writing, seen>>

-----------------------------------------------------------------------------
(* bull_reading_loop(). *)

\* ENTER: the message after the current one, or out at the end.
Enter ==
  /\ At("reading") /\ EnterKey
  /\ LET m == s_cur_msg + 1
         there == m <= Len(Index(s_board)) /\ (s_high > 0 => m <= s_high)
     IN \/ /\ (~there /\ NoFault) \/ Fault("msg")
           /\ at' = "boards" /\ UNCHANGED <<current, s_ptr, seen>>
        \/ /\ there /\ Display(m) /\ UNCHANGED at
           /\ IF m \in Live(s_board) THEN AdvanceTo(s_cur_msg')
                                     ELSE UNCHANGED s_ptr
  /\ UNCHANGED <<disk, board, writing>>

\* N: the next new one, if any.
ReadNextNew ==
  /\ At("reading") /\ Unread(Mark) # {}
  /\ Display(Min(Unread(Mark))) /\ AdvanceTo(s_cur_msg')
  /\ UNCHANGED <<disk, at, line, board, writing>>

\* R or R#.
ReadAgain   == /\ At("reading") /\ Display(s_cur_msg)
               /\ UNCHANGED <<disk, at, line, board, s_ptr, writing>>
ReadJump(m) == /\ At("reading") /\ DisplayJump(m)
               /\ UNCHANGED <<disk, at, line, board, writing>>

\* *: to the author of the current message, or to all if it has none.
Reply ==
  /\ At("reading") /\ s_cur_msg # 0 /\ draft < MaxDrafts
  /\ s_board # 0 => <<caller, s_board>> \in Writable
  /\ at' = "editing" /\ draft' = draft + 1
  /\ parent' = s_cur_msg
  /\ \/ to' = s_author /\ NoFault
     \/ to' = 0 /\ Fault("user")
  /\ NoLines
  /\ UNCHANGED <<disk, line, board, current, s_ptr, seen>>

\* K, by the author or a moderator.  A failed msg_delete() may have set the flag.
Kill ==
  /\ At("reading") /\ s_cur_msg # 0 /\ s_board # 0
  /\ s_author = caller \/ <<caller, s_board>> \in Moderated
  /\ LET gone == IF s_cur_msg \in DOMAIN Index(s_board)
                   THEN [base EXCEPT ![s_board][s_cur_msg].del = TRUE] ELSE base
     IN \/ /\ base' = gone /\ s_cur_msg' = 0 /\ at' = "boards" /\ NoFault
        \/ /\ base' \in {base, gone} /\ UNCHANGED <<s_cur_msg, at>> /\ Fault("msg")
  /\ UNCHANGED <<high, marks, line, board, s_author, s_ptr, writing, seen>>

\* Q, or no carrier.
StopReading ==
  /\ at = "reading" /\ at' = "boards"
  /\ UNCHANGED <<disk, line, board, current, s_ptr, writing, seen, fails>>

-----------------------------------------------------------------------------
(* editor_run() and the rest of bull_do_post(). *)

unedited == <<disk, line, board, current, s_ptr, seen, parent, to, draft>>

\* bull_do_post() returns to the prompt it was called from.
Back == at' = IF parent > 0 THEN "reading" ELSE "boards"

\* A line is ended, by RETURN or because it is full.
TypeLine ==
  /\ At("editing")
  /\ s_line_count < MaxLines /\ Len(compose) + 1 < MaxChars
  /\ compose' = Append(compose, draft) /\ s_line_count' = s_line_count + 1
  /\ UNCHANGED <<unedited, cut, uncounted, at, fails>>

\* The last line is taken out of the buffer, be it cut or not.
PopLine == /\ compose' = IF cut = 1 THEN compose ELSE SubSeq(compose, 1, Len(compose) - 1)
           /\ cut' = 0 /\ UNCHANGED uncounted

\* Mutant: with no test for a first line.
RuboutAlways ==
  /\ At("editing") /\ PopLine
  /\ s_line_count' = (s_line_count + 255) % 256
  /\ UNCHANGED <<unedited, at, fails>>

\* DEL at the start of a line: the line before it is taken back to be edited, and
\* counted off, though a cut one was not counted.
Rubout ==
  /\ At("editing") /\ s_line_count > 0 /\ PopLine
  /\ s_line_count' = s_line_count - 1
  /\ UNCHANGED <<unedited, at, fails>>

Counted(n) == IF n <= MaxCount THEN n ELSE MaxCount

\* reu_compose_putc() of n lines: what does not fit is dropped, and the last line
\* that does may be cut.
PutLines(n) ==
  LET room == IF cut = 1 THEN 0 ELSE MaxChars - Len(compose)
  IN \E k \in 0 .. room :
       /\ \/ k = (IF n <= room THEN n ELSE room) /\ UNCHANGED cut
          \/ k + 1 = room /\ room <= n /\ cut' = 1
       /\ compose' = compose \o [i \in 1 .. k |-> draft]

\* /Q: the current message, with a line that names its author before it: nothing if
\* its record cannot be read, and its first lines if its body can be read in part.
\* The editor then counts the lines anew.
Quote ==
  /\ At("editing") /\ parent > 0 /\ s_cur_msg \in DOMAIN Index(s_board)
  /\ LET whole == 1 + Index(s_board)[s_cur_msg].lines
     IN \/ PutLines(whole) /\ NoFault
        \/ Fault("msg") /\ \E n \in 0 .. whole : PutLines(n)
  /\ s_line_count' = Counted(Len(compose'))
  /\ uncounted' = Len(compose') + cut' - s_line_count'
  /\ UNCHANGED <<unedited, at>>

\* /A: the question waits for a key, carrier or not.
AskAbort == /\ At("editing") /\ at' = "abort"
            /\ UNCHANGED <<unedited, text, fails>>
Abort    == /\ at = "abort" /\ Back /\ NoLines
            /\ UNCHANGED <<unedited, fails>>
GoOn     == /\ at = "abort" /\ at' = "editing"
            /\ UNCHANGED <<unedited, text, fails>>

\* Without a carrier the editor gives up, and leaves its lines in the buffer.
GiveUp == /\ at = "editing" /\ ~carrier /\ Back
          /\ UNCHANGED <<unedited, text, fails>>

\* msg_post() on a board at its limit prunes the oldest message first.
Pruned(b) ==
  IF Cardinality(Live(b)) >= Limit[b]
    THEN [base EXCEPT ![b][Min(Live(b))].del = TRUE] ELSE base

\* /S: msg_post(), and the board's record is read again.
Save ==
  /\ At("editing") /\ Back
  /\ LET b    == s_board
         msg  == [author |-> caller, to |-> to, parent |-> parent,
                  lines |-> Len(compose) + cut, del |-> FALSE]
         done == [Pruned(b) EXCEPT ![b] = Append(@, msg)]
         fits == Len(Index(b)) < MaxPerBoard
     IN \/ /\ b # 0 /\ fits
           /\ base' = done /\ high' = [high EXCEPT ![b] = Len(base'[b])]
           /\ ComposeInit
           /\ \/ s_high' = high'[b] /\ NoFault
              \/ UNCHANGED s_high /\ Fault("board")
        \/ /\ b # 0 /\ ~fits /\ NoFault
           /\ base' = Pruned(b) /\ ComposeInit
           /\ UNCHANGED <<high, s_high>>
        \/ /\ b # 0 /\ Fault("post")
           /\ base' \in {base, Pruned(b)} \cup (IF fits THEN {done} ELSE {})
           /\ ComposeInit \/ UNCHANGED <<compose, cut>>
           /\ UNCHANGED <<high, s_high>>
        \/ b = 0 /\ NoFault /\ UNCHANGED <<base, high, s_high, compose, cut>>
  /\ UNCHANGED <<marks, line, s_board, current, s_ptr, seen, parent, to,
                 s_line_count, uncounted, draft>>

-----------------------------------------------------------------------------
(* The caller's line, and a reset. *)

HangUp ==
  /\ at # "menu" /\ carrier /\ carrier' = FALSE
  /\ UNCHANGED <<disk, at, caller, calls, board, current, s_ptr, writing,
                 seen, fails>>

\* The variables start again; the compose buffer is empty with them.
Reset ==
  /\ at # "menu"
  /\ at' = "menu" /\ caller' = 0 /\ carrier' = FALSE
  /\ s_board' = 0 /\ s_high' = 0 /\ s_cur_msg' = 0 /\ s_author' = 0
  /\ s_ptr' = NoMarks /\ parent' = 0 /\ to' = 0 /\ NoLines
  /\ UNCHANGED <<disk, calls, seen, draft, fails>>

Numbers == 1 .. MaxPerBoard

Next ==
  \/ \E u \in Users : Begin(u)
  \/ First \/ NextNew \/ Post \/ Leave
  \/ \E m \in Numbers : ReadNumber(m)
  \/ Shift(After) \/ Shift(Before)
  \/ \E b \in Boards : Select(b)
  \/ Enter \/ ReadNextNew \/ ReadAgain \/ Reply \/ Kill \/ StopReading
  \/ \E m \in Numbers : ReadJump(m)
  \/ TypeLine \/ Rubout \/ Quote \/ AskAbort \/ Abort \/ GoOn \/ GiveUp \/ Save
  \/ HangUp \/ Reset

Spec == Init /\ [][Next]_vars

-----------------------------------------------------------------------------
(* Properties. *)

Message == [author : Users, to : Users \cup {0}, parent : 0 .. MaxPerBoard,
            lines : 0 .. MaxChars, del : BOOLEAN]
Pointers == [Boards -> 0 .. MaxPerBoard]

TextOK ==
  /\ compose \in Seq(1 .. MaxDrafts) /\ Len(compose) <= MaxChars
  /\ cut \in {0, 1} /\ (cut = 1 => Len(compose) + 1 = MaxChars)
  /\ s_line_count \in 0 .. MaxChars /\ uncounted \in 0 .. MaxChars

\* The reader's copies are of boards, messages and users there are, and the compose
\* buffer never holds more than it has room for.
TypeOK ==
  /\ base \in [Boards -> {s \in Seq(Message) : Len(s) <= MaxPerBoard}]
  /\ high \in Pointers /\ marks \in [Users -> Pointers] /\ s_ptr \in Pointers
  /\ at \in {"menu", "boards", "reading", "editing", "abort"}
  /\ caller \in (IF at = "menu" THEN {0} ELSE Users) /\ carrier \in BOOLEAN
  /\ s_board \in Boards \cup {0} /\ s_high \in 0 .. MaxPerBoard
  /\ s_cur_msg \in 0 .. MaxPerBoard /\ s_author \in Users \cup {0}
  /\ parent \in 0 .. MaxPerBoard /\ to \in Users \cup {0}
  /\ TextOK
  /\ {shown, found} \subseteq [Users -> [Boards -> SUBSET (1 .. MaxPerBoard)]]
  /\ draft \in 0 .. MaxDrafts /\ calls \in 0 .. MaxCalls /\ fails \in 0 .. MaxFaults

\* A read pointer, in the reader or in USR.PTR, is at a message that was shown to
\* its caller: a number asked for but missing or deleted does not move it, nor does
\* a message of another board.  A message of the caller before may, if it was still
\* current because board 1 could not be read when the caller entered.
MarksShown ==
  \A b \in Boards :
    /\ at # "menu" => s_ptr[b] \in {0} \cup shown[caller][b] \cup found[caller][b]
    /\ \A u \in Users : marks[u][b] \in {0} \cup shown[u][b] \cup found[u][b]

\* What USR.PTR holds are "Per-user last-read pointers" (README.md:703).
LastRead == \A u \in Users, b \in Boards : marks[u][b] \in {0} \cup shown[u][b]

\* At the reading prompt a message is deleted only by its author or by one who
\* moderates its board, although what K looks at are copies kept from an earlier
\* command, perhaps of an earlier call.
KillsAuthorised ==
  [][at = "reading" => \A b \in Boards : \A m \in DOMAIN base[b] :
       base'[b][m].del /\ ~base[b][m].del =>
         base[b][m].author = caller \/ <<caller, b>> \in Moderated]_vars

\* A reply is to a message posted before it on its board, and is addressed to that
\* message's author, or to all.
RepliesReachAuthor ==
  \A b \in Boards : \A m \in DOMAIN base[b] :
    LET p == base[b][m].parent
    IN p # 0 => p < m /\ base[b][m].to \in {0, base[b][p].author}

\* While a message is edited, all lines of the compose buffer were typed or quoted
\* for it, and s_line_count counts them, whatever an earlier draft left there.  It
\* never counts more than there are to rub out, and fewer only by a line /Q cut short
\* or by those it added beyond what editor_count_lines() can count.
DraftIsOwn ==
  at \in {"editing", "abort"} =>
    /\ s_line_count <= Len(compose) /\ \A i \in DOMAIN compose : compose[i] = draft
    /\ s_line_count + uncounted = Len(compose) + cut

\* "ENTER: advance to next message; auto-exit when exhausted" (bulletin.c:545).
EnterMoves == At("reading") => ENABLED <<Enter /\ carrier'>>_vars
=============================================================================
