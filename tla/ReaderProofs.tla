---------------------------- MODULE ReaderProofs ----------------------------
(***************************************************************************)
(* Theorems about Reader, for any number of users, boards, messages and    *)
(* failures.                                                               *)
(*                                                                         *)
(* What the reader keeps of a message is not read again before it is used. *)
(* CurrentInv says that it stays true of the message: the messages it is   *)
(* of are only ever added to and marked deleted (Kept), and every change   *)
(* of board forgets it.                                                    *)
(***************************************************************************)
EXTENDS Reader, SequenceTheorems, TLAPS

Bases == [Boards -> {s \in Seq(Message) : Len(s) <= MaxPerBoard}]

\* The messages of x are those of y as far as they go, deletion apart.
SameSeq(s, t) ==
  /\ Len(s) <= Len(t)
  /\ \A m \in 1 .. Len(s) : /\ t[m].author = s[m].author
                            /\ t[m].to = s[m].to /\ t[m].parent = s[m].parent
Kept(x, y) == \A b \in Boards : SameSeq(x[b], y[b])

\* At work on a draft.
Editing == at \in {"editing", "abort"}
DraftInv == DraftIsOwn /\ (Editing => draft # 0)

\* What the reader keeps of the current message is that message's.
CurrentInv ==
  s_cur_msg # 0 => /\ s_board # 0 /\ s_cur_msg \in 1 .. Len(base[s_board])
                   /\ s_author = base[s_board][s_cur_msg].author

\* A reply under way is to the current message.
ReplyInv == Editing /\ parent # 0 => parent = s_cur_msg /\ to \in {0, s_author}

Inv == TypeOK /\ DraftInv /\ CurrentInv /\ ReplyInv /\ RepliesReachAuthor

-----------------------------------------------------------------------------
LEMMA Bounds ==
  /\ MaxPerBoard \in Nat /\ MaxLines \in Nat /\ MaxChars \in Nat
  /\ MaxFaults \in Nat /\ MaxDrafts \in Nat /\ MaxCalls \in Nat
  /\ 0 \in 0 .. MaxPerBoard /\ 0 \in 0 .. MaxChars
BY ReaderAssumption

(* The message base. *)

\* A board is a function on 1 .. Len.
LEMMA BoardSeq ==
  ASSUME NEW x \in Bases, NEW b \in Boards
  PROVE  /\ x[b] \in Seq(Message) /\ Len(x[b]) \in 0 .. MaxPerBoard
         /\ DOMAIN x[b] = 1 .. Len(x[b])
         /\ \A m \in 1 .. Len(x[b]) : x[b][m] \in Message
<1>1. x[b] \in Seq(Message) /\ Len(x[b]) <= MaxPerBoard
  BY DEF Bases
<1>2. MaxPerBoard \in Nat
  BY ReaderAssumption
<1> QED BY <1>1, <1>2, LenProperties

\* Marking a message deleted changes no more than that, and nothing at all if
\* there is no such message.
LEMMA MarkedSeq ==
  ASSUME NEW s \in Seq(Message), NEW m
  PROVE  /\ [s EXCEPT ![m].del = TRUE] \in Seq(Message)
         /\ Len([s EXCEPT ![m].del = TRUE]) = Len(s)
         /\ SameSeq(s, [s EXCEPT ![m].del = TRUE])
<1> DEFINE t == [s EXCEPT ![m].del = TRUE]
<1>1. s \in [1 .. Len(s) -> Message] /\ Len(s) \in Nat /\ DOMAIN s = 1 .. Len(s)
  BY LenProperties
<1>2. \A k \in 1 .. Len(s) : [s[k] EXCEPT !.del = TRUE] \in Message
  BY <1>1 DEF Message
<1>3. t = [k \in 1 .. Len(s) |-> IF k = m THEN [s[k] EXCEPT !.del = TRUE] ELSE s[k]]
  BY <1>1
<1>4. t \in [1 .. Len(s) -> Message]
  BY <1>1, <1>2, <1>3
<1>5. t \in Seq(Message)
  BY <1>1, <1>4, SeqDef
<1>6. DOMAIN t = 1 .. Len(t) /\ Len(t) \in Nat /\ DOMAIN t = 1 .. Len(s)
  BY <1>3, <1>5, LenProperties
<1>7. Len(t) = Len(s)
  BY <1>1, <1>6
<1>8. SameSeq(s, t)
  BY <1>1, <1>2, <1>3, <1>7 DEF SameSeq, Message
<1> QED BY <1>5, <1>7, <1>8

LEMMA Marked ==
  ASSUME NEW x \in Bases, NEW b \in Boards, NEW m
  PROVE  /\ [x EXCEPT ![b][m].del = TRUE] \in Bases
         /\ \A c \in Boards : Len([x EXCEPT ![b][m].del = TRUE][c]) = Len(x[c])
         /\ Kept(x, [x EXCEPT ![b][m].del = TRUE])
<1> DEFINE y == [x EXCEPT ![b][m].del = TRUE]
<1>1. \A c \in Boards : /\ x[c] \in Seq(Message) /\ Len(x[c]) \in Nat
                        /\ Len(x[c]) <= MaxPerBoard
  BY BoardSeq
<1>2. y[b] = [x[b] EXCEPT ![m].del = TRUE] /\ \A c \in Boards \ {b} : y[c] = x[c]
  BY DEF Bases
<1>0. y = [c \in Boards |-> y[c]]
  BY DEF Bases
<1> HIDE DEF y
<1>3. y[b] \in Seq(Message) /\ Len(y[b]) = Len(x[b]) /\ SameSeq(x[b], y[b])
  <2>1. /\ [x[b] EXCEPT ![m].del = TRUE] \in Seq(Message)
        /\ Len([x[b] EXCEPT ![m].del = TRUE]) = Len(x[b])
        /\ SameSeq(x[b], [x[b] EXCEPT ![m].del = TRUE])
    BY <1>1, MarkedSeq
  <2> QED BY <2>1, <1>2
<1>4. \A c \in Boards : /\ y[c] \in Seq(Message) /\ Len(y[c]) = Len(x[c])
                        /\ SameSeq(x[c], y[c])
  <2>1. \A c \in Boards : SameSeq(x[c], x[c])
    BY <1>1 DEF SameSeq
  <2> QED BY <1>1, <1>2, <1>3, <2>1
<1>5. y \in Bases
  BY <1>0, <1>1, <1>4 DEF Bases
<1>6. Kept(x, y)
  BY <1>4 DEF Kept
<1> QED BY <1>4, <1>5, <1>6 DEF y

\* Appending a message to a board with room for it.
LEMMA Appended ==
  ASSUME NEW x \in Bases, NEW b \in Boards, NEW r \in Message,
         Len(x[b]) < MaxPerBoard
  PROVE  /\ [x EXCEPT ![b] = Append(@, r)] \in Bases
         /\ Kept(x, [x EXCEPT ![b] = Append(@, r)])
         /\ Len([x EXCEPT ![b] = Append(@, r)][b]) = Len(x[b]) + 1
         /\ [x EXCEPT ![b] = Append(@, r)][b][Len(x[b]) + 1] = r
         /\ \A c \in Boards \ {b} : [x EXCEPT ![b] = Append(@, r)][c] = x[c]
<1> DEFINE y == [x EXCEPT ![b] = Append(@, r)]
<1>1. \A c \in Boards : /\ x[c] \in Seq(Message) /\ Len(x[c]) \in Nat
                        /\ Len(x[c]) <= MaxPerBoard
  BY BoardSeq
<1>2. y[b] = Append(x[b], r) /\ \A c \in Boards \ {b} : y[c] = x[c]
  BY DEF Bases
<1>0. y = [c \in Boards |-> y[c]]
  BY DEF Bases
<1> HIDE DEF y
<1>3. /\ y[b] \in Seq(Message) /\ Len(y[b]) = Len(x[b]) + 1
      /\ \A k \in 1 .. Len(x[b]) : y[b][k] = x[b][k]
      /\ y[b][Len(x[b]) + 1] = r
  BY <1>1, <1>2, AppendProperties
<1>4. \A c \in Boards : /\ y[c] \in Seq(Message) /\ Len(y[c]) <= MaxPerBoard
                        /\ SameSeq(x[c], y[c])
  <2>1. Len(x[b]) + 1 <= MaxPerBoard
    BY <1>1, ReaderAssumption
  <2>2. \A c \in Boards : SameSeq(x[c], x[c])
    BY <1>1 DEF SameSeq
  <2>3. SameSeq(x[b], y[b])
    BY <1>1, <1>3 DEF SameSeq
  <2> QED BY <1>1, <1>2, <1>3, <2>1, <2>2, <2>3
<1>5. y \in Bases
  BY <1>0, <1>4 DEF Bases
<1>6. Kept(x, y)
  BY <1>4 DEF Kept
<1> QED BY <1>2, <1>3, <1>5, <1>6 DEF y

\* Nothing kept is lost by keeping more.
LEMMA KeptTwice ==
  ASSUME NEW x \in Bases, NEW y \in Bases, NEW z \in Bases, Kept(x, y), Kept(y, z)
  PROVE  Kept(x, z)
<1>1. \A b \in Boards : Len(x[b]) \in Nat /\ Len(y[b]) \in Nat /\ Len(z[b]) \in Nat
  BY BoardSeq
<1> QED BY <1>1 DEF Kept, SameSeq

LEMMA KeptSame ==
  ASSUME NEW x \in Bases
  PROVE  Kept(x, x)
BY BoardSeq DEF Kept, SameSeq

LEMMA PrunedKept ==
  ASSUME base \in Bases, NEW b \in Boards
  PROVE  /\ Pruned(b) \in Bases
         /\ \A c \in Boards : Len(Pruned(b)[c]) = Len(base[c])
         /\ Kept(base, Pruned(b))
<1>1. CASE Cardinality(Live(b)) >= Limit[b]
  <2> DEFINE m == Min(Live(b))
  <2>1. Pruned(b) = [base EXCEPT ![b][m].del = TRUE]
    BY <1>1 DEF Pruned
  <2> HIDE DEF m
  <2>2. /\ [base EXCEPT ![b][m].del = TRUE] \in Bases
        /\ \A c \in Boards : Len([base EXCEPT ![b][m].del = TRUE][c]) = Len(base[c])
        /\ Kept(base, [base EXCEPT ![b][m].del = TRUE])
    BY Marked
  <2> QED BY <2>1, <2>2
<1>2. CASE ~(Cardinality(Live(b)) >= Limit[b])
  BY <1>2, KeptSame DEF Pruned
<1> QED BY <1>1, <1>2

\* A message stays current while the base is only added to and marked.
LEMMA CurrentKept ==
  ASSUME base \in Bases, base' \in Bases, Kept(base, base'), CurrentInv,
         s_board \in Boards \cup {0}, UNCHANGED <<s_board, s_cur_msg, s_author>>
  PROVE  CurrentInv'
<1>1. \A b \in Boards : Len(base[b]) \in Nat /\ Len(base'[b]) \in Nat
  BY BoardSeq
<1> QED BY <1>1 DEF CurrentInv, Kept, SameSeq

\* So do the messages replies are to.
LEMMA RepliesKept ==
  ASSUME NEW x \in Bases, NEW y \in Bases, Kept(x, y), NEW b \in Boards,
         NEW m \in 1 .. Len(x[b]), x[b][m].parent # 0 =>
           x[b][m].parent < m /\ x[b][m].to \in {0, x[b][x[b][m].parent].author}
  PROVE  y[b][m].parent # 0 =>
           y[b][m].parent < m /\ y[b][m].to \in {0, y[b][y[b][m].parent].author}
<1> DEFINE p == x[b][m].parent
<1>1. Len(x[b]) \in Nat /\ x[b][m] \in Message
  BY BoardSeq
<1>2. p \in 0 .. MaxPerBoard
  BY <1>1 DEF Message
<1>3. /\ y[b][m].parent = p /\ y[b][m].to = x[b][m].to
      /\ p \in 1 .. Len(x[b]) => y[b][p].author = x[b][p].author
  BY <1>1 DEF Kept, SameSeq
<1>4. p # 0 /\ p < m => p \in 1 .. Len(x[b])
  BY SMTT(20), <1>1, <1>2, ReaderAssumption
<1> HIDE DEF p
<1> QED BY <1>3, <1>4 DEF p

LEMMA NoneAdded ==
  ASSUME base \in Bases, base' \in Bases, Kept(base, base'), RepliesReachAuthor,
         \A b \in Boards : Len(base'[b]) = Len(base[b])
  PROVE  RepliesReachAuthor'
<1>1. \A b \in Boards : /\ DOMAIN base[b] = 1 .. Len(base[b])
                        /\ DOMAIN base'[b] = 1 .. Len(base[b])
  BY BoardSeq
<1>2. ASSUME NEW b \in Boards, NEW m \in 1 .. Len(base[b])
      PROVE  base'[b][m].parent # 0 =>
               /\ base'[b][m].parent < m
               /\ base'[b][m].to \in {0, base'[b][base'[b][m].parent].author}
  BY <1>1, <1>2, RepliesKept DEF RepliesReachAuthor
<1> QED BY <1>1, <1>2 DEF RepliesReachAuthor

-----------------------------------------------------------------------------
(* The commands that show messages. *)

Prompts == {"boards", "reading"}

Bounded == NoFault \/ \E k \in FaultKinds : Fault(k)

\* What they have in common.
Reads ==
  /\ at \in Prompts /\ at' \in Prompts /\ carrier' \in BOOLEAN
  /\ UNCHANGED <<disk, caller, calls, board, writing>>
  /\ UNCHANGED <<current, seen>> \/ \E m : Shows(m)
  /\ UNCHANGED s_ptr \/ AdvanceTo(s_cur_msg')
  /\ Bounded

LEMMA ReadsSteps ==
  ASSUME TypeOK,
         \/ First \/ NextNew \/ Enter \/ ReadNextNew \/ ReadAgain
         \/ \E m \in Numbers : ReadNumber(m) \/ ReadJump(m)
  PROVE  Reads
<1> USE DEF Reads, Prompts, Bounded, At
<1>d. \A m : Display(m) => /\ UNCHANGED <<current, seen>> \/ \E k : Shows(k)
                           /\ Bounded
  BY DEF Display, Shows, ShowsNot, FaultKinds
<1>1. CASE First
  <2>1. at = "boards" /\ carrier' \in BOOLEAN /\ UNCHANGED <<caller, calls>>
    BY <1>1 DEF First, EnterKey
  <2> QED BY <1>1, <1>d, <2>1 DEF First, ReadFirst, NoFault
<1>2. CASE NextNew
  BY <1>2, <1>d DEF NextNew, ReadFirst, NoFault, line, TypeOK
<1>3. CASE Enter
  <2>1. at = "reading" /\ carrier' \in BOOLEAN /\ UNCHANGED <<caller, calls>>
        /\ UNCHANGED <<disk, board, writing>>
    BY <1>3 DEF Enter, EnterKey
  <2>2. \/ /\ at' = "boards" /\ UNCHANGED <<current, s_ptr, seen>>
           /\ NoFault \/ Fault("msg")
        \/ /\ Display(s_cur_msg + 1) /\ UNCHANGED at
           /\ UNCHANGED s_ptr \/ AdvanceTo(s_cur_msg')
    BY <1>3 DEF Enter
  <2> QED BY <2>1, <2>2, <1>d DEF FaultKinds
<1>4. CASE ReadNextNew
  BY <1>4, <1>d DEF ReadNextNew, line, TypeOK
<1>5. CASE ReadAgain
  BY <1>5, <1>d DEF ReadAgain, line, TypeOK
<1>6. ASSUME NEW m \in Numbers, ReadNumber(m) PROVE Reads
  BY <1>6, <1>d DEF ReadNumber, DisplayJump, line, TypeOK
<1>7. ASSUME NEW m \in Numbers, ReadJump(m) PROVE Reads
  BY <1>7, <1>d DEF ReadJump, DisplayJump, line, TypeOK
<1> QED BY <1>1, <1>2, <1>3, <1>4, <1>5, <1>6, <1>7

\* What Shows makes current.
LEMMA ShownIsCurrent ==
  ASSUME TypeOK, at # "menu", NEW m, Shows(m), UNCHANGED <<base, s_board>>
  PROVE  /\ s_board \in Boards /\ m \in 1 .. Len(base[s_board])
         /\ s_cur_msg' \in 1 .. MaxPerBoard /\ s_author' \in Users
         /\ shown' \in [Users -> [Boards -> SUBSET (1 .. MaxPerBoard)]] /\ found' = found
         /\ shown'[caller][s_board] = shown[caller][s_board] \cup {m}
         /\ \A u \in Users, b \in Boards : shown[u][b] \subseteq shown'[u][b]
         /\ CurrentInv'
<1>1. base \in Bases /\ s_board \in Boards \cup {0} /\ caller \in Users
  BY DEF TypeOK, Bases
<1>2. s_board \in Boards /\ m \in DOMAIN base[s_board] /\ s_cur_msg' = m
      /\ s_author' = base[s_board][m].author
  BY <1>1 DEF Shows, Live, Index
<1>3. m \in 1 .. Len(base[s_board]) /\ base[s_board][m] \in Message
      /\ Len(base[s_board]) \in 0 .. MaxPerBoard
  BY <1>1, <1>2, BoardSeq
<1>4. m \in 1 .. MaxPerBoard /\ base[s_board][m].author \in Users
  BY <1>3, ReaderAssumption DEF Message
<1>5. shown' = [shown EXCEPT ![caller][s_board] = @ \cup {m}] /\ found' = found
  BY DEF Shows
<1>6. /\ shown' \in [Users -> [Boards -> SUBSET (1 .. MaxPerBoard)]]
      /\ shown'[caller][s_board] = shown[caller][s_board] \cup {m}
      /\ \A u \in Users, b \in Boards : shown[u][b] \subseteq shown'[u][b]
  BY <1>1, <1>2, <1>4, <1>5 DEF TypeOK
<1>7. CurrentInv'
  BY <1>2, <1>3, ReaderAssumption DEF CurrentInv, Boards
<1> QED BY <1>2, <1>3, <1>4, <1>5, <1>6, <1>7

LEMMA Advanced ==
  ASSUME TypeOK, NEW m \in 0 .. MaxPerBoard, AdvanceTo(m)
  PROVE  s_ptr' \in Pointers
BY DEF TypeOK, AdvanceTo, Pointers

LEMMA FailsBounded ==
  ASSUME TypeOK, Bounded
  PROVE  fails' \in 0 .. MaxFaults
<1>1. fails \in 0 .. MaxFaults /\ MaxFaults \in Nat
  BY ReaderAssumption DEF TypeOK
<1>2. fails' = fails \/ (fails < MaxFaults /\ fails' = fails + 1)
  BY DEF Bounded, NoFault, Fault
<1> QED BY <1>1, <1>2

-----------------------------------------------------------------------------
(* Inv is inductive: one lemma for each group of actions.                  *)

\* No message is added, and the current one is at most forgotten.
Quiet ==
  /\ base' \in Bases /\ Kept(base, base')
  /\ \A b \in Boards : Len(base'[b]) = Len(base[b])
  /\ \/ s_cur_msg' = 0
     \/ UNCHANGED <<s_board, s_cur_msg, s_author>>

LEMMA QuietSteps ==
  ASSUME Inv, Quiet
  PROVE  CurrentInv' /\ RepliesReachAuthor'
<1>1. base \in Bases /\ s_board \in Boards \cup {0}
  BY DEF Inv, TypeOK, Bases
<1>2. RepliesReachAuthor'
  BY <1>1, NoneAdded DEF Inv, Quiet
<1>3. CurrentInv'
  BY <1>1, CurrentKept DEF Inv, Quiet, CurrentInv
<1> QED BY <1>2, <1>3

\* A step that leaves the base alone.
LEMMA BaseAlone ==
  ASSUME Inv, UNCHANGED base
  PROVE  /\ base \in Bases /\ base' \in Bases /\ Kept(base, base')
         /\ \A b \in Boards : Len(base'[b]) = Len(base[b])
BY KeptSame DEF Inv, TypeOK, Bases

LEMMA ReadsInv ==
  ASSUME Inv, Reads
  PROVE  Inv'
<1>1. TypeOK /\ at # "menu" /\ ~Editing /\ UNCHANGED <<base, s_board>> /\ ~Editing'
  BY DEF Inv, Reads, Prompts, Editing, disk, board
<1>2. /\ s_cur_msg' \in 0 .. MaxPerBoard /\ s_author' \in Users \cup {0}
      /\ {shown', found'} \subseteq [Users -> [Boards -> SUBSET (1 .. MaxPerBoard)]]
      /\ CurrentInv'
  <2>1. CASE UNCHANGED <<current, seen>>
    BY <1>1, <2>1 DEF Inv, TypeOK, CurrentInv, current, seen
  <2>2. ASSUME NEW m, Shows(m) PROVE <1>2!:
    <3>1. /\ s_cur_msg' \in 1 .. MaxPerBoard /\ s_author' \in Users /\ CurrentInv'
          /\ shown' \in [Users -> [Boards -> SUBSET (1 .. MaxPerBoard)]]
          /\ found' = found
      BY <1>1, <2>2, ShownIsCurrent
    <3>2. found \in [Users -> [Boards -> SUBSET (1 .. MaxPerBoard)]]
      BY <1>1 DEF TypeOK
    <3> QED BY <3>1, <3>2, ReaderAssumption
  <2> QED BY <2>1, <2>2 DEF Reads
<1>3. s_ptr' \in Pointers
  BY <1>1, <1>2, Advanced DEF Reads, TypeOK
<1>4. fails' \in 0 .. MaxFaults
  BY <1>1, FailsBounded DEF Reads
<1>5. TypeOK'
  BY <1>1, <1>2, <1>3, <1>4
  DEF TypeOK, Reads, Prompts, disk, board, writing, text, TextOK, seen
<1>6. DraftInv' /\ ReplyInv'
  BY <1>1 DEF DraftInv, DraftIsOwn, ReplyInv, Editing
<1>7. RepliesReachAuthor'
  BY <1>1 DEF Inv, RepliesReachAuthor
<1> QED BY <1>2, <1>5, <1>6, <1>7 DEF Inv

\* Choosing a board.
LEMMA LoadedType ==
  ASSUME TypeOK, NEW b \in Boards, LoadBoard(b)
  PROVE  s_board' \in Boards /\ s_high' \in 0 .. MaxPerBoard /\ s_cur_msg' = 0
         /\ s_author' \in Users \cup {0}
BY DEF TypeOK, LoadBoard, Pointers

LEMMA FirstBoard == 1 \in Boards /\ 0 \notin Boards
BY ReaderAssumption DEF Boards

LEMMA NoMarksType == NoMarks \in Pointers
<1>1. 0 \in 0 .. MaxPerBoard
  BY ReaderAssumption
<1> QED BY <1>1 DEF NoMarks, Pointers

\* What the commands that choose a board have in common.
Chooses ==
  /\ (\E b \in Boards : LoadBoard(b)) \/ UNCHANGED <<board, current>>
  /\ UNCHANGED <<disk, writing, shown>> /\ at \in {"menu", "boards"} /\ at' = "boards"
  /\ found' \in [Users -> [Boards -> SUBSET (1 .. MaxPerBoard)]]
  /\ at = "boards" => UNCHANGED <<caller, s_ptr>>
  /\ caller' \in Users /\ carrier' \in BOOLEAN
  /\ calls' \in 0 .. MaxCalls /\ s_ptr' \in Pointers
  /\ Bounded

LEMMA BeginChooses ==
  ASSUME TypeOK, NEW u \in Users, Begin(u)
  PROVE  Chooses
<1>1. /\ at = "menu" /\ at' = "boards" /\ caller' = u /\ carrier' = TRUE
      /\ calls < MaxCalls /\ calls' = calls + 1 /\ UNCHANGED <<disk, writing, shown>>
  BY DEF Begin
<1>2. /\ LoadBoard(1) \/ UNCHANGED <<board, current>>
      /\ s_ptr' = marks[u] \/ s_ptr' = NoMarks
      /\ NoFault \/ Fault("ptr") \/ Fault("board")
  BY DEF Begin
<1>3. s_ptr' \in Pointers
  BY <1>2, NoMarksType DEF TypeOK
<1>4. calls' \in 0 .. MaxCalls
  BY SMTT(20), <1>1, ReaderAssumption DEF TypeOK
<1>5. Bounded
  BY <1>2 DEF Bounded, FaultKinds
<1>6. (\E b \in Boards : LoadBoard(b)) \/ UNCHANGED <<board, current>>
  BY <1>2, FirstBoard
<1>7. found' \in [Users -> [Boards -> SUBSET (1 .. MaxPerBoard)]]
  <2>1. s_board \in Boards \cup {0} /\ s_cur_msg \in 0 .. MaxPerBoard
    BY DEF TypeOK
  <2>2. \/ found' = found
        \/ /\ s_cur_msg \in 1 .. MaxPerBoard
           /\ found' = [found EXCEPT ![u][s_board] = @ \cup {s_cur_msg}]
    BY SMTT(20), <1>2, <2>1, ReaderAssumption DEF Begin, LoadBoard, current
  <2>3. CASE found' = found
    BY <2>3 DEF TypeOK
  <2>4. CASE /\ s_cur_msg \in 1 .. MaxPerBoard
             /\ found' = [found EXCEPT ![u][s_board] = @ \cup {s_cur_msg}]
    <3>1. found[u] \in [Boards -> SUBSET (1 .. MaxPerBoard)]
      BY DEF TypeOK
    <3>2. [found[u] EXCEPT ![s_board] = @ \cup {s_cur_msg}]
            \in [Boards -> SUBSET (1 .. MaxPerBoard)]
      BY <2>4, <3>1
    <3> QED BY <2>4, <3>2 DEF TypeOK
  <2> QED BY <2>2, <2>3, <2>4
<1> QED BY <1>1, <1>3, <1>4, <1>5, <1>6, <1>7 DEF Chooses

\* A board the caller may read is a board.
LEMMA ShiftChooses ==
  ASSUME TypeOK, NEW nth, Shift(nth)
  PROVE  Chooses
<1>1. /\ at = "boards" /\ at' = "boards"
      /\ UNCHANGED <<disk, caller, carrier, calls, s_ptr, writing, seen>>
  BY DEF Shift, At, line
<1>2. /\ \/ \E k \in Boards : <<caller, nth[k]>> \in Readable /\ LoadBoard(nth[k])
         \/ UNCHANGED <<board, current>>
      /\ NoFault \/ Fault("board")
  BY DEF Shift
<1>3. \A k : <<caller, nth[k]>> \in Readable => nth[k] \in Boards
  BY ReaderAssumption
<1>4. (\E b \in Boards : LoadBoard(b)) \/ UNCHANGED <<board, current>>
  BY <1>2, <1>3
<1>5. Bounded
  BY <1>2 DEF Bounded, FaultKinds
<1> QED BY <1>1, <1>4, <1>5 DEF Chooses, TypeOK, seen

LEMMA SelectChooses ==
  ASSUME TypeOK, NEW b \in Boards, Select(b)
  PROVE  Chooses
<1>1. /\ at = "boards" /\ at' = "boards"
      /\ UNCHANGED <<disk, caller, carrier, calls, s_ptr, writing, seen>>
      /\ LoadBoard(b) \/ UNCHANGED <<board, current>>
  BY DEF Select, At, line
<1>2. Bounded
  BY DEF Select, Bounded, FaultKinds
<1> QED BY <1>1, <1>2 DEF Chooses, TypeOK, seen

LEMMA ChoosesInv ==
  ASSUME Inv, Chooses
  PROVE  Inv'
<1>1. TypeOK /\ UNCHANGED base /\ ~Editing'
  BY DEF Inv, Chooses, disk, Editing
<1>2. /\ s_board' \in Boards \cup {0} /\ s_high' \in 0 .. MaxPerBoard
      /\ s_cur_msg' \in 0 .. MaxPerBoard /\ s_author' \in Users \cup {0}
      /\ s_cur_msg' = 0 \/ UNCHANGED <<s_board, s_cur_msg, s_author>>
  <2>1. ASSUME NEW b \in Boards, LoadBoard(b) PROVE <1>2!:
    BY <1>1, <2>1, LoadedType, ReaderAssumption
  <2>2. CASE UNCHANGED <<board, current>>
    BY <1>1, <2>2 DEF TypeOK, board, current
  <2> QED BY <2>1, <2>2 DEF Chooses
<1>3. CurrentInv' /\ RepliesReachAuthor'
  BY <1>1, <1>2, BaseAlone, QuietSteps DEF Quiet
<1>4. fails' \in 0 .. MaxFaults
  BY <1>1, FailsBounded DEF Chooses
<1>5. TypeOK'
  BY <1>1, <1>2, <1>4 DEF TypeOK, Chooses, disk, writing, text, TextOK, seen
<1> QED BY <1>1, <1>3, <1>5 DEF Inv, DraftInv, DraftIsOwn, ReplyInv, Editing

\* Leaving, the carrier, and a reset.
LEMMA LeaveInv ==
  ASSUME Inv, Leave
  PROVE  Inv'
<1>1. TypeOK /\ at = "boards" /\ at' = "menu" /\ caller' = 0 /\ carrier' = FALSE
      /\ UNCHANGED <<base, high, calls, board, current, s_ptr, writing, seen>>
  BY DEF Inv, Leave
<1>2. marks' \in [Users -> Pointers]
  BY <1>1 DEF Leave, TypeOK
<1>3. fails' \in 0 .. MaxFaults
  BY <1>1, FailsBounded DEF Leave, Bounded, FaultKinds
<1>4. TypeOK'
  BY <1>1, <1>2, <1>3 DEF TypeOK, board, current, writing, text, TextOK, seen
<1>5. CurrentInv' /\ RepliesReachAuthor'
  BY <1>1, BaseAlone, QuietSteps DEF Quiet, board, current
<1> QED BY <1>1, <1>4, <1>5 DEF Inv, DraftInv, DraftIsOwn, ReplyInv, Editing

LEMMA LineInv ==
  ASSUME Inv, StopReading \/ HangUp
  PROVE  Inv'
<1>1. UNCHANGED <<disk, caller, calls, board, current, s_ptr, writing, seen, fails>>
  BY DEF StopReading, HangUp, line
<1>2. /\ carrier' \in BOOLEAN /\ at # "menu" /\ at' # "menu"
      /\ at' \in {"boards", "reading", "editing", "abort"}
      /\ at' = at \/ at' = "boards"
  BY DEF Inv, TypeOK, StopReading, HangUp, line
<1>3. TypeOK'
  BY <1>1, <1>2 DEF Inv, TypeOK, disk, board, current, writing, text, TextOK, seen
<1>4. CurrentInv' /\ RepliesReachAuthor'
  BY <1>1, BaseAlone, QuietSteps DEF Quiet, disk, board, current
<1> QED BY <1>1, <1>2, <1>3, <1>4
    DEF Inv, DraftInv, DraftIsOwn, ReplyInv, Editing, writing, text, TextOK, seen, current

LEMMA NoLinesText ==
  ASSUME NoLines
  PROVE  /\ TextOK' /\ compose' = << >> /\ Len(compose') = 0
         /\ s_line_count' = 0 /\ cut' = 0 /\ uncounted' = 0
<1>1. << >> \in Seq(1 .. MaxDrafts) /\ Len(<< >>) = 0
  BY EmptySeq
<1>2. /\ compose' = << >> /\ cut' = 0 /\ s_line_count' = 0 /\ uncounted' = 0
  BY DEF NoLines, ComposeInit
<1> QED BY <1>1, <1>2, Bounds DEF TextOK

LEMMA ResetInv ==
  ASSUME Inv, Reset
  PROVE  Inv'
<1>1. /\ at' = "menu" /\ caller' = 0 /\ carrier' = FALSE
      /\ s_board' = 0 /\ s_high' = 0 /\ s_cur_msg' = 0 /\ s_author' = 0
      /\ s_ptr' = NoMarks /\ parent' = 0 /\ to' = 0 /\ NoLines
      /\ UNCHANGED <<disk, calls, seen, draft, fails>>
  BY DEF Reset
<1>2. TextOK'
  BY <1>1, NoLinesText
<1>3. TypeOK'
  BY <1>1, <1>2, NoMarksType, Bounds DEF Inv, TypeOK, disk, seen
<1>4. CurrentInv' /\ RepliesReachAuthor'
  BY <1>1, BaseAlone, QuietSteps DEF Quiet, disk
<1> QED BY <1>1, <1>3, <1>4 DEF Inv, DraftInv, DraftIsOwn, ReplyInv, Editing

\* A draft is begun with an empty buffer.
LEMMA BeginDraftInv ==
  ASSUME Inv, Post \/ Reply
  PROVE  Inv'
<1>1. /\ at \in Prompts /\ at' = "editing" /\ draft < MaxDrafts /\ draft' = draft + 1
      /\ NoLines
      /\ UNCHANGED <<disk, line, board, current, s_ptr, seen>>
  BY DEF Post, Reply, At, Prompts
<1>2. /\ TextOK' /\ compose' = << >> /\ Len(compose') = 0
      /\ s_line_count' = 0 /\ cut' = 0 /\ uncounted' = 0
  BY <1>1, NoLinesText
<1>3. /\ parent' \in 0 .. MaxPerBoard /\ to' \in Users \cup {0}
      /\ parent' # 0 => parent' = s_cur_msg /\ to' \in {0, s_author}
      /\ Bounded
  <2>1. CASE Post
    BY <2>1, Bounds DEF Post, Bounded, NoFault
  <2>2. CASE Reply
    BY <2>2, Bounds DEF Reply, Bounded, FaultKinds, Inv, TypeOK
  <2> QED BY <2>1, <2>2
<1>4. draft' \in 0 .. MaxDrafts /\ draft' # 0 /\ fails' \in 0 .. MaxFaults
  <2>1. draft \in 0 .. MaxDrafts
    BY DEF Inv, TypeOK
  <2>2. fails' \in 0 .. MaxFaults
    BY <1>3, FailsBounded DEF Inv
  <2> QED BY <1>1, <2>1, <2>2, Bounds
<1>5. TypeOK'
  BY <1>1, <1>2, <1>3, <1>4, Bounds
  DEF Inv, TypeOK, disk, line, board, current, seen, Prompts
<1>6. CurrentInv' /\ RepliesReachAuthor'
  BY <1>1, BaseAlone, QuietSteps DEF Quiet, disk, board, current
<1>7. DraftInv'
  BY <1>1, <1>2, <1>4 DEF DraftInv, DraftIsOwn
<1>8. ReplyInv'
  BY <1>1, <1>3 DEF ReplyInv, current
<1> QED BY <1>5, <1>6, <1>7, <1>8 DEF Inv

\* What the editor's commands leave alone, and what they do to the buffer.
Edits ==
  /\ Editing /\ UNCHANGED unedited /\ Bounded
  /\ at' \in {"boards", "reading", "editing", "abort"}
  /\ TextOK'
  /\ Editing' => /\ s_line_count' <= Len(compose')
                 /\ \A i \in 1 .. Len(compose') : compose'[i] = draft
                 /\ s_line_count' + uncounted' = Len(compose') + cut'

LEMMA EditsInv ==
  ASSUME Inv, Edits
  PROVE  Inv'
<1> USE DEF unedited
<1>1. at # "menu" /\ at' # "menu" /\ fails' \in 0 .. MaxFaults
  BY FailsBounded DEF Edits, Editing, Inv
<1>2. TypeOK'
  BY <1>1 DEF Edits, Inv, TypeOK, disk, line, board, current, seen
<1>3. CurrentInv' /\ RepliesReachAuthor'
  BY BaseAlone, QuietSteps DEF Edits, Quiet, disk, board, current
<1>4. DOMAIN compose' = 1 .. Len(compose')
  BY LenProperties DEF Edits, TextOK
<1>5. DraftInv' /\ ReplyInv'
  BY <1>4 DEF Edits, Inv, DraftInv, DraftIsOwn, ReplyInv, Editing, current
<1> QED BY <1>2, <1>3, <1>5 DEF Inv

\* The buffer while the editor runs.
LEMMA Buffer ==
  ASSUME Inv, Editing
  PROVE  /\ compose \in Seq(1 .. MaxDrafts) /\ Len(compose) \in 0 .. MaxChars
         /\ cut \in {0, 1} /\ (cut = 1 => Len(compose) + 1 = MaxChars)
         /\ s_line_count \in 0 .. Len(compose) /\ draft \in 1 .. MaxDrafts
         /\ uncounted \in 0 .. MaxChars
         /\ s_line_count + uncounted = Len(compose) + cut
         /\ \A i \in 1 .. Len(compose) : compose[i] = draft
         /\ {MaxLines, MaxChars} \subseteq Nat
<1>1. /\ compose \in Seq(1 .. MaxDrafts) /\ Len(compose) <= MaxChars
      /\ s_line_count \in 0 .. MaxChars /\ uncounted \in 0 .. MaxChars
      /\ cut \in {0, 1} /\ (cut = 1 => Len(compose) + 1 = MaxChars)
  BY DEF Inv, TypeOK, TextOK
<1>2. Len(compose) \in Nat /\ DOMAIN compose = 1 .. Len(compose)
  BY <1>1, LenProperties
<1>3. /\ s_line_count <= Len(compose) /\ draft # 0
      /\ \A i \in DOMAIN compose : compose[i] = draft
      /\ s_line_count + uncounted = Len(compose) + cut
  BY DEF Inv, DraftInv, DraftIsOwn, Editing
<1>4. draft \in 0 .. MaxDrafts
  BY DEF Inv, TypeOK
<1> QED BY <1>1, <1>2, <1>3, <1>4, Bounds

LEMMA TypeLineEdits == ASSUME Inv, TypeLine PROVE Edits
<1>1. Editing /\ at = "editing" /\ at' = at /\ NoFault /\ UNCHANGED <<unedited, cut, uncounted>>
      /\ compose' = Append(compose, draft) /\ s_line_count' = s_line_count + 1
      /\ Len(compose) + 1 < MaxChars
  BY DEF TypeLine, At, Editing, NoFault
<1>2. /\ compose' \in Seq(1 .. MaxDrafts) /\ Len(compose') = Len(compose) + 1
      /\ \A i \in 1 .. Len(compose) : compose'[i] = compose[i]
      /\ compose'[Len(compose) + 1] = draft
  BY <1>1, Buffer, AppendProperties
<1>3. Len(compose) \in Nat /\ s_line_count \in 0 .. Len(compose) /\ MaxChars \in Nat
      /\ \A i \in 1 .. Len(compose) : compose[i] = draft
  BY <1>1, Buffer
<1>4. \A i \in 1 .. Len(compose') : compose'[i] = draft
  BY <1>2, <1>3
<1>5. cut = 0 /\ cut' = 0 /\ cut' \in {0, 1} /\ uncounted' \in 0 .. MaxChars
  BY <1>1, Buffer
<1>6. s_line_count' + uncounted' = Len(compose') + cut'
  BY <1>1, <1>2, <1>3, <1>5, Buffer
<1>7. TextOK'
  BY <1>1, <1>2, <1>3, <1>5 DEF TextOK
<1> QED BY <1>1, <1>2, <1>3, <1>4, <1>5, <1>6, <1>7 DEF Edits, Bounded

LEMMA RuboutEdits == ASSUME Inv, Rubout PROVE Edits
<1>1. Editing /\ at = "editing" /\ at' = at /\ NoFault /\ UNCHANGED <<unedited, uncounted>>
      /\ compose' = (IF cut = 1 THEN compose ELSE SubSeq(compose, 1, Len(compose) - 1))
      /\ cut' = 0 /\ s_line_count > 0 /\ s_line_count' = s_line_count - 1
  BY DEF Rubout, PopLine, At, Editing, NoFault
<1>2. /\ Len(compose) \in 0 .. MaxChars /\ s_line_count \in 0 .. Len(compose)
      /\ MaxChars \in Nat /\ draft \in 1 .. MaxDrafts /\ compose \in Seq(1 .. MaxDrafts)
      /\ uncounted \in 0 .. MaxChars /\ s_line_count + uncounted = Len(compose) + cut
      /\ cut \in {0, 1}
      /\ \A i \in 1 .. Len(compose) : compose[i] = draft
  BY <1>1, Buffer
<1>3. /\ compose' \in Seq(1 .. MaxDrafts)
      /\ Len(compose') = (IF cut = 1 THEN Len(compose) ELSE Len(compose) - 1)
      /\ \A i \in 1 .. Len(compose') : compose'[i] = draft
  <2>1. CASE cut = 1
    BY <1>1, <1>2, <2>1
  <2>2. CASE cut = 0
    <3>1. compose' = SubSeq(compose, 1, Len(compose) - 1)
      BY <1>1, <2>2
    <3>2. Len(compose) - 1 \in Nat /\ \A i \in 1 .. Len(compose) - 1 : compose[i] = draft
      BY <1>1, <1>2
    <3>3. /\ compose' \in Seq(1 .. MaxDrafts)
          /\ Len(compose') = IF 1 <= Len(compose) - 1 THEN Len(compose) - 1 - 1 + 1 ELSE 0
          /\ \A i \in 1 .. Len(compose) - 1 - 1 + 1 : compose'[i] = compose[1 + i - 1]
      BY <1>2, <3>1, <3>2, SubSeqProperties
    <3>n. Len(compose) \in Nat /\ Len(compose) - 1 \in Nat
      BY <1>2, <3>2
    <3>4. Len(compose') = Len(compose) - 1
      <4> DEFINE l == Len(compose)
      <4>1. l \in Nat /\ l - 1 \in Nat
            /\ Len(compose') = IF 1 <= l - 1 THEN l - 1 - 1 + 1 ELSE 0
        BY <3>3, <3>n
      <4> HIDE DEF l
      <4>2. Len(compose') = l - 1
        BY <4>1
      <4> QED BY <4>2 DEF l
    <3>5. \A i \in 1 .. Len(compose') : compose'[i] = draft
      BY <1>2, <3>2, <3>3, <3>4
    <3> QED BY <2>2, <3>3, <3>4, <3>5
  <2> QED BY <1>2, <2>1, <2>2
<1>4. s_line_count' \in 0 .. Len(compose') /\ Len(compose') \in 0 .. MaxChars
  BY <1>1, <1>2, <1>3
<1>5. uncounted' \in 0 .. MaxChars /\ (s_line_count' + uncounted' = Len(compose') + cut')
  BY <1>1, <1>2, <1>3
<1>6. TextOK'
  BY <1>1, <1>2, <1>3, <1>4, <1>5 DEF TextOK
<1> QED BY <1>1, <1>3, <1>4, <1>5, <1>6 DEF Edits, Bounded

\* Whatever is quoted, as much of it as fits is appended.
LEMMA PutLinesText ==
  ASSUME Inv, Editing, NEW n \in Nat, PutLines(n)
  PROVE  /\ compose' \in Seq(1 .. MaxDrafts) /\ Len(compose') \in 0 .. MaxChars
         /\ cut' \in {0, 1} /\ (cut' = 1 => Len(compose') + 1 = MaxChars)
         /\ \A i \in 1 .. Len(compose') : compose'[i] = draft
<1> DEFINE room == IF cut = 1 THEN 0 ELSE MaxChars - Len(compose)
<1>1. /\ compose \in Seq(1 .. MaxDrafts) /\ Len(compose) \in 0 .. MaxChars
      /\ cut \in {0, 1} /\ (cut = 1 => Len(compose) + 1 = MaxChars)
      /\ draft \in 1 .. MaxDrafts /\ MaxChars \in Nat
      /\ \A i \in 1 .. Len(compose) : compose[i] = draft
  BY Buffer
<1>2. PICK k \in 0 .. room :
        /\ cut' = cut \/ (k + 1 = room /\ cut' = 1)
        /\ compose' = compose \o [i \in 1 .. k |-> draft]
  BY DEF PutLines
<1> DEFINE more == [i \in 1 .. k |-> draft]
<1>3. room \in Nat /\ k \in Nat /\ k <= room /\ room <= MaxChars - Len(compose)
      /\ (cut = 1 => k = 0)
  BY <1>1
<1>4. more \in Seq(1 .. MaxDrafts) /\ Len(more) = k /\ \A i \in 1 .. k : more[i] = draft
  <2>1. more \in [1 .. k -> 1 .. MaxDrafts]
    BY <1>1
  <2>2. more \in Seq(1 .. MaxDrafts)
    BY <1>3, <2>1, SeqDef
  <2>3. DOMAIN more = 1 .. k /\ DOMAIN more = 1 .. Len(more) /\ Len(more) \in Nat
    BY <2>2, LenProperties
  <2> QED BY <1>3, <2>2, <2>3
<1>r. room # 0 => cut = 0 /\ room = MaxChars - Len(compose)
  BY <1>1
<1> HIDE DEF more, room
<1>5. /\ compose' \in Seq(1 .. MaxDrafts) /\ Len(compose') = Len(compose) + k
      /\ \A i \in 1 .. Len(compose) + k :
           compose'[i] = IF i <= Len(compose) THEN compose[i] ELSE more[i - Len(compose)]
  <2>1. compose' = compose \o more
    BY <1>2 DEF more
  <2> QED BY <1>1, <1>4, <2>1, ConcatProperties
<1>6. Len(compose') \in 0 .. MaxChars
  BY <1>1, <1>3, <1>5
<1>7. \A i \in 1 .. Len(compose') : compose'[i] = draft
  BY <1>1, <1>3, <1>4, <1>5
<1>8. cut' \in {0, 1} /\ (cut' = 1 => Len(compose') + 1 = MaxChars)
  <2>1. CASE cut' = cut
    BY <1>1, <1>3, <1>5, <2>1
  <2>2. CASE k + 1 = room /\ cut' = 1
    BY <1>1, <1>3, <1>5, <1>r, <2>2
  <2> QED BY <1>2, <2>1, <2>2
<1> QED BY <1>5, <1>6, <1>7, <1>8

LEMMA QuoteEdits == ASSUME Inv, Quote PROVE Edits
<1>1. /\ Editing /\ at = "editing" /\ at' = at /\ Bounded /\ UNCHANGED unedited
      /\ s_line_count' = Counted(Len(compose'))
      /\ uncounted' = Len(compose') + cut' - s_line_count'
      /\ s_cur_msg \in DOMAIN Index(s_board)
  BY DEF Quote, At, Editing, Bounded, FaultKinds
<1>2. PICK n \in Nat : PutLines(n)
  <2>1. base \in Bases /\ s_board \in Boards \cup {0}
    BY DEF Inv, TypeOK, Bases
  <2>2. s_board \in Boards /\ Index(s_board) = base[s_board]
    BY SMTT(20), <1>1, <2>1 DEF Index
  <2>3. base[s_board][s_cur_msg] \in Message
    BY <1>1, <2>1, <2>2, BoardSeq
  <2>4. Index(s_board)[s_cur_msg].lines \in Nat
    BY <2>2, <2>3, Bounds DEF Message
  <2>5. \E n \in Nat : PutLines(n)
    BY <2>4 DEF Quote
  <2> QED BY <2>5
<1>3. /\ compose' \in Seq(1 .. MaxDrafts) /\ Len(compose') \in 0 .. MaxChars
      /\ cut' \in {0, 1} /\ (cut' = 1 => Len(compose') + 1 = MaxChars)
      /\ \A i \in 1 .. Len(compose') : compose'[i] = draft
  BY <1>1, <1>2, PutLinesText
<1>4. /\ s_line_count' \in 0 .. Len(compose')
      /\ s_line_count' = Len(compose') \/ Len(compose') > MaxCount
  BY <1>1, <1>3, ReaderAssumption DEF Counted
<1>5. uncounted' \in 0 .. MaxChars /\ (s_line_count' + uncounted' = Len(compose') + cut')
  BY <1>1, <1>3, <1>4, Bounds
<1>6. TextOK'
  BY <1>3, <1>4, <1>5, Bounds DEF TextOK
<1> QED BY <1>1, <1>3, <1>4, <1>5, <1>6 DEF Edits

LEMMA AbortEdits ==
  ASSUME Inv, AskAbort \/ Abort \/ GoOn \/ GiveUp
  PROVE  Edits
<1>1. Editing
  BY DEF Editing, AskAbort, Abort, GoOn, GiveUp, At
<1>2. CASE AskAbort \/ GoOn \/ GiveUp
  <2>1. /\ UNCHANGED <<unedited, text, fails>>
        /\ at' \in {"boards", "reading", "editing", "abort"}
    BY <1>2 DEF AskAbort, GoOn, GiveUp, Back
  <2>2. TextOK'
    BY <2>1 DEF Inv, TypeOK, TextOK, text
  <2> QED BY <1>1, <2>1, <2>2, Buffer DEF Edits, Bounded, NoFault, text
<1>3. CASE Abort
  <2>1. /\ UNCHANGED <<unedited, fails>> /\ NoLines /\ at' \in {"boards", "reading"}
    BY <1>3 DEF Abort, Back
  <2> QED BY <1>1, <2>1, NoLinesText DEF Edits, Bounded, NoFault, Editing
<1> QED BY <1>2, <1>3

\* K.
LEMMA KillInv ==
  ASSUME Inv, Kill
  PROVE  Inv'
<1>1. /\ base \in Bases /\ s_board \in Boards /\ at = "reading"
      /\ UNCHANGED <<high, marks, line, s_board, s_high, s_author, s_ptr, writing, seen>>
      /\ at' \in {"boards", "reading"}
  BY DEF Inv, TypeOK, Bases, Kill, At, board
<1>2. /\ base' \in Bases /\ Kept(base, base')
      /\ \A b \in Boards : Len(base'[b]) = Len(base[b])
  <2>1. base' = base \/ base' = [base EXCEPT ![s_board][s_cur_msg].del = TRUE]
    BY DEF Kill
  <2>2. CASE base' = base
    BY <1>1, <2>2, KeptSame
  <2>3. CASE base' = [base EXCEPT ![s_board][s_cur_msg].del = TRUE]
    <3>1. /\ [base EXCEPT ![s_board][s_cur_msg].del = TRUE] \in Bases
          /\ \A c \in Boards :
               Len([base EXCEPT ![s_board][s_cur_msg].del = TRUE][c]) = Len(base[c])
          /\ Kept(base, [base EXCEPT ![s_board][s_cur_msg].del = TRUE])
      BY <1>1, Marked
    <3> QED BY <2>3, <3>1
  <2> QED BY <2>1, <2>2, <2>3
<1>3. s_cur_msg' = 0 \/ s_cur_msg' = s_cur_msg
  BY DEF Kill
<1>4. CurrentInv' /\ RepliesReachAuthor'
  BY <1>1, <1>2, <1>3, QuietSteps DEF Quiet
<1>5. fails' \in 0 .. MaxFaults
  BY FailsBounded DEF Inv, Kill, Bounded, FaultKinds
<1>6. TypeOK'
  BY <1>1, <1>2, <1>3, <1>5, Bounds DEF Inv, TypeOK, Bases, line, writing, text, TextOK, seen
<1> QED BY <1>1, <1>4, <1>6 DEF Inv, DraftInv, DraftIsOwn, ReplyInv, Editing

\* /S: the new message is a reply to the current one, or to none.
LEMMA SaveInv ==
  ASSUME Inv, Save
  PROVE  Inv'
<1> DEFINE b   == s_board
           msg == [author |-> caller, to |-> to, parent |-> parent,
                   lines |-> Len(compose) + cut, del |-> FALSE]
           done == [Pruned(b) EXCEPT ![b] = Append(@, msg)]
           fits == Len(Index(b)) < MaxPerBoard
<1>1. /\ base \in Bases /\ b \in Boards \cup {0} /\ at = "editing" /\ Editing
      /\ at' \in {"boards", "reading"} /\ caller \in Users
      /\ UNCHANGED <<marks, line, s_board, current, s_ptr, seen, parent, to,
                     s_line_count, uncounted, draft>>
  BY DEF Inv, TypeOK, Bases, Save, At, Back, Editing
<1>2. /\ compose \in Seq(1 .. MaxDrafts) /\ Len(compose) \in 0 .. MaxChars
      /\ cut \in {0, 1} /\ (cut = 1 => Len(compose) + 1 = MaxChars)
      /\ UNCHANGED <<compose, cut>> \/ ComposeInit
  BY <1>1, Buffer DEF Save
<1>3. TextOK'
  <2>1. << >> \in Seq(1 .. MaxDrafts) /\ Len(<< >>) = 0
    BY EmptySeq
  <2>2. TextOK /\ UNCHANGED <<s_line_count, uncounted>>
    BY <1>1 DEF Inv, TypeOK
  <2>3. CASE UNCHANGED <<compose, cut>>
    BY <2>2, <2>3 DEF TextOK
  <2>4. CASE ComposeInit
    BY <2>1, <2>2, <2>4, Bounds DEF TextOK, ComposeInit
  <2> QED BY <1>2, <2>3, <2>4
<1>4. Bounded
  BY DEF Save, Bounded, FaultKinds
<1>5. fails' \in 0 .. MaxFaults
  BY <1>4, FailsBounded DEF Inv
<1>6. CASE b = 0
  <2>1. UNCHANGED <<base, high, s_high>>
    BY <1>6 DEF Save
  <2>2. TypeOK'
    BY <1>1, <1>3, <1>5, <2>1 DEF Inv, TypeOK, line, current, seen
  <2>3. CurrentInv' /\ RepliesReachAuthor'
    BY <1>1, <2>1, BaseAlone, QuietSteps DEF Quiet, current
  <2> QED BY <1>1, <2>2, <2>3 DEF Inv, DraftInv, DraftIsOwn, ReplyInv, Editing
<1>7. CASE b # 0
  <2>1. b \in Boards /\ Index(b) = base[b]
    BY <1>1, <1>7 DEF Index
  <2>2. msg \in Message
    <3>1. Len(compose) + cut \in 0 .. MaxChars
      BY <1>2, Bounds
    <3>2. caller \in Users /\ to \in Users \cup {0} /\ parent \in 0 .. MaxPerBoard
      BY <1>1 DEF Inv, TypeOK
    <3> QED BY <3>1, <3>2 DEF Message
  <2>3. /\ Pruned(b) \in Bases /\ Kept(base, Pruned(b))
        /\ \A c \in Boards : Len(Pruned(b)[c]) = Len(base[c])
    BY <1>1, <2>1, PrunedKept
  <2> HIDE DEF msg
  <2>4. fits => /\ done \in Bases /\ Kept(Pruned(b), done)
                /\ Len(done[b]) = Len(Pruned(b)[b]) + 1
                /\ done[b][Len(Pruned(b)[b]) + 1] = msg
                /\ \A c \in Boards \ {b} : done[c] = Pruned(b)[c]
    <3>1. fits => Len(Pruned(b)[b]) < MaxPerBoard
      BY <2>1, <2>3
    <3> QED BY <2>1, <2>2, <2>3, <3>1, Appended
  <2>5. fits => Kept(base, done)
    BY <1>1, <2>3, <2>4, KeptTwice
  <2>6. base' \in {base, Pruned(b)} \/ (fits /\ base' = done)
    BY <1>7 DEF Save, msg
  <2>7. /\ UNCHANGED <<high, s_high>>
        \/ /\ base' = done /\ fits /\ high' = [high EXCEPT ![b] = Len(base'[b])]
           /\ s_high' = high'[b] \/ UNCHANGED s_high
    BY <1>7 DEF Save, msg
  <2> HIDE DEF done, fits, b
  <2>8. base' \in Bases /\ Kept(base, base')
    BY <1>1, <2>3, <2>4, <2>5, <2>6, KeptSame
  <2>9. CurrentInv'
    BY <1>1, <2>8, CurrentKept DEF Inv, current, b
  <2>10. Len(base'[b]) \in 0 .. MaxPerBoard
    BY <2>1, <2>8, BoardSeq
  <2>11. high' \in Pointers /\ s_high' \in 0 .. MaxPerBoard
    BY <2>1, <2>7, <2>10 DEF Inv, TypeOK, Pointers
  <2>12. TypeOK'
    BY <1>1, <1>3, <1>5, <2>8, <2>11 DEF Inv, TypeOK, Bases, line, current, seen
  <2>13. CASE base' \in {base, Pruned(b)}
    <3>1. \A c \in Boards : Len(base'[c]) = Len(base[c])
      BY <2>3, <2>13
    <3> QED BY <1>1, <2>8, <2>9, <2>12, <3>1, NoneAdded
            DEF Inv, DraftInv, DraftIsOwn, ReplyInv, Editing
  <2>14. CASE fits /\ base' = done
    <3>1. ASSUME NEW c \in Boards, NEW m \in 1 .. Len(base[c])
          PROVE  base'[c][m].parent # 0 =>
                   /\ base'[c][m].parent < m
                   /\ base'[c][m].to \in {0, base'[c][base'[c][m].parent].author}
      <4>1. DOMAIN base[c] = 1 .. Len(base[c])
        BY <1>1, BoardSeq
      <4>2. base[c][m].parent # 0 =>
              base[c][m].parent < m /\ base[c][m].to \in {0, base[c][base[c][m].parent].author}
        BY <4>1 DEF Inv, RepliesReachAuthor
      <4> QED BY <1>1, <2>8, <4>2, RepliesKept
    <3>2. /\ Len(base'[b]) = Len(base[b]) + 1 /\ base'[b][Len(base[b]) + 1] = msg
          /\ \A c \in Boards \ {b} : Len(base'[c]) = Len(base[c])
      BY <2>1, <2>3, <2>4, <2>14
    <3>3. parent # 0 => /\ parent \in 1 .. Len(base[b])
                        /\ to \in {0, base'[b][parent].author}
      <4>1. parent # 0 => /\ parent = s_cur_msg /\ to \in {0, s_author}
                          /\ s_cur_msg \in 1 .. Len(base[b])
                          /\ s_author = base[b][s_cur_msg].author
        BY <1>1 DEF Inv, ReplyInv, CurrentInv, b
      <4>2. \A m \in 1 .. Len(base[b]) : base'[b][m].author = base[b][m].author
        BY <2>1, <2>8 DEF Kept, SameSeq
      <4> QED BY <4>1, <4>2
    <3>4. ASSUME NEW c \in Boards, NEW m \in DOMAIN base'[c]
          PROVE  base'[c][m].parent # 0 =>
                   /\ base'[c][m].parent < m
                   /\ base'[c][m].to \in {0, base'[c][base'[c][m].parent].author}
      <4>1. m \in 1 .. Len(base'[c]) /\ Len(base[c]) \in Nat
        BY <1>1, <2>8, BoardSeq
      <4>2. CASE m \in 1 .. Len(base[c])
        BY <3>1, <4>2
      <4>3. CASE m \notin 1 .. Len(base[c])
        <5>1. c = b /\ m = Len(base[b]) + 1
          BY <3>2, <4>1, <4>3
        <5>2. base'[c][m] = msg /\ msg.parent = parent /\ msg.to = to
          BY <3>2, <5>1 DEF msg
        <5>3. parent # 0 => parent < Len(base[b]) + 1
          BY <3>3, <4>1, <5>1
        <5> QED BY <3>3, <5>1, <5>2, <5>3
      <4> QED BY <4>2, <4>3
    <3>5. RepliesReachAuthor'
      BY <3>4 DEF RepliesReachAuthor
    <3> QED BY <1>1, <2>9, <2>12, <3>5
            DEF Inv, DraftInv, DraftIsOwn, ReplyInv, Editing
  <2> QED BY <2>6, <2>13, <2>14
<1> QED BY <1>6, <1>7

LEMMA InitInv == Init => Inv
<1> SUFFICES ASSUME Init PROVE Inv
  OBVIOUS
<1>1. << >> \in Seq(1 .. MaxDrafts) /\ << >> \in Seq(Message) /\ Len(<< >>) = 0
  BY EmptySeq
<1>2. 0 <= MaxPerBoard /\ 0 <= MaxChars
  BY Bounds
<1>3. base \in Bases
  BY <1>1, <1>2 DEF Init, Bases
<1>4. marks \in [Users -> Pointers] /\ high \in Pointers /\ s_ptr \in Pointers
  BY NoMarksType DEF Init
<1>5. TextOK
  BY <1>1, Bounds DEF Init, TextOK
<1>6. {shown, found} \subseteq [Users -> [Boards -> SUBSET (1 .. MaxPerBoard)]]
  BY DEF Init
<1>7. TypeOK
  <2>1. /\ s_high \in 0 .. MaxPerBoard /\ s_cur_msg \in 0 .. MaxPerBoard
        /\ parent \in 0 .. MaxPerBoard
        /\ draft \in 0 .. MaxDrafts /\ calls \in 0 .. MaxCalls
        /\ fails \in 0 .. MaxFaults
    BY Bounds DEF Init
  <2> QED BY <1>3, <1>4, <1>5, <1>6, <2>1 DEF Init, TypeOK, Bases
<1>8. RepliesReachAuthor
  <2>1. \A b \in Boards : DOMAIN base[b] = {}
    BY DEF Init
  <2> QED BY <2>1 DEF RepliesReachAuthor
<1> QED BY <1>7, <1>8 DEF Init, Inv, DraftInv, DraftIsOwn, CurrentInv, ReplyInv, Editing

LEMMA StutterInv ==
  ASSUME Inv, UNCHANGED vars
  PROVE  Inv'
BY DEF Inv, vars, disk, line, board, current, writing, text, seen, TypeOK, TextOK, DraftInv, DraftIsOwn,
       CurrentInv, ReplyInv, RepliesReachAuthor, Editing

LEMMA NextInv ==
  ASSUME Inv, Next
  PROVE  Inv'
<1>t. TypeOK
  BY DEF Inv
<1>1. CASE \/ First \/ NextNew \/ Enter \/ ReadNextNew \/ ReadAgain
           \/ \E m \in Numbers : ReadNumber(m) \/ ReadJump(m)
  BY <1>1, <1>t, ReadsSteps, ReadsInv
<1>2. CASE \/ \E u \in Users : Begin(u)
           \/ Shift(After) \/ Shift(Before) \/ \E b \in Boards : Select(b)
  BY <1>2, <1>t, BeginChooses, ShiftChooses, SelectChooses, ChoosesInv
<1>3. CASE Leave
  BY <1>3, LeaveInv
<1>4. CASE StopReading \/ HangUp
  BY <1>4, LineInv
<1>5. CASE Reset
  BY <1>5, ResetInv
<1>6. CASE Post \/ Reply
  BY <1>6, BeginDraftInv
<1>7. CASE TypeLine \/ Rubout \/ Quote \/ AskAbort \/ Abort \/ GoOn \/ GiveUp
  BY <1>7, TypeLineEdits, RuboutEdits, QuoteEdits, AbortEdits, EditsInv
<1>8. CASE Kill
  BY <1>8, KillInv
<1>9. CASE Save
  BY <1>9, SaveInv
<1> QED BY <1>1, <1>2, <1>3, <1>4, <1>5, <1>6, <1>7, <1>8, <1>9 DEF Next

LEMMA InvHolds == Spec => []Inv
<1>1. Inv /\ [Next]_vars => Inv'
  BY NextInv, StutterInv
<1> QED BY <1>1, InitInv, PTL DEF Spec

-----------------------------------------------------------------------------
(* Theorems.                                                               *)

\* The reader's copies stay within the boards, users and buffer there are
\* (bulletin.c, editor.c).
THEOREM TypeCorrect == Spec => []TypeOK
<1>1. Inv => TypeOK
  BY DEF Inv
<1> QED BY <1>1, InvHolds, PTL

\* bull_do_post() empties the compose buffer it begins with, so what is in it was typed
\* or quoted for this draft; and s_line_count, by which the editor rubs out lines, never
\* exceeds the lines there are, though a quote may be cut or too long to be counted.
THEOREM DraftsAreOwn == Spec => []DraftIsOwn
<1>1. Inv => DraftIsOwn
  BY DEF Inv, DraftInv
<1> QED BY <1>1, InvHolds, PTL

\* bull_do_post(s_cur_msg) addresses a reply by s_cur_info, kept since the message
\* was shown.
THEOREM RepliesReachAuthors == Spec => []RepliesReachAuthor
<1>1. Inv => RepliesReachAuthor
  BY DEF Inv
<1> QED BY <1>1, InvHolds, PTL

\* K checks s_cur_info.author_id and s_board.subop_id, both copies, and they are
\* those of the message it deletes.
THEOREM KillsAreAuthorised == Spec => KillsAuthorised
<1> DEFINE Authorised ==
      at = "reading" => \A b \in Boards : \A m \in DOMAIN base[b] :
        base'[b][m].del /\ ~base[b][m].del =>
          base[b][m].author = caller \/ <<caller, b>> \in Moderated
<1>1. Inv /\ [Next]_vars => [Authorised]_vars
  <2> SUFFICES ASSUME Inv, Next, at = "reading" PROVE Authorised
    OBVIOUS
  <2>t. TypeOK /\ base \in Bases
    BY DEF Inv, TypeOK, Bases
  <2>1. CASE Kill
    <3>1. base' = base \/ base' = [base EXCEPT ![s_board][s_cur_msg].del = TRUE]
      BY <2>1 DEF Kill
    <3>2. /\ s_board \in Boards /\ s_cur_msg \in 1 .. Len(base[s_board])
          /\ s_author = base[s_board][s_cur_msg].author
          /\ s_author = caller \/ <<caller, s_board>> \in Moderated
      BY <2>1 DEF Inv, TypeOK, CurrentInv, Kill
    <3>3. \A b \in Boards : \A m \in DOMAIN base[b] :
            b # s_board \/ m # s_cur_msg => base'[b][m] = base[b][m]
      BY <2>t, <3>1, <3>2, BoardSeq DEF Bases
    <3> QED BY <3>2, <3>3
  <2>2. UNCHANGED base \/ Kill
    BY ReadsSteps, BeginChooses, ShiftChooses, SelectChooses, <2>t
    DEF Next, Reads, Chooses, Leave, StopReading, HangUp, Reset, Post, Reply, At,
        TypeLine, Rubout, Quote, AskAbort, Abort, GoOn, GiveUp, Save, unedited, disk
  <2> QED BY <2>1, <2>2
<1> QED BY <1>1, InvHolds, PTL DEF Spec, KillsAuthorised

\* The pointers, and with them the current message.
Seen(u, b) == shown[u][b] \cup found[u][b]

MarksInv ==
  /\ MarksShown
  /\ at # "menu" /\ s_cur_msg # 0 => s_cur_msg \in Seen(caller, s_board)

LEMMA SeenShown ==
  MarksShown <=> \A b \in Boards :
    /\ at # "menu" => s_ptr[b] \in {0} \cup Seen(caller, b)
    /\ \A u \in Users : marks[u][b] \in {0} \cup Seen(u, b)
BY DEF MarksShown, Seen

LEMMA MarksReads ==
  ASSUME Inv, MarksInv, Reads
  PROVE  MarksInv'
<1>1. /\ TypeOK /\ at # "menu" /\ caller \in Users /\ UNCHANGED <<marks, caller, s_board, base>>
      /\ s_board \in Boards \cup {0} /\ s_ptr \in [Boards -> 0 .. MaxPerBoard]
  BY DEF Inv, TypeOK, Pointers, Reads, Prompts, disk, board
<1>2. /\ \A u \in Users, b \in Boards : Seen(u, b) \subseteq Seen(u, b)'
      /\ s_cur_msg' # 0 => s_cur_msg' \in Seen(caller, s_board)' /\ s_board \in Boards
  <2>1. CASE UNCHANGED <<current, seen>>
    BY <1>1, <2>1 DEF MarksInv, current, seen, Seen, Inv, CurrentInv
  <2>2. ASSUME NEW m, Shows(m) PROVE <1>2!:
    <3>1. s_cur_msg' = m
      BY <2>2 DEF Shows
    <3> QED BY <1>1, <2>2, <3>1, ShownIsCurrent DEF Seen
  <2> QED BY <2>1, <2>2 DEF Reads
<1>3. \A b \in Boards : s_ptr'[b] \in {0} \cup Seen(caller, b)'
  <2>1. \A b \in Boards : s_ptr[b] \in {0} \cup Seen(caller, b)'
    BY <1>1, <1>2, SeenShown DEF MarksInv
  <2>2. CASE UNCHANGED s_ptr
    BY <2>1, <2>2
  <2>3. CASE AdvanceTo(s_cur_msg')
    <3>1. \A b \in Boards : s_ptr'[b] = s_ptr[b] \/ (b = s_board /\ s_ptr'[b] = s_cur_msg')
      BY <1>1, <2>3 DEF AdvanceTo
    <3> QED BY <1>1, <1>2, <2>1, <3>1
  <2> QED BY <2>2, <2>3 DEF Reads
<1>4. \A u \in Users, b \in Boards : marks'[u][b] \in {0} \cup Seen(u, b)'
  BY <1>1, <1>2, SeenShown DEF MarksInv
<1> QED BY <1>1, <1>2, <1>3, <1>4 DEF MarksInv, MarksShown, Seen

\* What a caller finds current when board 1 cannot be read counts as seen.
LEMMA MarksBegin ==
  ASSUME Inv, MarksInv, NEW u \in Users, Begin(u)
  PROVE  MarksInv'
<1>1. /\ UNCHANGED <<marks, shown>> /\ caller' = u /\ s_ptr' \in {marks[u], NoMarks}
      /\ s_board \in Boards \cup {0}
      /\ found \in [Users -> [Boards -> SUBSET (1 .. MaxPerBoard)]]
  BY DEF Inv, TypeOK, Begin, disk
<1>2. \/ s_cur_msg' = 0 /\ found' = found
      \/ /\ UNCHANGED <<s_board, s_cur_msg>> /\ s_cur_msg # 0
         /\ found' = [found EXCEPT ![u][s_board] = @ \cup {s_cur_msg}]
  BY DEF Begin, LoadBoard, board, current
<1>3. s_cur_msg # 0 => s_board \in Boards
  BY <1>1 DEF Inv, CurrentInv
<1>4. /\ \A v \in Users, b \in Boards : Seen(v, b) \subseteq Seen(v, b)'
      /\ s_cur_msg' # 0 => s_cur_msg' \in Seen(u, s_board)'
  BY <1>1, <1>2, <1>3 DEF Seen
<1>5. \A v \in Users, b \in Boards : marks'[v][b] \in {0} \cup Seen(v, b)'
  BY <1>1, <1>4, SeenShown DEF MarksInv
<1>6. \A b \in Boards : s_ptr'[b] \in {0} \cup Seen(u, b)'
  BY <1>1, <1>5 DEF NoMarks
<1> QED BY <1>1, <1>4, <1>5, <1>6 DEF MarksInv, MarksShown, Seen

LEMMA MarksChooses ==
  ASSUME Inv, MarksInv,
         Shift(After) \/ Shift(Before) \/ \E b \in Boards : Select(b)
  PROVE  MarksInv'
<1>1. /\ UNCHANGED <<marks, shown, found, s_ptr, caller>> /\ at # "menu"
      /\ s_cur_msg' = 0 \/ UNCHANGED <<s_board, s_cur_msg>>
  BY DEF Shift, Select, At, LoadBoard, board, current, line, disk, seen
<1> QED BY <1>1 DEF MarksInv, MarksShown, Seen

LEMMA MarksLeave ==
  ASSUME Inv, MarksInv, Leave
  PROVE  MarksInv'
<1>1. /\ at # "menu" /\ at' = "menu" /\ UNCHANGED <<shown, found>> /\ caller \in Users
      /\ marks' = marks \/ marks' = [marks EXCEPT ![caller] = s_ptr]
      /\ marks \in [Users -> Pointers]
  BY DEF Inv, TypeOK, Leave, seen
<1> QED BY <1>1 DEF MarksInv, MarksShown

LEMMA MarksRest ==
  ASSUME Inv, MarksInv,
         \/ StopReading \/ HangUp \/ Reset \/ Post \/ Reply \/ TypeLine \/ Rubout
         \/ Quote \/ AskAbort \/ Abort \/ GoOn \/ GiveUp \/ Kill \/ Save
         \/ UNCHANGED vars
  PROVE  MarksInv'
<1>1. /\ UNCHANGED <<marks, shown, found>>
      /\ \/ at' = "menu"
         \/ /\ UNCHANGED <<s_ptr, caller, s_board>> /\ at # "menu"
            /\ s_cur_msg' = 0 \/ UNCHANGED s_cur_msg
  BY DEF StopReading, HangUp, Reset, Post, Reply, TypeLine, Rubout, Quote, AskAbort,
         Abort, GoOn, GiveUp, Kill, Save, At, vars, unedited, disk, line, board, current,
         seen
<1>2. CASE at' = "menu"
  BY <1>1, <1>2 DEF MarksInv, MarksShown
<1>3. CASE at' # "menu"
  BY <1>1, <1>3 DEF MarksInv, MarksShown, Seen
<1> QED BY <1>2, <1>3

\* usrptr_advance() is called with what display_msg() left current, so that USR.PTR
\* names only messages its caller was shown, or found current, left by the caller
\* before, because board 1 could not be read.
THEOREM MarksAreShown == Spec => []MarksShown
<1>1. Init => MarksInv
  <2> SUFFICES ASSUME Init PROVE MarksInv
    OBVIOUS
  <2> QED BY DEF Init, MarksInv, MarksShown, NoMarks
<1>2. Inv /\ MarksInv /\ [Next]_vars => MarksInv'
  <2> SUFFICES ASSUME Inv, MarksInv, [Next]_vars PROVE MarksInv'
    OBVIOUS
  <2>t. TypeOK
    BY DEF Inv
  <2>1. CASE \/ First \/ NextNew \/ Enter \/ ReadNextNew \/ ReadAgain
             \/ \E m \in Numbers : ReadNumber(m) \/ ReadJump(m)
    BY <2>1, <2>t, ReadsSteps, MarksReads
  <2>b. CASE \E u \in Users : Begin(u)
    BY <2>b, MarksBegin
  <2>2. CASE \/ Shift(After) \/ Shift(Before) \/ \E b \in Boards : Select(b)
    BY <2>2, MarksChooses
  <2>3. CASE Leave
    BY <2>3, MarksLeave
  <2>4. CASE \/ StopReading \/ HangUp \/ Reset \/ Post \/ Reply \/ TypeLine \/ Rubout
             \/ Quote \/ AskAbort \/ Abort \/ GoOn \/ GiveUp \/ Kill \/ Save
             \/ UNCHANGED vars
    BY <2>4, MarksRest
  <2> QED BY <2>1, <2>b, <2>2, <2>3, <2>4 DEF Next
<1>3. MarksInv => MarksShown
  BY DEF MarksInv
<1> QED BY <1>1, <1>2, <1>3, InvHolds, PTL DEF Spec

=============================================================================
