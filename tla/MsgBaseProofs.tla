---------------------------- MODULE MsgBaseProofs ----------------------------
(***************************************************************************)
(* Theorems about MsgBase, for any capacity, limit, batch, lengths, width  *)
(* of an offset, and number of posts and failures.                         *)
(*                                                                         *)
(* Inductive invariants, each resting on TypeInv and most on KeptInv:      *)
(*  - TypeInv: what is in the index has its type, because the job of the   *)
(*    running call has;                                                    *)
(*  - CountInv: while nothing has failed, the counters say at every step   *)
(*    what is left of the call to do;                                      *)
(*  - KeptInv: while msg_scan_all() never fails, the index a reset leaves  *)
(*    is the beginning of the one that is read (Begins), which only grows; *)
(*    so that numbers and acknowledged posts are kept;                     *)
(*  - ThreadInv: ... and threads;                                          *)
(*  - BodyInv: until something was lost, the file ends where the index     *)
(*    says, or where the running post has got to.                          *)
(***************************************************************************)
EXTENDS MsgBase, FiniteSetTheorems, WellFoundedInduction, TLAPS

\* A board as its readers see it, or on disk.
States == [idx : Index, board : Board]
Steps == {"idle", "board", "prune", "reload", "eof", "commit", "write", "id",
          "parent", "put", "count", "uncount"}
Jobs == [parent : 0..MaxPerBoard, len : Lens \cup {0}, b : Board,
         rec : 0..(MaxPerBoard + 1), pruned : 0..Batch,
         off : 0..(OffMod - 1), done : Nat, id : 0..(MaxPerBoard + 1),
         root : 0..(MaxPerBoard + 1)]

\* The steps of msg_post(), and the steps at which the parent has yet to count it.
Posting == Steps \ {"idle", "uncount"}
Linking == Posting \ {"put", "count"}
\* ... past the hard ceiling; and between msg_next_id() and the new record.
Admitted  == {"eof", "commit", "write", "id", "parent", "put", "count"}
Numbered  == {"parent", "put"}

JobTyped ==
  /\ pc \in Steps /\ job \in Jobs
  /\ pc \in Posting =>
       posts # 0 /\ job.len \in Lens /\ job.parent \in {0} \cup DOMAIN cur.idx
  /\ pc \in Admitted => job.b.count < MaxPerBoard
  /\ pc = "parent" => job.parent # 0 /\ job.root = job.id
  /\ pc \in Numbered => /\ job.id \in 1..(Len(cur.idx) + 1)
                        /\ job.root = job.id \/ job.root \in 1..MaxPerBoard
  /\ pc = "count" => job.id \in 1..MaxPerBoard

\* A post adds one reply to one message.
RepliesWithin(s, n) == \A i \in DOMAIN s : s[i].replies <= n
RepliesCounted ==
  LET n == IF pc \in Linking THEN posts - 1 ELSE posts
  IN  RepliesWithin(cur.idx, n) /\ RepliesWithin(store.idx, n)

SetsTyped == /\ cur \in States /\ store \in States
             /\ posts \in 0..MaxPosts /\ faults \in 0..MaxFaults
RestTyped ==
  /\ exists \in BOOLEAN /\ txt \in Seq(1..MaxPosts)
  /\ result \in {"none", "ok", "failed", "full"}
  /\ acked \subseteq 1..MaxPosts /\ skewed \in BOOLEAN

TypeInv == SetsTyped /\ JobTyped /\ RepliesCounted /\ RestTyped

-----------------------------------------------------------------------------
Counted(b, s) == b.count = Cardinality(Live(s)) /\ b.high = Len(s)

LiveNow == Cardinality(Live(cur.idx))

CountsAt ==
  /\ store = cur /\ LiveNow <= Limit
  /\ pc \in {"idle", "board", "reload"} => Counted(cur.board, cur.idx)
  /\ pc = "board" => job.pruned = 0
  /\ pc = "prune" => /\ Counted(job.b, cur.idx)
                     /\ \A i \in Live(cur.idx) : job.rec <= i
                     /\ job.pruned # 0 => LiveNow < Limit
  /\ pc = "reload" => LiveNow < Limit
  /\ pc \in Admitted \ {"count"} =>
       Counted(job.b, cur.idx) /\ cur.board = job.b /\ LiveNow < Limit
  /\ pc \in Numbered => job.id = Len(cur.idx) + 1
  /\ pc = "count" => /\ LiveNow = job.b.count + 1 /\ Len(cur.idx) = job.b.high + 1
                     /\ job.id = Len(cur.idx)
  /\ pc = "uncount" => cur.board.count = LiveNow + 1 /\ cur.board.high = Len(cur.idx)
CountInv == faults = 0 => CountsAt

-----------------------------------------------------------------------------
\* No open of msg_scan_all() fails.
AllScansRead == "scan" \notin Faults

\* What a post writes once and nothing changes; and an index that begins another.
Same(r, q) == /\ r.off = q.off /\ r.len = q.len /\ r.own = q.own
              /\ r.root = q.root /\ r.parent = q.parent
Begins(s, t) == Len(s) <= Len(t) /\ \A i \in DOMAIN s : Same(s[i], t[i])

\* Of the two indexes and board records.
KeptSets == Begins(store.idx, cur.idx) /\ store.board.high <= cur.board.high

\* Of the running call: whose locals are those of its record sets.
KeptJob ==
  /\ pc \in {"eof", "commit", "write", "id"} => store = cur
  /\ pc \in {"prune"} \cup Admitted => job.b.high = cur.board.high
  /\ pc \in Numbered => job.id = Len(cur.idx) + 1
  /\ pc = "count" => /\ job.id = Len(cur.idx)
                     /\ Same(cur.idx[job.id],
                             [off |-> job.off, len |-> job.len, own |-> posts,
                              root |-> job.root, parent |-> job.parent])
KeptInv == KeptSets /\ KeptJob

\* One index of ThreadsRooted.
Rooted(s) ==
  \A i \in DOMAIN s :
    /\ s[i].root \in 1..i /\ s[s[i].root].root = s[i].root
    /\ s[i].parent \in 0..(i - 1)
    /\ s[i].root # i => s[i].parent # 0 /\ s[i].root = s[s[i].parent].root

ThreadInv ==
  /\ Rooted(cur.idx)
  /\ pc = "put" => \/ job.root = job.id
                   \/ (job.parent # 0 /\ job.root = cur.idx[job.parent].root)

\* The body of r is within a file f, and r's own.
Intact(r, f) == /\ r.off + r.len <= Len(f)
                /\ \A k \in (r.off + 1)..(r.off + r.len) : f[k] = r.own

\* From msg_body_eof() on the file ends where the running post has got to, unless
\* bytes were lost.
Writing == Admitted \ {"eof"}
Underway == /\ job.off <= Len(txt) /\ Len(txt) <= job.off + job.done
            /\ job.done <= job.len
            /\ Len(txt) = job.off + job.done =>
                 \A k \in (job.off + 1)..(job.off + job.done) : txt[k] = posts
DoneInv == /\ pc \in Linking \ {"write", "id", "parent"} => job.done = 0
           /\ pc = "write" => job.done < job.len
BodyInv ==
  /\ DoneInv
  /\ ~skewed =>
       /\ pc \notin Writing => EndsAt(cur.idx, Len(txt))
       /\ \A i \in DOMAIN cur.idx : (pc = "count" /\ i = job.id) \/ Intact(cur.idx[i], txt)
       /\ pc \in Writing => Underway

-----------------------------------------------------------------------------
(* Numbers, and the index. *)

LEMMA MaxOfTwo ==
  ASSUME NEW a \in Int, NEW b \in Int
  PROVE  Max({a, b}) = IF a < b THEN b ELSE a
<1> DEFINE m == IF a < b THEN b ELSE a
<1>1. m \in {a, b} /\ \A y \in {a, b} : m >= y
  OBVIOUS
<1>2. \A x \in {a, b} : (\A y \in {a, b} : x >= y) => x = m
  OBVIOUS
<1> QED BY <1>1, <1>2 DEF Max

\* A set of numbers below a bound that is not empty has a maximum.
LEMMA MaxBelow ==
  ASSUME NEW n \in Nat, NEW S, S \subseteq 0..n, S # {}
  PROVE  Max(S) \in S
<1> DEFINE T == {n - x : x \in S}
<1>0. PICK z \in S : TRUE
  OBVIOUS
<1>1. T \subseteq Nat /\ T # {}
  <2>1. n - z \in T
    BY <1>0
  <2>2. \A y \in S : n - y \in Nat
    OBVIOUS
  <2> QED BY <2>1, <2>2
<1>2. \E t \in T : \A u \in T : ~ (<<u, t>> \in OpToRel(<, Nat))
  <2> HIDE DEF T
  <2> QED BY <1>1, WFMin, NatLessThanWellFounded
<1>3. \E t \in T : \A u \in T : ~ (u < t)
  <2> HIDE DEF T
  <2> QED BY <1>1, <1>2, Zenon DEF OpToRel
<1>4. PICK t \in T : \A u \in T : ~ (u < t)
  BY <1>3
<1>5. PICK x \in S : t = n - x
  BY <1>4
<1>6. \A y \in S : n - y \in T
  OBVIOUS
<1>7. \A y \in S : ~ (n - y < n - x)
  <2> HIDE DEF T
  <2> QED BY <1>4, <1>5, <1>6
<1>8. ASSUME NEW y \in S PROVE x >= y
  <2>1. x \in 0..n /\ y \in 0..n
    OBVIOUS
  <2>2. ~ (n - y < n - x)
    BY <1>7
  <2> QED BY <2>1, <2>2
<1> QED BY <1>8 DEF Max

LEMMA EofTyped ==
  ASSUME NEW s \in Index
  PROVE  Eof(s) \in 0..(OffMod - 1)
<1>1. ASSUME NEW i \in DOMAIN s
      PROVE  s[i].off \in Nat /\ s[i].len \in Nat
  <2>1. s[i] \in Message
    BY DEF Index
  <2>2. s[i].off \in 0..(OffMod - 1) /\ s[i].len \in Lens
    BY <2>1 DEF Message
  <2>3. s[i].len \in Nat
    BY <2>2, BoundsAssumption
  <2> QED BY <2>2, <2>3
<1>2. \A i \in DOMAIN s : EndOf(s[i]) \in 0..(OffMod - 1)
  BY <1>1, BoundsAssumption DEF EndOf
<1> DEFINE S == {0} \cup {EndOf(s[i]) : i \in DOMAIN s}
<1>3. OffMod - 1 \in Nat /\ S \subseteq 0..(OffMod - 1) /\ S # {}
  BY <1>2, BoundsAssumption
<1>4. Max(S) \in S
  <2> HIDE DEF S
  <2> QED BY <1>3, MaxBelow
<1>5. Eof(s) = Max(S)
  BY DEF Eof
<1> QED BY <1>3, <1>4, <1>5

\* Two indexes that differ in what is deleted and in the replies counted.
Alike(s, t) == Len(s) = Len(t) /\ \A i \in DOMAIN s : Same(s[i], t[i])

LEMMA AlikeEnds ==
  ASSUME NEW s \in Index, NEW t \in Index, Alike(s, t), NEW n
  PROVE  Eof(s) = Eof(t) /\ EndsAt(s, n) = EndsAt(t, n)
<1>1. DOMAIN s = DOMAIN t /\ \A i \in DOMAIN s : s[i].off = t[i].off /\ s[i].len = t[i].len
  BY DEF Alike, Same, Index
<1>2. {EndOf(s[i]) : i \in DOMAIN s} = {EndOf(t[i]) : i \in DOMAIN t}
  BY <1>1 DEF EndOf
<1>3. Eof(s) = Eof(t)
  BY <1>2 DEF Eof
<1> QED BY <1>1, <1>3 DEF EndsAt

LEMMA LiveFinite ==
  ASSUME NEW s \in Index
  PROVE  IsFiniteSet(Live(s)) /\ Cardinality(Live(s)) \in Nat /\ Live(s) \subseteq 1..Len(s)
<1>1. Live(s) \subseteq 1..Len(s) /\ Len(s) \in Nat
  BY DEF Live, Index
<1>2. IsFiniteSet(1..Len(s))
  BY <1>1, FS_Interval
<1> QED BY <1>1, <1>2, FS_Subset, FS_CardinalityType

-----------------------------------------------------------------------------
(* What an operation writes. *)

\* A record is marked as deleted.
LEMMA Marked ==
  ASSUME NEW b \in States, NEW i \in DOMAIN b.idx
  PROVE  LET c == [b EXCEPT !.idx[i].del = TRUE]
         IN  /\ c \in States /\ c.board = b.board
             /\ Alike(b.idx, c.idx) /\ Alike(c.idx, b.idx)
             /\ \A n : RepliesWithin(b.idx, n) => RepliesWithin(c.idx, n)
             /\ Live(c.idx) = Live(b.idx) \ {i}
<1> DEFINE t == [b.idx EXCEPT ![i].del = TRUE]
<1> DEFINE c == [b EXCEPT !.idx[i].del = TRUE]
<1>1. b.idx \in Seq(Message) /\ Len(b.idx) <= MaxPerBoard /\ b.board \in Board
  BY DEF States, Index
<1>2. c = [idx |-> t, board |-> b.board]
  <2>1. b = [idx |-> b.idx, board |-> b.board]
    BY DEF States
  <2>2. DOMAIN c = DOMAIN [idx |-> t, board |-> b.board]
    BY <2>1
  <2>3. c.idx = t /\ c.board = b.board
    BY <2>1, Zenon
  <2>4. c = [f \in {"idx", "board"} |-> c[f]]
    BY <2>1
  <2> HIDE DEF t, c
  <2> QED BY <2>3, <2>4
<1>3. DOMAIN t = DOMAIN b.idx /\ \A j \in DOMAIN t : t[j] = IF j = i THEN [b.idx[j] EXCEPT !.del = TRUE] ELSE b.idx[j]
  BY <1>1
<1>4. \A j \in DOMAIN t : b.idx[j] \in Message
  BY <1>1, <1>3
<1>5. \A j \in DOMAIN t :
        /\ t[j] \in Message /\ Same(b.idx[j], t[j]) /\ Same(t[j], b.idx[j])
        /\ t[j].replies = b.idx[j].replies
        /\ t[j].del <=> (j = i \/ b.idx[j].del)
  <2> HIDE DEF t, c
  <2>1. SUFFICES ASSUME NEW j \in DOMAIN t
                 PROVE  /\ t[j] \in Message /\ Same(b.idx[j], t[j]) /\ Same(t[j], b.idx[j])
                        /\ t[j].replies = b.idx[j].replies
                        /\ t[j].del <=> (j = i \/ b.idx[j].del)
    OBVIOUS
  <2>2. CASE j = i
    BY <1>3, <1>4, <2>2 DEF Message, Same
  <2>3. CASE j # i
    BY <1>3, <1>4, <2>3 DEF Message, Same
  <2> QED BY <2>2, <2>3
<1>6. t \in Seq(Message) /\ Len(t) = Len(b.idx)
  <2>1. Len(b.idx) \in Nat /\ DOMAIN b.idx = 1..Len(b.idx)
    BY <1>1
  <2>2. t = [j \in DOMAIN t |-> t[j]]
    OBVIOUS
  <2>3. \A j \in DOMAIN t : t[j] \in Message
    BY <1>5
  <2> HIDE DEF t, c
  <2>4. DOMAIN t = 1..Len(b.idx)
    BY <1>3, <2>1
  <2> QED BY <2>1, <2>2, <2>3, <2>4
<1>7. c \in States /\ c.board = b.board /\ c.idx = t
  BY <1>1, <1>2, <1>6 DEF States, Index
<1>8. Live(t) = Live(b.idx) \ {i}
  BY <1>3, <1>5 DEF Live
<1> HIDE DEF t
<1>9. \A n : RepliesWithin(b.idx, n) => RepliesWithin(t, n)
  BY <1>3, <1>5 DEF RepliesWithin
<1> QED BY <1>3, <1>5, <1>6, <1>7, <1>8, <1>9 DEF Alike

\* A message counts a reply.
LEMMA Replied ==
  ASSUME NEW b \in States, NEW i \in DOMAIN b.idx, NEW n \in Nat, n < MaxPosts,
         RepliesWithin(b.idx, n)
  PROVE  LET c == [b EXCEPT !.idx[i].replies = @ + 1]
         IN  /\ c \in States /\ c.board = b.board
             /\ Alike(b.idx, c.idx) /\ Alike(c.idx, b.idx)
             /\ RepliesWithin(c.idx, n + 1)
             /\ Live(c.idx) = Live(b.idx)
<1> DEFINE t == [b.idx EXCEPT ![i].replies = @ + 1]
<1> DEFINE c == [b EXCEPT !.idx[i].replies = @ + 1]
<1>1. b.idx \in Seq(Message) /\ Len(b.idx) <= MaxPerBoard /\ b.board \in Board
  BY DEF States, Index
<1>2. c = [idx |-> t, board |-> b.board]
  <2>1. b = [idx |-> b.idx, board |-> b.board]
    BY DEF States
  <2>2. DOMAIN c = DOMAIN [idx |-> t, board |-> b.board]
    BY <2>1
  <2> QED BY <2>1, <2>2
<1>3. DOMAIN t = DOMAIN b.idx /\ \A j \in DOMAIN t : t[j] = IF j = i THEN [b.idx[j] EXCEPT !.replies = @ + 1] ELSE b.idx[j]
  BY <1>1
<1>4. \A j \in DOMAIN t : b.idx[j] \in Message /\ b.idx[j].replies <= n
  BY <1>1, <1>3 DEF RepliesWithin
<1>5. \A j \in DOMAIN t :
        /\ t[j] \in Message /\ Same(b.idx[j], t[j]) /\ Same(t[j], b.idx[j])
        /\ t[j].replies <= n + 1
        /\ t[j].del = b.idx[j].del
  BY <1>3, <1>4, BoundsAssumption DEF Message, Same
<1>6. t \in Seq(Message) /\ Len(t) = Len(b.idx)
  BY <1>1, <1>3, <1>5
<1>7. c \in States /\ c.board = b.board /\ c.idx = t
  BY <1>1, <1>2, <1>6 DEF States, Index
<1>8. Live(t) = Live(b.idx)
  BY <1>3, <1>5 DEF Live
<1> HIDE DEF t
<1>9. RepliesWithin(t, n + 1)
  BY <1>3, <1>5 DEF RepliesWithin
<1> QED BY <1>3, <1>5, <1>6, <1>7, <1>8, <1>9 DEF Alike

\* The board record is replaced.
LEMMA Recorded ==
  ASSUME NEW b \in States, NEW x \in Board
  PROVE  LET c == [b EXCEPT !.board = x]
         IN  c \in States /\ c.idx = b.idx /\ c.board = x
<1> DEFINE c == [b EXCEPT !.board = x]
<1>1. b = [idx |-> b.idx, board |-> b.board] /\ b.idx \in Index
  BY DEF States
<1>2. c = [idx |-> b.idx, board |-> x]
  BY <1>1
<1> QED BY <1>1, <1>2 DEF States

\* One message less is counted.
LEMMA CountedDown ==
  ASSUME NEW b \in States
  PROVE  LET c == [b EXCEPT !.board.count = IF @ > 0 THEN @ - 1 ELSE 0]
         IN  /\ c \in States /\ c.idx = b.idx /\ c.board.high = b.board.high
             /\ c.board.count = IF b.board.count > 0 THEN b.board.count - 1 ELSE 0
<1> DEFINE x == [b.board EXCEPT !.count = IF @ > 0 THEN @ - 1 ELSE 0]
<1> DEFINE c == [b EXCEPT !.board.count = IF @ > 0 THEN @ - 1 ELSE 0]
<1>1. b.board \in Board
  BY DEF States
<1>2. x \in Board /\ x.high = b.board.high
      /\ x.count = IF b.board.count > 0 THEN b.board.count - 1 ELSE 0
  BY <1>1, BoundsAssumption DEF Board
<1>3. c = [b EXCEPT !.board = x]
  OBVIOUS
<1> HIDE DEF x
<1> DEFINE d == [b EXCEPT !.board = x]
<1>4. d \in States /\ d.idx = b.idx /\ d.board = x
  BY <1>2, Recorded
<1>5. c \in States /\ c.idx = b.idx /\ c.board = x
  <2> HIDE DEF c, d
  <2>1. c = d
    BY <1>3 DEF d
  <2> QED BY <1>4, <2>1
<1> QED BY <1>2, <1>5

\* The index is replaced.
LEMMA Reindexed ==
  ASSUME NEW b \in States, NEW t \in Index
  PROVE  LET c == [b EXCEPT !.idx = t]
         IN  c \in States /\ c.idx = t /\ c.board = b.board
<1> DEFINE c == [b EXCEPT !.idx = t]
<1>1. b = [idx |-> b.idx, board |-> b.board] /\ b.board \in Board
  BY DEF States
<1>2. c = [idx |-> t, board |-> b.board]
  BY <1>1
<1> QED BY <1>1, <1>2 DEF States

\* A record is written over another, or behind the last one.
LEMMA Written ==
  ASSUME NEW s \in Index, NEW r \in Message, NEW i \in 1..(Len(s) + 1), i <= MaxPerBoard,
         r.replies = 0
  PROVE  LET t == WithRecord(s, i, r)
         IN  /\ t \in Index /\ i \in DOMAIN t /\ t[i] = r /\ DOMAIN s \subseteq DOMAIN t
             /\ \A j \in DOMAIN t : j = i \/ (j \in DOMAIN s /\ t[j] = s[j])
             /\ Len(t) = IF i = Len(s) + 1 THEN i ELSE Len(s)
             /\ \A n \in Nat : RepliesWithin(s, n) => RepliesWithin(t, n)
<1> DEFINE t == WithRecord(s, i, r)
<1> DEFINE m == IF i = Len(s) + 1 THEN i ELSE Len(s)
<1>1. s \in Seq(Message) /\ Len(s) <= MaxPerBoard /\ Len(s) \in Nat /\ i \in Nat
      /\ DOMAIN s = 1..Len(s)
  BY DEF Index
<1>2. Max({i, Len(s)}) = m /\ m \in Nat /\ m <= MaxPerBoard
  <2>1. i \in Int /\ Len(s) \in Int /\ i <= Len(s) + 1
    BY <1>1
  <2>2. Max({i, Len(s)}) = IF i < Len(s) THEN Len(s) ELSE i
    BY <2>1, MaxOfTwo
  <2> QED BY <1>1, <2>1, <2>2
<1>3. t = [j \in 1..m |-> IF j = i THEN r ELSE s[j]]
  BY <1>2 DEF WithRecord
<1>4. \A j \in 1..m : t[j] \in Message
  BY <1>1, <1>3
<1>5. t \in Seq(Message) /\ Len(t) = m /\ DOMAIN t = 1..m
  <2> HIDE DEF m
  <2> QED BY <1>2, <1>3, <1>4
<1>6. t \in Index
  BY <1>2, <1>5 DEF Index
<1>7. i \in DOMAIN t /\ t[i] = r /\ DOMAIN s \subseteq DOMAIN t
  BY <1>1, <1>3, <1>5
<1>8. \A j \in DOMAIN t : j = i \/ (j \in DOMAIN s /\ t[j] = s[j])
  BY <1>1, <1>3, <1>5
<1>9. \A n \in Nat : RepliesWithin(s, n) => RepliesWithin(t, n)
  BY <1>7, <1>8 DEF RepliesWithin
<1> HIDE DEF t
<1> QED BY <1>5, <1>6, <1>7, <1>8, <1>9 DEF t

\* ... behind the last one.
LEMMA Appended ==
  ASSUME NEW s \in Index, NEW r \in Message, NEW i \in 1..(Len(s) + 1), i = Len(s) + 1,
         i <= MaxPerBoard, r.replies = 0, ~ r.del
  PROVE  LET t == WithRecord(s, i, r)
         IN  /\ t \in Index /\ Len(t) = i /\ t[i] = r /\ DOMAIN t = 1..i
             /\ \A j \in DOMAIN s : j < i /\ t[j] = s[j]
             /\ \A j \in DOMAIN t : j = i \/ (j \in DOMAIN s /\ t[j] = s[j])
             /\ Live(t) = Live(s) \cup {i} /\ i \notin Live(s)
<1> DEFINE t == WithRecord(s, i, r)
<1>1. DOMAIN s = 1..Len(s) /\ Len(s) \in Nat
  BY DEF Index
<1>2. /\ t \in Index /\ Len(t) = i /\ t[i] = r /\ DOMAIN s \subseteq DOMAIN t
      /\ \A j \in DOMAIN t : j = i \/ (j \in DOMAIN s /\ t[j] = s[j])
  BY <1>1, Written
<1> HIDE DEF t
<1>3. DOMAIN t = 1..i /\ i \in DOMAIN t
  BY <1>1, <1>2 DEF Index
<1>4. \A j \in DOMAIN s : j < i /\ t[j] = s[j]
  BY <1>1, <1>2
<1>5. Live(t) = Live(s) \cup {i} /\ i \notin Live(s)
  BY <1>1, <1>2, <1>3, <1>4 DEF Live
<1> QED BY <1>2, <1>3, <1>4, <1>5 DEF t

\* One access to a record set.
LEMMA Accessed ==
  ASSUME NEW c
  PROVE  /\ ReadDone => cur' = cur /\ store' = cur /\ faults' = faults
         /\ SaveDone(c) => cur' = c /\ store' = c /\ faults' = faults
         /\ SaveLost(c) => cur' = c /\ store' = cur /\ faults < MaxFaults /\ faults' = faults + 1
         /\ AccessFails \/ ScanFails \/ WriteFails =>
              cur' = cur /\ store' \in {store, cur} /\ faults < MaxFaults /\ faults' = faults + 1
         /\ ScanFails => "scan" \in Faults \/ cur # store
BY DEF ReadDone, SaveDone, SaveLost, AccessFails, ScanFails, WriteFails, Fails, Fault, NoFault

LEMMA Returned ==
  ASSUME NEW res, Return(res)
  PROVE  /\ pc' = "idle" /\ job' = NoJob /\ result' = res /\ skewed' \in BOOLEAN
         /\ ~skewed' => ~skewed /\ EndsAt(cur'.idx, Len(txt'))
BY DEF Return

LEMMA NoJobTyped == NoJob \in Jobs
BY BoundsAssumption DEF NoJob, NoBoard, Jobs, Board

-----------------------------------------------------------------------------
(* TypeInv. *)

LEMMA WithinMore ==
  ASSUME NEW s \in Index, NEW n \in Int, NEW m \in Int, n <= m, RepliesWithin(s, n)
  PROVE  RepliesWithin(s, m)
<1>1. \A i \in DOMAIN s : s[i].replies \in Nat
  <2>1. \A i \in DOMAIN s : s[i] \in Message
    BY DEF Index
  <2> QED BY <2>1 DEF Message
<1> QED BY <1>1 DEF RepliesWithin

LEMMA RepliesKnown ==
  ASSUME SetsTyped, RepliesCounted
  PROVE  /\ RepliesWithin(cur.idx, posts) /\ RepliesWithin(store.idx, posts)
         /\ pc \in Linking => RepliesWithin(cur.idx, posts - 1) /\ RepliesWithin(store.idx, posts - 1)
<1>1. cur.idx \in Index /\ store.idx \in Index /\ posts \in Int /\ posts - 1 \in Int
  BY BoundsAssumption DEF SetsTyped, States
<1>2. CASE pc \in Linking
  <2>1. RepliesWithin(cur.idx, posts - 1) /\ RepliesWithin(store.idx, posts - 1)
    BY <1>2 DEF RepliesCounted
  <2>2. posts - 1 <= posts
    BY <1>1
  <2> QED BY <1>1, <1>2, <2>1, <2>2, WithinMore
<1>3. CASE pc \notin Linking
  BY <1>3 DEF RepliesCounted
<1> QED BY <1>2, <1>3

\* A step after which the indexes are among those there were.
LEMMA RepliesStay ==
  ASSUME SetsTyped, RepliesCounted, posts' = posts,
         cur'.idx = cur.idx, store'.idx \in {store.idx, cur.idx},
         pc \in Linking \/ pc' \notin Linking
  PROVE  RepliesCounted'
<1>1. CASE pc' \in Linking
  BY <1>1, RepliesKnown DEF RepliesCounted
<1>2. CASE pc' \notin Linking
  BY <1>2, RepliesKnown DEF RepliesCounted
<1> QED BY <1>1, <1>2

\* A return leaves no job.
LEMMA ReturnTyped ==
  ASSUME SetsTyped', NEW res \in {"ok", "failed", "full"}, Return(res),
         RepliesWithin(cur'.idx, posts'), RepliesWithin(store'.idx, posts'),
         exists' \in BOOLEAN, txt' \in Seq(1..MaxPosts), acked' \subseteq 1..MaxPosts
  PROVE  TypeInv'
<1>1. pc' = "idle" /\ job' = NoJob /\ result' = res /\ skewed' \in BOOLEAN
  BY Returned
<1>2. JobTyped'
  BY <1>1, NoJobTyped DEF JobTyped, Steps, Posting, Admitted, Numbered
<1>3. RepliesCounted'
  BY <1>1 DEF RepliesCounted, Linking, Posting, Steps
<1>4. RestTyped'
  BY <1>1 DEF RestTyped
<1> QED BY <1>2, <1>3, <1>4 DEF TypeInv

LEMMA TypeInit == Init => TypeInv
<1> SUFFICES ASSUME Init PROVE TypeInv
  OBVIOUS
<1>1. << >> \in Index
  BY BoundsAssumption DEF Index
<1>2. NoBoard \in Board
  BY BoundsAssumption DEF NoBoard, Board
<1>3. SetsTyped
  BY <1>1, <1>2, BoundsAssumption DEF Init, SetsTyped, States
<1>4. JobTyped
  BY NoJobTyped DEF Init, JobTyped, Steps, Posting, Admitted, Numbered
<1>5. RepliesCounted
  BY DEF Init, RepliesCounted, RepliesWithin
<1>6. RestTyped
  <2>1. << >> \in Seq(1..MaxPosts)
    OBVIOUS
  <2>2. exists \in BOOLEAN /\ skewed \in BOOLEAN
    BY DEF Init
  <2> QED BY <2>1, <2>2 DEF Init, RestTyped
<1> QED BY <1>3, <1>4, <1>5, <1>6 DEF TypeInv

LEMMA TypeMsgPost ==
  ASSUME TypeInv, NEW parent \in {0} \cup DOMAIN cur.idx, NEW len \in Lens, MsgPost(parent, len)
  PROVE  TypeInv'
<1>1. /\ pc = "idle" /\ posts < MaxPosts /\ posts' = posts + 1 /\ pc' = "board"
      /\ job' = [NoJob EXCEPT !.parent = parent, !.len = len]
      /\ UNCHANGED <<cur, store, exists, txt, acked, faults, result, skewed>>
  BY DEF MsgPost, Go, records, body
<1>2. SetsTyped'
  BY <1>1, BoundsAssumption DEF TypeInv, SetsTyped
<1>3. parent \in 0..MaxPerBoard
  <2>1. cur.idx \in Index
    BY DEF TypeInv, SetsTyped, States
  <2>2. DOMAIN cur.idx = 1..Len(cur.idx) /\ Len(cur.idx) \in Nat /\ Len(cur.idx) <= MaxPerBoard
    BY <2>1 DEF Index
  <2> QED BY <2>2, BoundsAssumption
<1>4. job' \in Jobs
  BY <1>1, <1>3, NoJobTyped DEF Jobs
<1>5. posts' # 0 /\ job'.len = len /\ job'.parent = parent
  BY <1>1, BoundsAssumption DEF NoJob, TypeInv, SetsTyped
<1>6. JobTyped'
  BY <1>1, <1>4, <1>5 DEF JobTyped, Steps, Posting, Admitted, Numbered
<1>7. RepliesCounted'
  <2>1. RepliesWithin(cur'.idx, posts' - 1) /\ RepliesWithin(store'.idx, posts' - 1)
    BY <1>1, RepliesKnown DEF TypeInv, SetsTyped
  <2> QED BY <1>1, <2>1 DEF RepliesCounted, Linking, Posting, Steps
<1>8. RestTyped'
  BY <1>1 DEF TypeInv, RestTyped
<1> QED BY <1>2, <1>6, <1>7, <1>8 DEF TypeInv

\* A board record at hand: the call is refused or goes on.
LEMMA TypeAdmit ==
  ASSUME TypeInv, pc \in {"board", "reload"}, UNCHANGED <<body, posts, acked>>,
         ReadDone, Admit(cur.board)
  PROVE  TypeInv'
<1>1. cur' = cur /\ store' = cur /\ faults' = faults /\ UNCHANGED <<exists, txt, posts, acked>>
  BY Accessed DEF body
<1>2. SetsTyped'
  BY <1>1 DEF TypeInv, SetsTyped
<1>3. CASE cur.board.count >= MaxPerBoard
  <2>1. Return("full")
    BY <1>3 DEF Admit
  <2> QED BY <1>1, <1>2, <2>1, ReturnTyped, RepliesKnown DEF TypeInv, RestTyped
<1>4. CASE ~ (cur.board.count >= MaxPerBoard)
  <2>1. pc' = "eof" /\ job' = [job EXCEPT !.b = cur.board] /\ UNCHANGED <<result, skewed>>
    BY <1>4 DEF Admit, Go
  <2>2. cur.board \in Board /\ job \in Jobs /\ cur.board.count \in Int
    BY DEF TypeInv, SetsTyped, States, JobTyped, Board
  <2>3. job' \in Jobs /\ job'.len = job.len /\ job'.parent = job.parent /\ job'.b = cur.board
    BY <2>1, <2>2 DEF Jobs
  <2>4. job'.b.count < MaxPerBoard
    BY <1>4, <2>2, <2>3, BoundsAssumption
  <2>5. JobTyped'
    BY <1>1, <2>1, <2>3, <2>4 DEF TypeInv, JobTyped, Steps, Posting, Admitted, Numbered
  <2>6. RepliesCounted'
    BY <1>1, <2>1, RepliesStay DEF TypeInv, Linking, Posting, Steps
  <2>7. RestTyped'
    BY <1>1, <2>1 DEF TypeInv, RestTyped
  <2> QED BY <1>2, <2>5, <2>6, <2>7 DEF TypeInv
<1> QED BY <1>3, <1>4

\* The call fails at an access that changed nothing of what is read.
LEMMA TypeFailed ==
  ASSUME TypeInv, UNCHANGED <<body, posts, acked>>, AccessFails \/ WriteFails, Return("failed")
  PROVE  TypeInv'
<1>1. /\ cur' = cur /\ store' \in {store, cur} /\ faults' = faults + 1 /\ faults < MaxFaults
      /\ UNCHANGED <<exists, txt, posts, acked>>
  BY Accessed DEF body
<1>2. SetsTyped'
  BY <1>1, BoundsAssumption DEF TypeInv, SetsTyped
<1>3. RepliesWithin(cur'.idx, posts') /\ RepliesWithin(store'.idx, posts')
  BY <1>1, RepliesKnown DEF TypeInv
<1> QED BY <1>1, <1>2, <1>3, ReturnTyped DEF TypeInv, RestTyped

LEMMA TypePostBoard ==
  ASSUME TypeInv, PostBoard
  PROVE  TypeInv'
<1>1. pc = "board" /\ UNCHANGED <<body, posts, acked>>
  BY DEF PostBoard
<1>2. CASE AccessFails /\ Return("failed")
  BY <1>1, <1>2, TypeFailed
<1>3. CASE ReadDone /\ cur.board.count >= Limit /\ Go("prune", [job EXCEPT !.b = cur.board, !.rec = 1])
  <2>1. cur' = cur /\ store' = cur /\ faults' = faults /\ UNCHANGED <<exists, txt, posts, acked>>
    BY <1>1, <1>3, Accessed DEF body
  <2>2. pc' = "prune" /\ job' = [job EXCEPT !.b = cur.board, !.rec = 1] /\ UNCHANGED <<result, skewed>>
    BY <1>3 DEF Go
  <2>3. cur.board \in Board /\ job \in Jobs
    BY DEF TypeInv, SetsTyped, States, JobTyped
  <2>4. job' \in Jobs /\ job'.len = job.len /\ job'.parent = job.parent
    <3>1. 1 \in 0..(MaxPerBoard + 1)
      BY BoundsAssumption
    <3> QED BY <2>2, <2>3, <3>1 DEF Jobs
  <2>5. JobTyped'
    BY <1>1, <2>1, <2>2, <2>4 DEF TypeInv, JobTyped, Steps, Posting, Admitted, Numbered
  <2>6. RepliesCounted'
    BY <1>1, <2>1, <2>2, RepliesStay DEF TypeInv, Linking, Posting, Steps
  <2> QED BY <2>1, <2>2, <2>5, <2>6 DEF TypeInv, RestTyped, SetsTyped
<1>4. CASE ReadDone /\ Admit(cur.board)
  BY <1>1, <1>4, TypeAdmit
<1> QED BY <1>2, <1>3, <1>4 DEF PostBoard

LEMMA TypePostReload ==
  ASSUME TypeInv, PostReload
  PROVE  TypeInv'
BY TypeAdmit, TypeFailed DEF PostReload

LEMMA TypePruneRecord ==
  ASSUME TypeInv, PruneRecord
  PROVE  TypeInv'
<1> DEFINE i == job.rec
           c == [cur EXCEPT !.idx[i].del = TRUE]
           go == [job EXCEPT !.rec = @ + 1]
           less == [go EXCEPT !.pruned = @ + 1, !.b.count = IF @ > 0 THEN @ - 1 ELSE 0]
<1>1. /\ pc = "prune" /\ job.rec <= MaxPerBoard /\ job.pruned < Batch
      /\ UNCHANGED <<exists, txt, posts, acked>>
  BY DEF PruneRecord, body
<1>2. job \in Jobs /\ job.b \in Board
  BY DEF TypeInv, JobTyped, Jobs
<1>3. go \in Jobs /\ go.len = job.len /\ go.parent = job.parent /\ go.pruned = job.pruned /\ go.b = job.b
  BY <1>1, <1>2, BoundsAssumption DEF Jobs
<1>4. less \in Jobs /\ less.len = job.len /\ less.parent = job.parent
  <2> DEFINE x == [go.b EXCEPT !.count = IF @ > 0 THEN @ - 1 ELSE 0]
  <2>1. x \in Board
    <3>1. go.b \in Board /\ go.b.count \in 0..MaxPerBoard
      BY <1>2, <1>3 DEF Board
    <3>2. (IF go.b.count > 0 THEN go.b.count - 1 ELSE 0) \in 0..MaxPerBoard
      BY <3>1, BoundsAssumption
    <3> HIDE DEF go
    <3> QED BY <3>1, <3>2 DEF Board
  <2>2. less = [go EXCEPT !.pruned = @ + 1, !.b = x]
    OBVIOUS
  <2>3. go.pruned + 1 \in 0..Batch
    BY <1>1, <1>2, <1>3, BoundsAssumption DEF Jobs
  <2> HIDE DEF go, less, x
  <2> QED BY <1>3, <2>1, <2>2, <2>3 DEF Jobs
<1>5. ASSUME NEW j \in {go, less}, Go("prune", j), cur' \in States, store' \in States,
             faults' \in 0..MaxFaults, Len(cur'.idx) = Len(cur.idx),
             RepliesWithin(cur'.idx, posts - 1), RepliesWithin(store'.idx, posts - 1)
      PROVE  TypeInv'
  <2>1. pc' = "prune" /\ job' = j /\ UNCHANGED <<result, skewed>>
    BY <1>5 DEF Go
  <2>2. DOMAIN cur'.idx = DOMAIN cur.idx
    BY <1>5 DEF TypeInv, SetsTyped, States, Index
  <2>3. j \in Jobs /\ j.len = job.len /\ j.parent = job.parent
    <3> HIDE DEF go, less
    <3> QED BY <1>3, <1>4, <1>5
  <2>4. JobTyped'
    BY <1>1, <2>1, <2>2, <2>3 DEF TypeInv, JobTyped, Steps, Posting, Admitted, Numbered
  <2>5. RepliesCounted'
    BY <1>1, <1>5, <2>1 DEF RepliesCounted, Linking, Posting, Steps
  <2> QED BY <1>1, <1>5, <2>1, <2>4, <2>5 DEF TypeInv, SetsTyped, RestTyped
<1>6. /\ RepliesWithin(cur.idx, posts - 1) /\ RepliesWithin(store.idx, posts - 1)
      /\ cur \in States /\ store \in States /\ faults \in 0..MaxFaults
  BY <1>1, RepliesKnown DEF TypeInv, SetsTyped, Linking, Posting, Steps
<1>7. CASE (AccessFails \/ ReadDone) /\ Go("prune", go)
  <2>1. /\ cur' = cur /\ store' \in {cur, store} /\ faults' \in 0..MaxFaults
    BY <1>6, <1>7, Accessed, BoundsAssumption
  <2> QED BY <1>5, <1>6, <1>7, <2>1
<1>8. CASE i \in Live(cur.idx) /\ (SaveDone(c) \/ SaveLost(c) \/ WriteFails) /\ Go("prune", less)
  <2>1. i \in DOMAIN cur.idx
    BY <1>8 DEF Live
  <2>2. c \in States /\ Len(c.idx) = Len(cur.idx) /\ RepliesWithin(c.idx, posts - 1)
    BY <1>6, <2>1, Marked DEF Alike
  <2>3. cur' \in {cur, c} /\ store' \in {store, cur, c} /\ faults' \in 0..MaxFaults
    <3> HIDE DEF c
    <3> QED BY <1>6, <1>8, Accessed, BoundsAssumption
  <2> HIDE DEF c
  <2> QED BY <1>5, <1>6, <1>8, <2>2, <2>3
<1> QED BY <1>7, <1>8 DEF PruneRecord

LEMMA TypePruneSave ==
  ASSUME TypeInv, PruneSave
  PROVE  TypeInv'
<1> DEFINE c == [cur EXCEPT !.board = job.b]
<1>1. pc = "prune" /\ UNCHANGED <<exists, txt, posts, acked>> /\ UNCHANGED <<body, posts, acked>>
  BY DEF PruneSave, body
<1>2. c \in States /\ c.idx = cur.idx
  BY Recorded DEF TypeInv, SetsTyped, JobTyped, Jobs
<1>3. CASE SaveDone(c) /\ Go("reload", job)
  <2>1. cur' = c /\ store' = c /\ faults' = faults
    <3> HIDE DEF c
    <3> QED BY <1>3, Accessed
  <2>2. pc' = "reload" /\ job' = job /\ UNCHANGED <<result, skewed>>
    BY <1>3 DEF Go
  <2> HIDE DEF c
  <2>3. SetsTyped'
    BY <1>1, <1>2, <2>1 DEF TypeInv, SetsTyped
  <2>4. JobTyped'
    BY <1>1, <1>2, <2>1, <2>2 DEF TypeInv, JobTyped, Steps, Posting, Admitted, Numbered
  <2>5. RepliesCounted'
    BY <1>1, <1>2, <2>1, <2>2, RepliesStay DEF TypeInv, Linking, Posting, Steps
  <2> QED BY <1>1, <2>2, <2>3, <2>4, <2>5 DEF TypeInv, RestTyped
<1>4. CASE SaveLost(c) /\ Return("failed")
  <2>1. cur' = c /\ store' = cur /\ faults' = faults + 1 /\ faults < MaxFaults
    <3> HIDE DEF c
    <3> QED BY <1>4, Accessed
  <2> HIDE DEF c
  <2>2. SetsTyped'
    BY <1>1, <1>2, <2>1, BoundsAssumption DEF TypeInv, SetsTyped
  <2>3. RepliesWithin(cur'.idx, posts') /\ RepliesWithin(store'.idx, posts')
    BY <1>1, <1>2, <2>1, RepliesKnown DEF TypeInv
  <2> QED BY <1>1, <1>4, <2>2, <2>3, ReturnTyped DEF TypeInv, RestTyped
<1>5. CASE AccessFails /\ Return("failed")
  BY <1>1, <1>5, TypeFailed
<1> QED BY <1>3, <1>4, <1>5 DEF PruneSave

\* A step of a post before its record is written, which changes nothing that is read.
LEMMA TypeGo ==
  ASSUME TypeInv, pc \in Linking, NEW q \in Posting, NEW j \in Jobs, Go(q, j),
         cur' = cur, store' \in {store, cur}, faults' \in 0..MaxFaults,
         UNCHANGED <<posts, acked>>, exists' \in BOOLEAN, txt' \in Seq(1..MaxPosts),
         j.len = job.len, j.parent = job.parent,
         q \in Admitted => j.b.count < MaxPerBoard,
         q = "parent" => j.parent # 0 /\ j.root = j.id,
         q \in Numbered => /\ j.id \in 1..(Len(cur.idx) + 1)
                           /\ j.root = j.id \/ j.root \in 1..MaxPerBoard,
         q # "count"
  PROVE  TypeInv'
<1>1. pc' = q /\ job' = j /\ result' = result /\ skewed' = skewed /\ pc \in Posting
  BY DEF Go, Linking
<1>2. SetsTyped'
  BY DEF TypeInv, SetsTyped
<1>3. JobTyped'
  BY <1>1 DEF TypeInv, JobTyped, Posting
<1>4. RepliesCounted'
  BY RepliesStay DEF TypeInv
<1>5. RestTyped'
  BY <1>1 DEF TypeInv, RestTyped
<1> QED BY <1>2, <1>3, <1>4, <1>5 DEF TypeInv

LEMMA TypePostEof ==
  ASSUME TypeInv, PostEof
  PROVE  TypeInv'
<1>1. pc = "eof" /\ UNCHANGED <<exists, txt, posts, acked>>
  BY DEF PostEof, body
<1>2. PICK n \in {0, Eof(cur.idx)} : Go("commit", [job EXCEPT !.off = n]) /\ (ReadDone \/ ScanFails)
  BY DEF PostEof
<1>3. cur' = cur /\ store' \in {store, cur} /\ faults' \in 0..MaxFaults
  BY <1>2, Accessed, BoundsAssumption DEF TypeInv, SetsTyped
<1> DEFINE j == [job EXCEPT !.off = n]
<1>4. n \in 0..(OffMod - 1)
  BY EofTyped, BoundsAssumption DEF TypeInv, SetsTyped, States
<1>5. j \in Jobs /\ j.len = job.len /\ j.parent = job.parent /\ j.b = job.b
  BY <1>4 DEF TypeInv, JobTyped, Jobs
<1>6. pc \in Linking /\ "commit" \in Posting /\ "commit" \notin Numbered /\ job.b.count < MaxPerBoard
  BY <1>1 DEF Linking, Posting, Steps, Numbered, TypeInv, JobTyped, Admitted
<1> HIDE DEF j
<1>7. Go("commit", j)
  BY <1>2 DEF j
<1> QED BY <1>1, <1>3, <1>5, <1>6, <1>7, TypeGo DEF TypeInv, RestTyped

LEMMA TypeCommitOpen ==
  ASSUME TypeInv, CommitOpen
  PROVE  TypeInv'
<1>1. pc = "commit" /\ UNCHANGED <<cur, store, txt, posts, acked>>
  BY DEF CommitOpen, records
<1>2. exists' \in BOOLEAN /\ faults' \in 0..MaxFaults /\ txt' \in Seq(1..MaxPosts)
  <2>1. exists' = TRUE \/ exists' = exists
    BY DEF CommitOpen
  <2>2. faults' = faults \/ (faults < MaxFaults /\ faults' = faults + 1)
    BY DEF CommitOpen, Fault, NoFault
  <2>3. faults \in 0..MaxFaults /\ exists \in BOOLEAN /\ txt \in Seq(1..MaxPosts)
    BY DEF TypeInv, SetsTyped, RestTyped
  <2>4. faults' \in 0..MaxFaults
    BY <2>2, <2>3, BoundsAssumption
  <2>5. exists' \in BOOLEAN
    BY <2>1, <2>3
  <2> QED BY <1>1, <2>3, <2>4, <2>5
<1>3. CASE Return("failed")
  <2>1. SetsTyped'
    BY <1>1, <1>2 DEF TypeInv, SetsTyped
  <2>2. RepliesWithin(cur'.idx, posts') /\ RepliesWithin(store'.idx, posts')
    BY <1>1, RepliesKnown DEF TypeInv
  <2> QED BY <1>1, <1>2, <1>3, <2>1, <2>2, ReturnTyped DEF TypeInv, RestTyped
<1>4. CASE ~ Return("failed")
  <2>1. PICK q \in {"id", "write"} : Go(q, job)
    BY <1>4 DEF CommitOpen
  <2>2. pc \in Linking /\ q \in Posting /\ q \notin Numbered /\ job \in Jobs /\ job.b.count < MaxPerBoard
        /\ q # "count" /\ q # "parent"
    BY <1>1 DEF Linking, Posting, Steps, Numbered, TypeInv, JobTyped, Admitted
  <2> QED BY <1>1, <1>2, <2>1, <2>2, TypeGo
<1> QED BY <1>3, <1>4

LEMMA TypeCommitByte ==
  ASSUME TypeInv, CommitByte
  PROVE  TypeInv'
<1> DEFINE j == [job EXCEPT !.done = job.done + 1]
<1>1. pc = "write" /\ UNCHANGED <<cur, store, exists, posts, acked>>
  BY DEF CommitByte, records
<1>2. exists' \in BOOLEAN /\ faults' \in 0..MaxFaults
  BY <1>1, BoundsAssumption DEF CommitByte, TypeInv, SetsTyped, RestTyped, Fault, NoFault
<1>3. txt' \in Seq(1..MaxPosts)
  <2>1. posts \in 1..MaxPosts
    BY <1>1, BoundsAssumption DEF TypeInv, SetsTyped, JobTyped, Posting, Steps
  <2>2. txt' = Append(txt, posts) \/ txt' = txt
    BY DEF CommitByte
  <2>3. txt \in Seq(1..MaxPosts)
    BY DEF TypeInv, RestTyped
  <2>4. Append(txt, posts) \in Seq(1..MaxPosts)
    BY <2>1, <2>3
  <2> QED BY <2>2, <2>3, <2>4
<1>4. CASE Return("failed")
  <2>1. SetsTyped'
    BY <1>1, <1>2 DEF TypeInv, SetsTyped
  <2>2. RepliesWithin(cur'.idx, posts') /\ RepliesWithin(store'.idx, posts')
    BY <1>1, RepliesKnown DEF TypeInv
  <2> QED BY <1>1, <1>2, <1>3, <1>4, <2>1, <2>2, ReturnTyped DEF TypeInv, RestTyped
<1>5. CASE ~ Return("failed")
  <2>1. PICK q \in {"id", "write"} : Go(q, j)
    BY <1>5 DEF CommitByte
  <2>2. pc \in Linking /\ q \in Posting /\ q \notin Numbered /\ job.b.count < MaxPerBoard
        /\ q # "count" /\ q # "parent"
    BY <1>1 DEF Linking, Posting, Steps, Numbered, TypeInv, JobTyped, Admitted
  <2>3. j \in Jobs /\ j.len = job.len /\ j.parent = job.parent /\ j.b = job.b
    BY DEF TypeInv, JobTyped, Jobs
  <2> HIDE DEF j
  <2> QED BY <1>1, <1>2, <1>3, <2>1, <2>2, <2>3, TypeGo
<1> QED BY <1>4, <1>5

LEMMA TypePostId ==
  ASSUME TypeInv, PostId
  PROVE  TypeInv'
<1>1. pc = "id" /\ UNCHANGED <<exists, txt, posts, acked>>
  BY DEF PostId, body
<1> DEFINE q == IF job.parent > 0 THEN "parent" ELSE "put"
<1>2. PICK n \in {1, Len(cur.idx) + 1} :
        Go(q, [job EXCEPT !.id = n, !.root = n]) /\ (ReadDone \/ ScanFails)
  BY DEF PostId
<1> DEFINE j == [job EXCEPT !.id = n, !.root = n]
<1>3. cur' = cur /\ store' \in {store, cur} /\ faults' \in 0..MaxFaults
  BY <1>2, Accessed, BoundsAssumption DEF TypeInv, SetsTyped
<1>4. n \in 1..(Len(cur.idx) + 1) /\ n \in 0..(MaxPerBoard + 1)
  <2>1. Len(cur.idx) \in Nat /\ Len(cur.idx) <= MaxPerBoard
    BY DEF TypeInv, SetsTyped, States, Index
  <2> QED BY <2>1, BoundsAssumption
<1>5. j \in Jobs /\ j.len = job.len /\ j.parent = job.parent /\ j.b = job.b /\ j.root = n /\ j.id = n
  BY <1>4 DEF TypeInv, JobTyped, Jobs
<1>6. pc \in Linking /\ q \in Posting /\ job.b.count < MaxPerBoard /\ q # "count"
  BY <1>1 DEF Linking, Posting, Steps, TypeInv, JobTyped, Admitted
<1>7. q = "parent" => j.parent # 0
  BY <1>5 DEF TypeInv, JobTyped, Jobs
<1>8. Go(q, j)
  BY <1>2
<1> HIDE DEF j, q
<1> QED BY <1>1, <1>3, <1>4, <1>5, <1>6, <1>7, <1>8, TypeGo DEF TypeInv, RestTyped

LEMMA TypePostParent ==
  ASSUME TypeInv, PostParent
  PROVE  TypeInv'
<1> DEFINE p == job.parent
           c == [cur EXCEPT !.idx[p].replies = @ + 1]
<1>1. pc = "parent" /\ UNCHANGED <<exists, txt, posts, acked>>
  BY DEF PostParent, body
<1>2. /\ p \in DOMAIN cur.idx /\ posts - 1 \in Nat /\ posts - 1 < MaxPosts /\ job \in Jobs
      /\ job.b.count < MaxPerBoard /\ job.len \in Lens /\ job.id \in 1..(Len(cur.idx) + 1)
      /\ job.root = job.id /\ cur \in States /\ store \in States /\ posts \in Nat
  BY <1>1, BoundsAssumption DEF TypeInv, JobTyped, SetsTyped, Posting, Steps, Admitted, Numbered
<1>3. /\ RepliesWithin(cur.idx, posts - 1) /\ RepliesWithin(store.idx, posts - 1)
      /\ RepliesWithin(cur.idx, posts) /\ RepliesWithin(store.idx, posts)
  BY <1>1, RepliesKnown DEF TypeInv, Linking, Posting, Steps
<1>4. c \in States /\ Len(c.idx) = Len(cur.idx) /\ RepliesWithin(c.idx, posts - 1 + 1)
  BY <1>2, <1>3, Replied DEF Alike
<1>5. posts - 1 + 1 = posts
  BY <1>2
<1>6. cur.idx[p].root \in 1..MaxPerBoard
  <2>1. cur.idx[p] \in Message
    BY <1>2 DEF States, Index
  <2> QED BY <2>1 DEF Message
<1>7. PICK r : (r = job.root \/ r \in 1..MaxPerBoard) /\ Go("put", [job EXCEPT !.root = r])
  <2>1. job = [job EXCEPT !.root = job.root]
    BY <1>2 DEF Jobs
  <2> QED BY <1>6, <2>1 DEF PostParent
<1> DEFINE j == [job EXCEPT !.root = r]
<1>8. /\ cur' \in {cur, c} /\ store' \in {store, cur, c} /\ faults' \in 0..MaxFaults
  <2>1. AccessFails \/ SaveDone(c) \/ SaveLost(c) \/ WriteFails
    BY DEF PostParent
  <2> HIDE DEF c
  <2> QED BY <2>1, Accessed, BoundsAssumption DEF TypeInv, SetsTyped
<1>9. j \in Jobs /\ j.len = job.len /\ j.parent = job.parent /\ j.b = job.b /\ j.root = r /\ j.id = job.id
  <2>1. /\ job.parent \in 0..MaxPerBoard /\ job.len \in Lens \cup {0} /\ job.b \in Board
        /\ job.rec \in 0..(MaxPerBoard + 1) /\ job.pruned \in 0..Batch
        /\ job.off \in 0..(OffMod - 1) /\ job.done \in Nat
        /\ job.id \in 0..(MaxPerBoard + 1) /\ job.root \in 0..(MaxPerBoard + 1)
    BY <1>2 DEF Jobs
  <2>2. r \in 0..(MaxPerBoard + 1)
    BY <1>7, <2>1, BoundsAssumption
  <2>3. j = [parent |-> job.parent, len |-> job.len, b |-> job.b, rec |-> job.rec,
             pruned |-> job.pruned, off |-> job.off, done |-> job.done, id |-> job.id,
             root |-> r]
    BY <1>2 DEF Jobs
  <2> HIDE DEF j
  <2> QED BY <2>1, <2>2, <2>3 DEF Jobs
<1>10. pc' = "put" /\ job' = j /\ UNCHANGED <<result, skewed>>
  BY <1>7 DEF Go
<1> HIDE DEF c, j, p
<1>11. Len(cur'.idx) = Len(cur.idx) /\ cur' \in States /\ store' \in States
       /\ RepliesWithin(cur'.idx, posts) /\ RepliesWithin(store'.idx, posts)
  BY <1>2, <1>3, <1>4, <1>5, <1>8
<1>12. DOMAIN cur'.idx = DOMAIN cur.idx
  BY <1>2, <1>11 DEF States, Index
<1>13. JobTyped'
  BY <1>1, <1>2, <1>7, <1>9, <1>10, <1>11, <1>12
  DEF TypeInv, JobTyped, Steps, Posting, Admitted, Numbered
<1>14. RepliesCounted'
  BY <1>1, <1>10, <1>11 DEF RepliesCounted, Linking, Posting, Steps
<1> QED BY <1>1, <1>8, <1>10, <1>11, <1>13, <1>14 DEF TypeInv, SetsTyped, RestTyped

\* The record that PostPut writes.
NewRecord == [off |-> job.off, len |-> job.len, del |-> FALSE, root |-> job.root,
              parent |-> job.parent, replies |-> 0, own |-> posts]

LEMMA NewRecordTyped ==
  ASSUME TypeInv, pc = "put", job.id <= MaxPerBoard
  PROVE  /\ NewRecord \in Message
         /\ NewRecord.replies = 0 /\ ~ NewRecord.del
<1>1. job \in Jobs /\ job.len \in Lens /\ posts \in 1..MaxPosts
  BY BoundsAssumption DEF TypeInv, JobTyped, SetsTyped, Posting, Steps
<1>2. job.id \in 1..MaxPerBoard /\ (job.root = job.id \/ job.root \in 1..MaxPerBoard)
  <2>1. job.id \in 1..(Len(cur.idx) + 1) /\ (job.root = job.id \/ job.root \in 1..MaxPerBoard)
    BY DEF TypeInv, JobTyped, Numbered
  <2>2. Len(cur.idx) \in Nat
    BY DEF TypeInv, SetsTyped, States, Index
  <2> QED BY <2>1, <2>2, BoundsAssumption
<1>3. job.root \in 1..MaxPerBoard
  BY <1>2
<1> QED BY <1>1, <1>3, BoundsAssumption DEF NewRecord, Message, Jobs

LEMMA TypePostPut ==
  ASSUME TypeInv, PostPut
  PROVE  TypeInv'
<1> DEFINE c == [cur EXCEPT !.idx = WithRecord(@, job.id, NewRecord)]
<1>1. pc = "put" /\ UNCHANGED <<exists, txt, posts, acked>> /\ UNCHANGED <<body, posts, acked>>
  BY DEF PostPut, body
<1>2. /\ job.id \in 1..(Len(cur.idx) + 1) /\ job \in Jobs /\ job.b.count < MaxPerBoard
      /\ job.len \in Lens /\ job.parent \in {0} \cup DOMAIN cur.idx /\ posts # 0
      /\ cur \in States /\ store \in States /\ posts \in Nat
  BY <1>1, BoundsAssumption DEF TypeInv, JobTyped, SetsTyped, Posting, Steps, Admitted, Numbered
<1>3. RepliesWithin(cur.idx, posts) /\ RepliesWithin(store.idx, posts)
  BY RepliesKnown DEF TypeInv
<1>4. CASE AccessFails /\ Return("failed")
  BY <1>1, <1>4, TypeFailed
<1>5. CASE job.id > MaxPerBoard /\ ReadDone /\ Return("full")
  <2>1. cur' = cur /\ store' = cur /\ faults' = faults
    BY <1>5, Accessed
  <2>2. SetsTyped'
    BY <1>1, <2>1 DEF TypeInv, SetsTyped
  <2> QED BY <1>1, <1>3, <1>5, <2>1, <2>2, ReturnTyped DEF TypeInv, RestTyped
<1>6. ASSUME job.id <= MaxPerBoard
      PROVE  c \in States /\ RepliesWithin(c.idx, posts) /\ Len(c.idx) \in Nat
             /\ DOMAIN cur.idx \subseteq DOMAIN c.idx
  <2>1. NewRecord \in Message /\ NewRecord.replies = 0 /\ ~ NewRecord.del
    BY <1>1, <1>6, NewRecordTyped
  <2> DEFINE t == WithRecord(cur.idx, job.id, NewRecord)
  <2>2. /\ t \in Index /\ DOMAIN cur.idx \subseteq DOMAIN t
        /\ \A n \in Nat : RepliesWithin(cur.idx, n) => RepliesWithin(t, n)
    <3>1. cur.idx \in Index
      BY <1>2 DEF States
    <3> HIDE DEF NewRecord
    <3> QED BY <1>2, <1>6, <2>1, <3>1, Written
  <2>3. c = [cur EXCEPT !.idx = t]
    OBVIOUS
  <2> HIDE DEF t, c
  <2>4. c \in States /\ c.idx = t
    BY <1>2, <2>2, <2>3, Reindexed
  <2>5. Len(t) \in Nat
    BY <2>2 DEF Index
  <2> QED BY <1>2, <1>3, <2>2, <2>4, <2>5
<1>7. CASE job.id <= MaxPerBoard /\ SaveDone(c) /\ Go("count", job)
  <2>1. c \in States /\ RepliesWithin(c.idx, posts) /\ DOMAIN cur.idx \subseteq DOMAIN c.idx
    BY <1>6, <1>7
  <2> HIDE DEF c
  <2>2. cur' = c /\ store' = c /\ faults' = faults
    BY <1>7, Accessed
  <2>3. pc' = "count" /\ job' = job /\ UNCHANGED <<result, skewed>>
    BY <1>7 DEF Go
  <2>4. SetsTyped'
    BY <1>1, <2>1, <2>2 DEF TypeInv, SetsTyped
  <2>5. job.id \in 1..MaxPerBoard
    BY <1>2, <1>7, BoundsAssumption DEF Jobs
  <2>6. JobTyped'
    BY <1>1, <1>2, <2>1, <2>2, <2>3, <2>5 DEF JobTyped, Steps, Posting, Admitted, Numbered
  <2>7. RepliesCounted'
    BY <1>1, <2>1, <2>2, <2>3 DEF RepliesCounted, Linking, Posting, Steps
  <2> QED BY <1>1, <2>3, <2>4, <2>6, <2>7 DEF TypeInv, RestTyped
<1>8. CASE job.id <= MaxPerBoard /\ SaveLost(c) /\ Return("failed")
  <2>1. c \in States /\ RepliesWithin(c.idx, posts)
    BY <1>6, <1>8
  <2> HIDE DEF c
  <2>2. cur' = c /\ store' = cur /\ faults' = faults + 1 /\ faults < MaxFaults
    BY <1>8, Accessed
  <2>3. SetsTyped'
    BY <1>1, <2>1, <2>2, BoundsAssumption DEF TypeInv, SetsTyped
  <2> QED BY <1>1, <1>3, <1>8, <2>1, <2>2, <2>3, ReturnTyped DEF TypeInv, RestTyped
<1> QED BY <1>4, <1>5, <1>7, <1>8 DEF PostPut, NewRecord

LEMMA TypePostCount ==
  ASSUME TypeInv, PostCount
  PROVE  TypeInv'
<1> DEFINE x == [count |-> job.b.count + 1, high |-> Max({job.b.high, job.id})]
           c == [cur EXCEPT !.board = x]
<1>1. pc = "count" /\ UNCHANGED <<exists, txt, posts>>
  BY DEF PostCount, body
<1>2. job \in Jobs /\ job.b \in Board /\ job.b.count < MaxPerBoard /\ job.id \in 1..MaxPerBoard
      /\ posts \in 1..MaxPosts /\ cur \in States /\ store \in States /\ acked \subseteq 1..MaxPosts
  BY <1>1, BoundsAssumption DEF TypeInv, JobTyped, SetsTyped, RestTyped, Jobs, Posting, Steps, Admitted
<1>3. x \in Board
  <2>1. job.b.high \in 0..MaxPerBoard /\ job.b.count \in 0..MaxPerBoard
    BY <1>2 DEF Board
  <2>2. Max({job.b.high, job.id}) \in 0..MaxPerBoard
    <3>1. job.b.high \in Int /\ job.id \in Int
      BY <1>2, <2>1
    <3>2. Max({job.b.high, job.id}) = IF job.b.high < job.id THEN job.id ELSE job.b.high
      BY <3>1, MaxOfTwo
    <3> QED BY <1>2, <2>1, <3>2, BoundsAssumption
  <2>3. job.b.count + 1 \in 0..MaxPerBoard
    BY <1>2, <2>1, BoundsAssumption
  <2> QED BY <2>2, <2>3 DEF Board
<1> HIDE DEF x
<1>4. c \in States /\ c.idx = cur.idx
  BY <1>2, <1>3, Recorded
<1>5. (SaveDone(c) \/ SaveLost(c) \/ AccessFails) /\ acked' \in {acked, acked \cup {posts}}
      /\ \E res \in {"ok", "failed", "full"} : Return(res)
  BY DEF PostCount, x
<1> HIDE DEF c
<1>6. cur' \in {cur, c} /\ store' \in {store, cur, c} /\ faults' \in 0..MaxFaults
  BY <1>5, Accessed, BoundsAssumption DEF TypeInv, SetsTyped
<1>7. SetsTyped'
  BY <1>1, <1>2, <1>4, <1>6 DEF TypeInv, SetsTyped
<1>8. RepliesWithin(cur'.idx, posts') /\ RepliesWithin(store'.idx, posts')
  BY <1>1, <1>4, <1>6, RepliesKnown DEF TypeInv
<1>9. acked' \subseteq 1..MaxPosts
  BY <1>2, <1>5
<1> QED BY <1>1, <1>5, <1>7, <1>8, <1>9, ReturnTyped DEF TypeInv, RestTyped

LEMMA TypeMsgDelete ==
  ASSUME TypeInv, NEW i \in 1..MaxPerBoard, MsgDelete(i)
  PROVE  TypeInv'
<1> DEFINE c == [cur EXCEPT !.idx[i].del = TRUE]
<1>1. pc = "idle" /\ i \in DOMAIN cur.idx /\ UNCHANGED <<exists, txt, posts, acked>>
  BY DEF MsgDelete, body
<1>2. cur \in States /\ store \in States
  BY DEF TypeInv, SetsTyped
<1>3. RepliesWithin(cur.idx, posts) /\ RepliesWithin(store.idx, posts)
  BY RepliesKnown DEF TypeInv
<1>4. c \in States /\ RepliesWithin(c.idx, posts)
  BY <1>1, <1>2, <1>3, Marked
<1>5. /\ ReadDone \/ SaveDone(c) \/ SaveLost(c) \/ WriteFails \/ AccessFails
      /\ (\E res \in {"ok", "failed", "full"} : Return(res)) \/ Go("uncount", NoJob)
  BY DEF MsgDelete
<1> HIDE DEF c
<1>6. cur' \in {cur, c} /\ store' \in {store, cur, c} /\ faults' \in 0..MaxFaults
  BY <1>5, Accessed, BoundsAssumption DEF TypeInv, SetsTyped
<1>7. SetsTyped'
  BY <1>1, <1>2, <1>4, <1>6 DEF TypeInv, SetsTyped
<1>8. RepliesWithin(cur'.idx, posts') /\ RepliesWithin(store'.idx, posts')
  BY <1>1, <1>3, <1>4, <1>6
<1>9. CASE \E res \in {"ok", "failed", "full"} : Return(res)
  BY <1>1, <1>7, <1>8, <1>9, ReturnTyped DEF TypeInv, RestTyped
<1>10. CASE Go("uncount", NoJob)
  <2>1. pc' = "uncount" /\ job' = NoJob /\ UNCHANGED <<result, skewed>>
    BY <1>10 DEF Go
  <2>2. JobTyped'
    BY <2>1, NoJobTyped DEF JobTyped, Steps, Posting, Admitted, Numbered
  <2>3. RepliesCounted'
    BY <1>8, <2>1 DEF RepliesCounted, Linking, Posting, Steps
  <2> QED BY <1>1, <1>7, <2>1, <2>2, <2>3 DEF TypeInv, RestTyped
<1> QED BY <1>5, <1>9, <1>10

LEMMA TypeDeleteUncount ==
  ASSUME TypeInv, DeleteUncount
  PROVE  TypeInv'
<1> DEFINE c == [cur EXCEPT !.board.count = IF @ > 0 THEN @ - 1 ELSE 0]
<1>1. UNCHANGED <<exists, txt, posts, acked>>
  BY DEF DeleteUncount, body
<1>2. cur \in States /\ store \in States
  BY DEF TypeInv, SetsTyped
<1>3. c \in States /\ c.idx = cur.idx
  BY <1>2, CountedDown
<1>4. /\ SaveDone(c) \/ SaveLost(c) \/ WriteFails \/ AccessFails
      /\ \E res \in {"ok", "failed", "full"} : Return(res)
  BY DEF DeleteUncount
<1> HIDE DEF c
<1>5. cur' \in {cur, c} /\ store' \in {store, cur, c} /\ faults' \in 0..MaxFaults
  BY <1>4, Accessed, BoundsAssumption DEF TypeInv, SetsTyped
<1>6. SetsTyped'
  BY <1>1, <1>2, <1>3, <1>5 DEF TypeInv, SetsTyped
<1>7. RepliesWithin(cur'.idx, posts') /\ RepliesWithin(store'.idx, posts')
  BY <1>1, <1>3, <1>5, RepliesKnown DEF TypeInv
<1> QED BY <1>1, <1>4, <1>6, <1>7, ReturnTyped DEF TypeInv, RestTyped

LEMMA TypeOtherAccess ==
  ASSUME TypeInv, OtherAccess
  PROVE  TypeInv'
<1>1. /\ pc = "idle" /\ cur' = cur /\ store' = cur /\ faults' = faults
      /\ UNCHANGED <<exists, txt, pc, job, result, posts, acked, skewed>>
  BY Accessed DEF OtherAccess, body, history
<1>2. RepliesCounted'
  BY <1>1, RepliesStay DEF TypeInv, Linking, Posting, Steps
<1> QED BY <1>1, <1>2 DEF TypeInv, SetsTyped, JobTyped, RestTyped

LEMMA TypeCrash ==
  ASSUME TypeInv, Crash
  PROVE  TypeInv'
<1>1. /\ cur' = store /\ store' = store /\ pc' = "idle" /\ job' = NoJob /\ result' = "none"
      /\ UNCHANGED <<exists, txt, posts, acked>> /\ skewed' \in BOOLEAN
  BY DEF Crash, body
<1>2. faults' = faults \/ (faults < MaxFaults /\ faults' = faults + 1)
  BY DEF Crash, Fault, NoFault
<1>3. SetsTyped'
  BY <1>1, <1>2, BoundsAssumption DEF TypeInv, SetsTyped
<1>4. JobTyped'
  BY <1>1, NoJobTyped DEF JobTyped, Steps, Posting, Admitted, Numbered
<1>5. RepliesCounted'
  BY <1>1, RepliesKnown DEF TypeInv, RepliesCounted, Linking, Posting, Steps
<1> QED BY <1>1, <1>3, <1>4, <1>5 DEF TypeInv, RestTyped

LEMMA TypeStutter ==
  ASSUME TypeInv, UNCHANGED vars
  PROVE  TypeInv'
<1>1. UNCHANGED <<cur, store, exists, txt, pc, job, result, posts, acked, faults, skewed>>
  BY DEF vars, records, body
<1> QED BY <1>1 DEF TypeInv, SetsTyped, JobTyped, RepliesCounted, RestTyped

LEMMA TypeStep == TypeInv /\ [Next]_vars => TypeInv'
<1> SUFFICES ASSUME TypeInv, [Next]_vars
             PROVE  TypeInv'
  OBVIOUS
<1>1. ASSUME NEW parent \in {0} \cup DOMAIN cur.idx, NEW len \in Lens, MsgPost(parent, len)
      PROVE  TypeInv'
  BY <1>1, TypeMsgPost
<1>2. ASSUME NEW i \in 1..MaxPerBoard, MsgDelete(i)
      PROVE  TypeInv'
  BY <1>2, TypeMsgDelete
<1> QED
  BY <1>1, <1>2, TypePostBoard, TypePruneRecord, TypePruneSave, TypePostReload, TypePostEof,
     TypeCommitOpen, TypeCommitByte, TypePostId, TypePostParent, TypePostPut, TypePostCount,
     TypeDeleteUncount, TypeOtherAccess, TypeCrash, TypeStutter
  DEF Next

LEMMA TypeAlways == Spec => []TypeInv
BY TypeInit, TypeStep, PTL DEF Spec

\* The index never outgrows its region, the counters stay within the board and
\* the replies of a message within the posts: every variable has its type.
THEOREM TypeCorrect == Spec => []TypeOK
<1>1. TypeInv => TypeOK
  BY DEF TypeInv, SetsTyped, JobTyped, RestTyped, TypeOK, States, Steps, Jobs
<1> QED BY <1>1, TypeAlways, PTL

-----------------------------------------------------------------------------
(* CountInv. *)

\* Without a failure every access did what it was to do.
LEMMA Faultless ==
  ASSUME TypeInv, faults' = 0
  PROVE  /\ ~ AccessFails /\ ~ ScanFails /\ ~ WriteFails /\ ~ Fault
         /\ \A c : ~ SaveLost(c)
<1>1. faults \in Nat
  BY BoundsAssumption DEF TypeInv, SetsTyped
<1>2. ~ Fault
  BY <1>1 DEF Fault
<1> QED BY <1>2 DEF AccessFails, ScanFails, WriteFails, SaveLost, Fails

LEMMA CountsTyped ==
  ASSUME TypeInv
  PROVE  /\ LiveNow \in Nat /\ Len(cur.idx) \in Nat /\ IsFiniteSet(Live(cur.idx))
         /\ Len(cur.idx) <= MaxPerBoard /\ Live(cur.idx) \subseteq 1..Len(cur.idx)
         /\ cur.board.count \in Nat /\ cur.board.high \in Nat
         /\ job.b.count \in Nat /\ job.b.high \in Nat /\ job.id \in Nat /\ job.rec \in Nat
         /\ job.pruned \in Nat /\ DOMAIN cur.idx = 1..Len(cur.idx)
<1>1. cur.idx \in Index /\ cur.board \in Board /\ job \in Jobs
  BY DEF TypeInv, SetsTyped, JobTyped, States
<1>2. LiveNow \in Nat /\ IsFiniteSet(Live(cur.idx)) /\ Live(cur.idx) \subseteq 1..Len(cur.idx)
  BY <1>1, LiveFinite DEF LiveNow
<1>3. Len(cur.idx) \in Nat /\ Len(cur.idx) <= MaxPerBoard /\ DOMAIN cur.idx = 1..Len(cur.idx)
  BY <1>1 DEF Index
<1>4. cur.board.count \in Nat /\ cur.board.high \in Nat
  BY <1>1, BoundsAssumption DEF Board
<1>5. job.b \in Board /\ job.id \in Nat /\ job.rec \in Nat /\ job.pruned \in Nat
  BY <1>1, BoundsAssumption DEF Jobs
<1>6. job.b.count \in Nat /\ job.b.high \in Nat
  BY <1>5, BoundsAssumption DEF Board
<1> QED BY <1>2, <1>3, <1>4, <1>5, <1>6

\* A call has returned.
LEMMA CountsIdle ==
  ASSUME pc' = "idle", store' = cur', LiveNow' <= Limit, Counted(cur'.board, cur'.idx)
  PROVE  CountsAt'
BY DEF CountsAt, Admitted, Numbered

LEMMA CountInit == Init => CountInv
<1> SUFFICES ASSUME Init PROVE CountsAt
  BY DEF CountInv
<1>1. cur.idx = << >> /\ store = cur /\ pc = "idle" /\ cur.board.count = 0 /\ cur.board.high = 0
  BY DEF Init, NoBoard
<1>2. Live(cur.idx) = {}
  BY <1>1 DEF Live
<1>3. LiveNow = 0
  BY <1>2, FS_EmptySet DEF LiveNow
<1>4. Counted(cur.board, cur.idx)
  BY <1>1, <1>3 DEF Counted, LiveNow
<1> QED BY <1>1, <1>3, <1>4, BoundsAssumption DEF CountsAt, Admitted, Numbered

LEMMA CountMsgPost ==
  ASSUME TypeInv, CountsAt, NEW parent, NEW len, MsgPost(parent, len)
  PROVE  CountsAt'
<1>1. pc = "idle" /\ pc' = "board" /\ UNCHANGED <<cur, store>> /\ job'.pruned = 0
  BY DEF MsgPost, Go, records, NoJob
<1> QED BY <1>1 DEF CountsAt, LiveNow, Admitted, Numbered

LEMMA CountAdmit ==
  ASSUME TypeInv, CountsAt, pc \in {"board", "reload"}, LiveNow < Limit, ReadDone, Admit(cur.board)
  PROVE  CountsAt'
<1>1. cur' = cur /\ store' = cur
  BY Accessed
<1>2. Counted(cur.board, cur.idx) /\ LiveNow' = LiveNow
  BY <1>1 DEF CountsAt, LiveNow
<1>3. CASE Return("full")
  <2>1. pc' = "idle"
    BY <1>3 DEF Return
  <2> QED BY <1>1, <1>2, <2>1, CountsIdle DEF CountsAt
<1>4. CASE Go("eof", [job EXCEPT !.b = cur.board])
  <2>1. pc' = "eof" /\ job'.b = cur.board
    BY <1>4 DEF Go, TypeInv, JobTyped, Jobs
  <2> QED BY <1>1, <1>2, <2>1 DEF CountsAt, LiveNow, Admitted, Numbered
<1> QED BY <1>3, <1>4 DEF Admit

LEMMA CountPostBoard ==
  ASSUME TypeInv, CountsAt, faults' = 0, PostBoard
  PROVE  CountsAt'
<1>1. pc = "board" /\ ReadDone
  BY Faultless DEF PostBoard
<1>2. Counted(cur.board, cur.idx)
  BY <1>1 DEF CountsAt
<1>3. CASE cur.board.count >= Limit
  <2>1. Go("prune", [job EXCEPT !.b = cur.board, !.rec = 1])
    BY <1>3, Faultless DEF PostBoard
  <2>2. pc' = "prune" /\ job'.b = cur.board /\ job'.rec = 1 /\ job'.pruned = job.pruned
    BY <2>1 DEF Go, TypeInv, JobTyped, Jobs
  <2>3. cur' = cur /\ store' = cur
    BY <1>1, Accessed
  <2>4. \A i \in Live(cur.idx) : 1 <= i
    BY CountsTyped
  <2>5. job.pruned = 0
    BY <1>1 DEF CountsAt
  <2> QED BY <1>2, <2>2, <2>3, <2>4, <2>5 DEF CountsAt, LiveNow, Admitted, Numbered
<1>4. CASE ~ (cur.board.count >= Limit)
  <2>1. Admit(cur.board)
    BY <1>4, Faultless DEF PostBoard
  <2>2. LiveNow < Limit
    BY <1>2, <1>4, CountsTyped, BoundsAssumption DEF Counted, LiveNow
  <2> QED BY <1>1, <2>1, <2>2, CountAdmit
<1> QED BY <1>3, <1>4

LEMMA CountPruneRecord ==
  ASSUME TypeInv, CountsAt, faults' = 0, PruneRecord
  PROVE  CountsAt'
<1> DEFINE i == job.rec
           c == [cur EXCEPT !.idx[i].del = TRUE]
           go == [job EXCEPT !.rec = @ + 1]
           less == [go EXCEPT !.pruned = @ + 1, !.b.count = IF @ > 0 THEN @ - 1 ELSE 0]
<1>1. pc = "prune" /\ job \in Jobs /\ job.b \in Board /\ cur \in States
  BY DEF PruneRecord, TypeInv, JobTyped, SetsTyped, Jobs
<1>2. Counted(job.b, cur.idx) /\ (\A j \in Live(cur.idx) : job.rec <= j) /\ LiveNow <= Limit
  BY <1>1 DEF CountsAt
<1>3. go.rec = job.rec + 1 /\ go.b = job.b /\ go.pruned = job.pruned
  BY <1>1 DEF Jobs
<1>4. CASE i \notin Live(cur.idx) /\ ReadDone /\ Go("prune", go)
  <2>1. cur' = cur /\ store' = cur /\ pc' = "prune" /\ job' = go
    BY <1>4, Accessed DEF Go
  <2>2. \A j \in Live(cur.idx) : job.rec + 1 <= j
    BY <1>2, <1>4, CountsTyped
  <2> HIDE DEF go
  <2>3. job'.rec = job.rec + 1 /\ job'.b = job.b /\ job'.pruned = job.pruned
    BY <1>3, <2>1
  <2> QED BY <1>1, <1>2, <2>1, <2>2, <2>3 DEF CountsAt, LiveNow, Admitted, Numbered
<1>5. CASE i \in Live(cur.idx) /\ SaveDone(c) /\ Go("prune", less)
  <2>1. cur' = c /\ store' = c
    <3> HIDE DEF c
    <3> QED BY <1>5, Accessed
  <2>2. pc' = "prune" /\ job' = less
    BY <1>5 DEF Go
  <2>3. less.rec = job.rec + 1 /\ less.b.high = job.b.high
        /\ less.b.count = IF job.b.count > 0 THEN job.b.count - 1 ELSE 0
    <3>2. go.b = job.b /\ DOMAIN go = DOMAIN job
      BY <1>1, <1>3 DEF Jobs
    <3>3. "rec" \in DOMAIN go /\ "b" \in DOMAIN go /\ "pruned" \in DOMAIN go
          /\ "count" \in DOMAIN job.b /\ "high" \in DOMAIN job.b
      BY <1>1, <3>2 DEF Jobs, Board
    <3> HIDE DEF go
    <3> QED BY <1>3, <3>2, <3>3
  <2>4. i \in DOMAIN cur.idx
    BY <1>5 DEF Live
  <2>5. c.idx \in Index /\ Len(c.idx) = Len(cur.idx) /\ Live(c.idx) = Live(cur.idx) \ {i}
    BY <1>1, <2>4, Marked DEF Alike, States
  <2> HIDE DEF c, less
  <2>6. Cardinality(Live(c.idx)) = LiveNow - 1 /\ LiveNow >= 1
    <3>1. Cardinality(Live(c.idx)) = LiveNow - 1
      BY ZenonT(30), <1>5, <2>5, CountsTyped, FS_RemoveElement DEF LiveNow
    <3>2. Cardinality(Live(c.idx)) \in Nat
      BY <2>5, LiveFinite
    <3> QED BY <3>1, <3>2, CountsTyped
  <2>7. Counted(job'.b, cur'.idx)
    BY <1>2, <2>1, <2>2, <2>3, <2>5, <2>6, CountsTyped DEF Counted, LiveNow
  <2>8. \A j \in Live(cur'.idx) : job'.rec <= j
    BY <1>2, <2>1, <2>2, <2>3, <2>5, CountsTyped
  <2>9. LiveNow' < Limit /\ LiveNow' <= Limit
    BY <1>2, <2>1, <2>6, CountsTyped, BoundsAssumption DEF LiveNow
  <2> QED BY <2>1, <2>2, <2>7, <2>8, <2>9, BoundsAssumption DEF CountsAt, Admitted, Numbered, LiveNow
<1> QED BY <1>4, <1>5, Faultless DEF PruneRecord

LEMMA CountPruneSave ==
  ASSUME TypeInv, CountsAt, faults' = 0, PruneSave
  PROVE  CountsAt'
<1> DEFINE c == [cur EXCEPT !.board = job.b]
<1>1. pc = "prune" /\ SaveDone(c) /\ Go("reload", job)
      /\ ~ (job.rec <= MaxPerBoard /\ job.pruned < Batch)
  BY Faultless DEF PruneSave
<1>2. c.idx = cur.idx /\ c.board = job.b
  BY Recorded DEF TypeInv, SetsTyped, JobTyped, Jobs
<1>3. cur' = c /\ store' = c /\ pc' = "reload"
  <2> HIDE DEF c
  <2> QED BY <1>1, Accessed DEF Go
<1>4. /\ Counted(job.b, cur.idx) /\ \A i \in Live(cur.idx) : job.rec <= i
      /\ job.pruned # 0 => LiveNow < Limit
  BY <1>1 DEF CountsAt
<1>5. LiveNow < Limit
  <2>1. CASE job.pruned # 0
    BY <1>4, <2>1
  <2>2. CASE job.pruned = 0
    <3>1. job.rec > MaxPerBoard
      BY <1>1, <2>2, CountsTyped, BoundsAssumption
    <3>2. Live(cur.idx) = {}
      BY <1>4, <3>1, CountsTyped, BoundsAssumption
    <3> QED BY <3>2, FS_EmptySet, BoundsAssumption DEF LiveNow
  <2> QED BY <2>1, <2>2
<1> HIDE DEF c
<1> QED BY <1>2, <1>3, <1>4, <1>5, CountsTyped, BoundsAssumption DEF CountsAt, LiveNow, Admitted, Numbered

LEMMA CountPostReload ==
  ASSUME TypeInv, CountsAt, faults' = 0, PostReload
  PROVE  CountsAt'
<1>1. pc = "reload" /\ ReadDone /\ Admit(cur.board)
  BY Faultless DEF PostReload
<1> QED BY <1>1, CountAdmit DEF CountsAt

\* From admission until the new record is written nothing that is counted changes.
LEMMA CountGo ==
  ASSUME TypeInv, CountsAt, pc \in Admitted \ {"count"},
         NEW q \in Admitted \ {"count"}, NEW j, Go(q, j), j.b = job.b,
         store' = cur', cur'.board = cur.board, Len(cur'.idx) = Len(cur.idx),
         Live(cur'.idx) = Live(cur.idx),
         q \in Numbered => j.id = Len(cur.idx) + 1
  PROVE  CountsAt'
<1>1. pc' = q /\ job' = j
  BY DEF Go
<1>2. LiveNow' = LiveNow /\ Counted(job.b, cur.idx) /\ cur.board = job.b /\ LiveNow < Limit /\ LiveNow <= Limit
  BY DEF CountsAt, LiveNow
<1>3. Counted(job'.b, cur'.idx)
  BY <1>1, <1>2 DEF Counted
<1> QED BY <1>1, <1>2, <1>3 DEF CountsAt, Admitted, Numbered

LEMMA CountFail ==
  ASSUME TypeInv, CountsAt, NEW res, Return(res), cur' = cur, store' = cur,
         Counted(cur.board, cur.idx)
  PROVE  CountsAt'
<1>1. pc' = "idle" /\ LiveNow' = LiveNow /\ LiveNow <= Limit
  BY DEF Return, CountsAt, LiveNow
<1> QED BY <1>1, CountsIdle

LEMMA CountPostEof ==
  ASSUME TypeInv, CountsAt, faults' = 0, PostEof
  PROVE  CountsAt'
<1> DEFINE j == [job EXCEPT !.off = Eof(cur.idx)]
<1>1. pc = "eof" /\ ReadDone /\ Go("commit", j)
  BY Faultless DEF PostEof
<1>2. j.b = job.b /\ cur' = cur /\ store' = cur
  BY <1>1, Accessed DEF TypeInv, JobTyped, Jobs
<1> HIDE DEF j
<1> QED BY <1>1, <1>2, CountGo DEF Admitted, Numbered

LEMMA CountCommit ==
  ASSUME TypeInv, CountsAt, faults' = 0, CommitOpen \/ CommitByte
  PROVE  CountsAt'
<1>1. pc \in {"commit", "write"} /\ cur' = cur /\ store' = store /\ store = cur
  BY DEF CommitOpen, CommitByte, records, CountsAt
<1>2. CASE \E res \in {"failed"} : Return(res)
  BY <1>1, <1>2, CountFail DEF CountsAt, Admitted, Counted
<1>3. CASE ~ Return("failed")
  <2>1. PICK q \in {"id", "write"}, j \in {job, [job EXCEPT !.done = job.done + 1]} : Go(q, j)
    BY <1>3 DEF CommitOpen, CommitByte
  <2>2. j.b = job.b
    BY <2>1 DEF TypeInv, JobTyped, Jobs
  <2> QED BY <1>1, <2>1, <2>2, CountGo DEF Admitted, Numbered
<1> QED BY <1>2, <1>3

LEMMA CountPostId ==
  ASSUME TypeInv, CountsAt, faults' = 0, PostId
  PROVE  CountsAt'
<1> DEFINE n == Len(cur.idx) + 1
           j == [job EXCEPT !.id = n, !.root = n]
<1>1. pc = "id" /\ ReadDone /\ \E q \in {"parent", "put"} : Go(q, j)
  BY Faultless DEF PostId
<1>2. j.b = job.b /\ j.id = n /\ cur' = cur /\ store' = cur
  BY <1>1, Accessed DEF TypeInv, JobTyped, Jobs
<1> HIDE DEF j
<1> QED BY <1>1, <1>2, CountGo DEF Admitted, Numbered

LEMMA CountPostParent ==
  ASSUME TypeInv, CountsAt, faults' = 0, PostParent
  PROVE  CountsAt'
<1> DEFINE p == job.parent
           c == [cur EXCEPT !.idx[p].replies = @ + 1]
           j == [job EXCEPT !.root = cur.idx[p].root]
<1>1. pc = "parent" /\ SaveDone(c) /\ Go("put", j)
  BY Faultless DEF PostParent
<1>2. p \in DOMAIN cur.idx /\ posts - 1 \in Nat /\ posts - 1 < MaxPosts /\ cur \in States
      /\ RepliesWithin(cur.idx, posts - 1)
  BY <1>1, RepliesKnown, BoundsAssumption
  DEF TypeInv, JobTyped, SetsTyped, Posting, Linking, Steps
<1>3. c.board = cur.board /\ Len(c.idx) = Len(cur.idx) /\ Live(c.idx) = Live(cur.idx)
  BY <1>2, Replied DEF Alike
<1>4. j.b = job.b /\ j.id = job.id
  BY DEF TypeInv, JobTyped, Jobs
<1> HIDE DEF c, j
<1>5. cur' = c /\ store' = c
  BY <1>1, Accessed
<1>6. job.id = Len(cur.idx) + 1
  BY <1>1 DEF CountsAt, Numbered
<1> QED BY <1>1, <1>3, <1>4, <1>5, <1>6, CountGo DEF Admitted, Numbered

LEMMA CountPostPut ==
  ASSUME TypeInv, CountsAt, faults' = 0, PostPut
  PROVE  CountsAt'
<1> DEFINE c == [cur EXCEPT !.idx = WithRecord(@, job.id, NewRecord)]
<1>1. pc = "put" /\ cur \in States
  BY DEF PostPut, TypeInv, SetsTyped
<1>2. /\ Counted(job.b, cur.idx) /\ cur.board = job.b /\ LiveNow < Limit
      /\ job.id = Len(cur.idx) + 1 /\ job.id \in 1..(Len(cur.idx) + 1)
  BY <1>1 DEF CountsAt, Admitted, Numbered, TypeInv, JobTyped
<1>3. CASE ReadDone /\ Return("full")
  BY <1>2, <1>3, Accessed, CountFail
<1>4. CASE job.id <= MaxPerBoard /\ SaveDone(c) /\ Go("count", job)
  <2>1. NewRecord \in Message /\ NewRecord.replies = 0 /\ ~ NewRecord.del
    BY <1>1, <1>4, NewRecordTyped
  <2>2. Len(c.idx) = job.id /\ Live(c.idx) = Live(cur.idx) \cup {job.id} /\ job.id \notin Live(cur.idx)
    <3> DEFINE t == WithRecord(cur.idx, job.id, NewRecord)
    <3>1. cur.idx \in Index
      BY <1>1 DEF States
    <3>2. /\ t \in Index /\ Len(t) = job.id
          /\ Live(t) = Live(cur.idx) \cup {job.id} /\ job.id \notin Live(cur.idx)
      <4>1. job.id \in 1..(Len(cur.idx) + 1) /\ job.id = Len(cur.idx) + 1 /\ job.id <= MaxPerBoard
        BY <1>2, <1>4
      <4> HIDE DEF NewRecord, c
      <4> QED BY <4>1, <2>1, <3>1, Appended
    <3>3. c = [cur EXCEPT !.idx = t]
      OBVIOUS
    <3> HIDE DEF t, c
    <3>4. c.idx = t
      BY <1>1, <3>2, <3>3, Reindexed
    <3> QED BY <3>2, <3>4
  <2> HIDE DEF c
  <2>3. cur' = c /\ store' = c /\ pc' = "count" /\ job' = job
    BY <1>4, Accessed DEF Go
  <2>4. LiveNow' = LiveNow + 1
    BY <2>2, <2>3, CountsTyped, FS_AddElement DEF LiveNow
  <2>5. LiveNow' <= Limit
    BY <1>2, <2>4, CountsTyped, BoundsAssumption
  <2>6. job.b.count = LiveNow /\ job.b.high = Len(cur.idx)
    BY <1>2 DEF Counted, LiveNow
  <2>7. LiveNow' = job'.b.count + 1 /\ Len(cur'.idx) = job'.b.high + 1 /\ job'.id = Len(cur'.idx)
    BY <1>2, <2>2, <2>3, <2>4, <2>6
  <2> QED BY <2>3, <2>5, <2>7 DEF CountsAt, Admitted, Numbered
<1> QED BY <1>3, <1>4, Faultless DEF PostPut, NewRecord

LEMMA CountPostCount ==
  ASSUME TypeInv, CountsAt, faults' = 0, PostCount
  PROVE  CountsAt'
<1> DEFINE x == [count |-> job.b.count + 1, high |-> Max({job.b.high, job.id})]
           c == [cur EXCEPT !.board = x]
<1>1. pc = "count" /\ SaveDone(c) /\ Return("ok")
  BY Faultless DEF PostCount
<1>2. /\ LiveNow = job.b.count + 1 /\ Len(cur.idx) = job.b.high + 1 /\ job.id = Len(cur.idx)
      /\ LiveNow <= Limit
  BY <1>1 DEF CountsAt
<1>3. x.count = LiveNow /\ x.high = Len(cur.idx)
  <2>1. job.b.high \in Int /\ job.id \in Int /\ job.b.high < job.id
    BY <1>2, CountsTyped
  <2>2. Max({job.b.high, job.id}) = job.id
    BY <2>1, MaxOfTwo
  <2> QED BY <1>2, <2>2
<1>4. c.idx = cur.idx /\ c.board = x
  BY DEF TypeInv, SetsTyped, States
<1> HIDE DEF c, x
<1>5. cur' = c /\ store' = c /\ pc' = "idle"
  BY <1>1, Accessed, Returned
<1> QED BY <1>2, <1>3, <1>4, <1>5, CountsIdle DEF Counted, LiveNow

LEMMA CountMsgDelete ==
  ASSUME TypeInv, CountsAt, faults' = 0, NEW i, MsgDelete(i)
  PROVE  CountsAt'
<1> DEFINE c == [cur EXCEPT !.idx[i].del = TRUE]
<1>1. pc = "idle" /\ i \in DOMAIN cur.idx /\ cur \in States
  BY DEF MsgDelete, TypeInv, SetsTyped
<1>2. Counted(cur.board, cur.idx) /\ LiveNow <= Limit
  BY <1>1 DEF CountsAt
<1>3. CASE ReadDone /\ Return("ok")
  BY <1>2, <1>3, Accessed, CountFail
<1>4. CASE i \in Live(cur.idx) /\ SaveDone(c) /\ Go("uncount", NoJob)
  <2>1. /\ c.idx \in Index /\ c.board = cur.board /\ Len(c.idx) = Len(cur.idx)
        /\ Live(c.idx) = Live(cur.idx) \ {i}
    BY <1>1, Marked DEF Alike, States
  <2> HIDE DEF c
  <2>2. cur' = c /\ store' = c /\ pc' = "uncount"
    BY <1>4, Accessed DEF Go
  <2>3. Cardinality(Live(c.idx)) = LiveNow - 1
    BY ZenonT(30), <1>4, <2>1, CountsTyped, FS_RemoveElement DEF LiveNow
  <2>4. Cardinality(Live(c.idx)) \in Nat
    BY <2>1, LiveFinite
  <2>5. LiveNow' = LiveNow - 1 /\ LiveNow' \in Nat
    BY <2>2, <2>3, <2>4 DEF LiveNow
  <2>6. cur'.board.count = LiveNow' + 1 /\ cur'.board.high = Len(cur'.idx) /\ LiveNow' <= Limit
    BY <1>2, <2>1, <2>2, <2>5, CountsTyped, BoundsAssumption DEF Counted, LiveNow
  <2> QED BY <2>2, <2>6 DEF CountsAt, Admitted, Numbered
<1> QED BY <1>3, <1>4, Faultless DEF MsgDelete

LEMMA CountDeleteUncount ==
  ASSUME TypeInv, CountsAt, faults' = 0, DeleteUncount
  PROVE  CountsAt'
<1> DEFINE c == [cur EXCEPT !.board.count = IF @ > 0 THEN @ - 1 ELSE 0]
<1>1. pc = "uncount" /\ SaveDone(c) /\ Return("ok") /\ cur \in States
  BY Faultless DEF DeleteUncount, TypeInv, SetsTyped
<1>2. cur.board.count = LiveNow + 1 /\ cur.board.high = Len(cur.idx) /\ LiveNow <= Limit
  BY <1>1 DEF CountsAt
<1>3. c.idx = cur.idx /\ c.board.high = cur.board.high
      /\ c.board.count = IF cur.board.count > 0 THEN cur.board.count - 1 ELSE 0
  BY <1>1, CountedDown
<1> HIDE DEF c
<1>4. cur' = c /\ store' = c /\ pc' = "idle"
  BY <1>1, Accessed, Returned
<1>5. c.board.count = LiveNow
  BY <1>2, <1>3, CountsTyped
<1> QED BY <1>2, <1>3, <1>4, <1>5, CountsIdle DEF Counted, LiveNow

LEMMA CountOthers ==
  ASSUME TypeInv, CountsAt, faults' = 0, OtherAccess \/ Crash \/ UNCHANGED vars
  PROVE  CountsAt'
<1>1. CASE OtherAccess
  BY <1>1 DEF OtherAccess, CountsAt
<1>2. CASE Crash
  <2>1. cur' = store /\ store' = store /\ pc' = "idle" /\ pc = "idle"
    BY <1>2, Faultless DEF Crash
  <2> QED BY <2>1, CountsIdle DEF CountsAt, LiveNow
<1>3. CASE UNCHANGED vars
  BY <1>3 DEF vars, records, CountsAt, LiveNow
<1> QED BY <1>1, <1>2, <1>3

\* Failures are never forgotten.
LEMMA FaultsGrow ==
  ASSUME [Next]_vars
  PROVE  faults' = faults \/ faults' = faults + 1
<1> DEFINE G == faults' = faults \/ faults' = faults + 1
<1>1. ReadDone \/ AccessFails \/ ScanFails \/ WriteFails \/ Fault \/ NoFault => G
  BY Accessed DEF Fault, NoFault
<1>2. \A c : SaveDone(c) \/ SaveLost(c) => G
  BY Accessed
<1> HIDE DEF G
<1>3. (\E parent \in {0} \cup DOMAIN cur.idx, len \in Lens : MsgPost(parent, len)) => G
  BY DEF MsgPost, G
<1>4. PostBoard \/ PruneRecord => G
  BY <1>1, <1>2 DEF PostBoard, PruneRecord
<1>5. PruneSave \/ PostReload \/ PostEof => G
  BY <1>1, <1>2 DEF PruneSave, PostReload, PostEof
<1>6. CommitOpen \/ CommitByte => G
  BY <1>1 DEF CommitOpen, CommitByte
<1>7. PostId \/ PostParent => G
  BY <1>1, <1>2 DEF PostId, PostParent
<1>8. PostPut \/ PostCount => G
  BY <1>1, <1>2 DEF PostPut, PostCount
<1>9. (\E i \in 1..MaxPerBoard : MsgDelete(i)) \/ DeleteUncount => G
  BY <1>1, <1>2 DEF MsgDelete, DeleteUncount
<1>10. OtherAccess \/ Crash => G
  BY <1>1 DEF OtherAccess, Crash
<1>11. UNCHANGED vars => G
  BY DEF vars, G
<1>12. G
  BY <1>3, <1>4, <1>5, <1>6, <1>7, <1>8, <1>9, <1>10, <1>11 DEF Next
<1> QED BY <1>12 DEF G

LEMMA CountStep == TypeInv /\ CountInv /\ [Next]_vars => CountInv'
<1> SUFFICES ASSUME TypeInv, CountInv, [Next]_vars, faults' = 0
             PROVE  CountsAt'
  BY DEF CountInv
<1>1. faults = 0
  <2>1. faults \in Nat
    BY BoundsAssumption DEF TypeInv, SetsTyped
  <2> QED
    BY <2>1, FaultsGrow
<1>2. CountsAt
  BY <1>1 DEF CountInv
<1>3. ASSUME NEW parent \in {0} \cup DOMAIN cur.idx, NEW len \in Lens, MsgPost(parent, len)
      PROVE  CountsAt'
  BY <1>2, <1>3, CountMsgPost
<1>4. ASSUME NEW i \in 1..MaxPerBoard, MsgDelete(i)
      PROVE  CountsAt'
  BY <1>2, <1>4, CountMsgDelete
<1> QED
  BY <1>2, <1>3, <1>4, CountPostBoard, CountPruneRecord, CountPruneSave, CountPostReload,
     CountPostEof, CountCommit, CountPostId, CountPostParent, CountPostPut, CountPostCount,
     CountDeleteUncount, CountOthers
  DEF Next

LEMMA CountAlways == Spec => [](TypeInv /\ CountInv)
BY TypeInit, CountInit, TypeStep, CountStep, PTL DEF Spec

\* While nothing has failed, the board record counts the live messages and names
\* the last one, and a board never holds more of them than its limit.
THEOREM CountsRight == Spec => []CountsExact
<1>1. TypeInv /\ CountInv => CountsExact
  BY DEF CountInv, CountsAt, CountsExact, Counted, LiveNow
<1> QED BY <1>1, CountAlways, PTL

\* Pruning takes the oldest messages first.
THEOREM OldestFirst == Spec => PrunesOldest
<1> DEFINE A == pc = "prune" /\ faults' = 0 =>
                  \A i \in Live(cur.idx) \ Live(cur'.idx) : \A j \in Live(cur.idx) : i <= j
<1>1. TypeInv /\ CountInv /\ [Next]_vars => [A]_vars
  <2> SUFFICES ASSUME TypeInv, CountInv, [Next]_vars, pc = "prune", faults' = 0,
                      NEW i \in Live(cur.idx) \ Live(cur'.idx), NEW j \in Live(cur.idx)
               PROVE  i <= j
    OBVIOUS
  <2>1. CountsAt
    <3>1. faults \in Nat
      BY BoundsAssumption DEF TypeInv, SetsTyped
    <3>2. faults = 0
      BY <3>1, FaultsGrow
    <3> QED BY <3>2 DEF CountInv
  <2>2. job.rec <= i /\ job.rec <= j
    BY <2>1 DEF CountsAt
  <2> DEFINE c == [cur EXCEPT !.idx[job.rec].del = TRUE]
  <2>3. cur'.idx # cur.idx
    BY DEF Live
  <2>4. job.rec \in Live(cur.idx) /\ SaveDone(c)
    <3>1. ReadDone \/ (store = cur /\ UNCHANGED vars) => cur' = cur
      BY Accessed DEF vars, records
    <3>2. ~ PruneSave
      <4> DEFINE d == [cur EXCEPT !.board = job.b]
      <4>1. d.idx = cur.idx
        BY DEF TypeInv, SetsTyped, States
      <4> HIDE DEF d
      <4>2. PruneSave => SaveDone(d)
        BY Faultless DEF PruneSave, d
      <4> QED BY <2>3, <4>1, <4>2, Accessed
    <3>3. PruneRecord
      BY <2>3, <3>2, Faultless
      DEF Next, vars, records, MsgPost, PostBoard, PostReload, PostEof, CommitOpen, CommitByte,
          PostId, PostParent, PostPut, PostCount, MsgDelete, DeleteUncount, OtherAccess, Crash
    <3> QED BY <2>3, <3>1, <3>3, Faultless, Accessed DEF PruneRecord
  <2>5. cur' = c /\ cur \in States /\ job.rec \in DOMAIN cur.idx
    <3>1. cur' = c
      <4> HIDE DEF c
      <4> QED BY <2>4, Accessed
    <3> QED BY <2>4, <3>1 DEF Live, TypeInv, SetsTyped
  <2>6. Live(cur'.idx) = Live(cur.idx) \ {job.rec}
    BY <2>5, Marked
  <2>7. i = job.rec
    BY <2>6
  <2> QED BY <2>2, <2>7
<1> QED BY <1>1, CountAlways, PTL DEF Spec, PrunesOldest

-----------------------------------------------------------------------------
(* KeptInv. *)

LEMMA BeginsItself ==
  ASSUME NEW s \in Index
  PROVE  Begins(s, s)
<1>1. Len(s) \in Nat
  BY DEF Index
<1> QED BY <1>1 DEF Begins, Same

LEMMA BeginsOn ==
  ASSUME NEW s \in Index, NEW t \in Index, NEW u \in Index, Begins(s, t), Begins(t, u)
  PROVE  Begins(s, u)
<1>1. /\ Len(s) \in Nat /\ Len(t) \in Nat /\ Len(u) \in Nat
      /\ DOMAIN s = 1..Len(s) /\ DOMAIN t = 1..Len(t)
  BY DEF Index
<1>2. Len(s) <= Len(u) /\ \A i \in DOMAIN s : i \in DOMAIN t
  BY <1>1 DEF Begins
<1> QED BY <1>2 DEF Begins, Same

LEMMA AlikeBegins ==
  ASSUME NEW s \in Index, NEW t \in Index, Alike(s, t)
  PROVE  Begins(s, t)
<1>1. Len(s) \in Nat
  BY DEF Index
<1> QED BY <1>1 DEF Alike, Begins

LEMMA AlikeItself ==
  ASSUME NEW s \in Index
  PROVE  Alike(s, s)
BY DEF Alike, Same

\* What a step other than a reset does to the two record sets, and what it does
\* when it writes no new message.
Grows == /\ Begins(cur.idx, cur'.idx) /\ cur.board.high <= cur'.board.high
         /\ store' \in {store, cur, cur'}
Quiet == Grows /\ Alike(cur.idx, cur'.idx)

LEMMA KeptTyped ==
  ASSUME TypeInv
  PROVE  /\ cur \in States /\ cur.idx \in Index /\ cur.board \in Board /\ cur.board.high \in Nat
         /\ store \in States /\ store.idx \in Index /\ store.board \in Board /\ store.board.high \in Nat
         /\ job \in Jobs /\ job.b \in Board /\ job.b.high \in Nat /\ job.id \in Nat
         /\ Len(cur.idx) \in Nat /\ DOMAIN cur.idx = 1..Len(cur.idx)
         /\ Len(store.idx) \in Nat /\ DOMAIN store.idx = 1..Len(store.idx)
<1>1. /\ cur \in States /\ cur.idx \in Index /\ cur.board \in Board
      /\ store \in States /\ store.idx \in Index /\ store.board \in Board
      /\ job \in Jobs /\ job.b \in Board /\ job.id \in Nat
  BY BoundsAssumption DEF TypeInv, SetsTyped, JobTyped, States, Jobs
<1>2. cur.board.high \in Nat /\ store.board.high \in Nat /\ job.b.high \in Nat
  BY <1>1, BoundsAssumption DEF Board
<1> QED BY <1>1, <1>2 DEF Index

\* A step that writes c, like what is read but for flags and the board record.
LEMMA QuietWrite ==
  ASSUME TypeInv, NEW c \in States, Alike(cur.idx, c.idx), cur.board.high <= c.board.high,
         cur' \in {cur, c}, store' \in {store, cur, cur'}
  PROVE  Quiet
<1>1. cur.idx \in Index /\ c.idx \in Index /\ cur.board.high \in Nat
  BY KeptTyped DEF States
<1>2. Alike(cur.idx, cur'.idx) /\ cur.board.high <= cur'.board.high
  BY <1>1, AlikeItself
<1>3. Begins(cur.idx, cur'.idx)
  BY <1>1, <1>2, AlikeBegins
<1> QED BY <1>2, <1>3 DEF Quiet, Grows

LEMMA QuietRead ==
  ASSUME TypeInv, cur' = cur, store' \in {store, cur}
  PROVE  Quiet
<1>1. cur \in States /\ Alike(cur.idx, cur.idx) /\ cur.board.high <= cur.board.high
  BY KeptTyped, AlikeItself
<1> QED BY <1>1, QuietWrite

LEMMA QuietStep ==
  ASSUME TypeInv, KeptJob, [Next]_vars, ~ PostPut, ~ Crash
  PROVE  Quiet
<1>1. CASE cur' = cur /\ store' \in {store, cur}
  BY <1>1, QuietRead
<1>2. ASSUME ReadDone \/ AccessFails \/ ScanFails \/ WriteFails
      PROVE  Quiet
  BY <1>1, <1>2, Accessed
<1>3. ASSUME NEW c \in States, Alike(cur.idx, c.idx), cur.board.high <= c.board.high,
             SaveDone(c) \/ SaveLost(c)
      PROVE  Quiet
  BY <1>3, Accessed, QuietWrite
<1>4. CASE PruneRecord
  <2> DEFINE c == [cur EXCEPT !.idx[job.rec].del = TRUE]
  <2>1. ReadDone \/ AccessFails \/ WriteFails \/ (job.rec \in Live(cur.idx) /\ (SaveDone(c) \/ SaveLost(c)))
    BY <1>4 DEF PruneRecord
  <2>2. ASSUME job.rec \in DOMAIN cur.idx
        PROVE  c \in States /\ c.board = cur.board /\ Alike(cur.idx, c.idx)
    BY <2>2, Marked, KeptTyped
  <2> HIDE DEF c
  <2> QED BY <1>2, <1>3, <2>1, <2>2, KeptTyped DEF Live
<1>5. CASE PruneSave
  <2> DEFINE c == [cur EXCEPT !.board = job.b]
  <2>1. pc = "prune" /\ (AccessFails \/ SaveDone(c) \/ SaveLost(c))
    BY <1>5 DEF PruneSave
  <2>2. c \in States /\ c.idx = cur.idx /\ c.board = job.b
    BY Recorded, KeptTyped
  <2>3. job.b.high = cur.board.high
    BY <2>1 DEF KeptJob
  <2>4. Alike(cur.idx, c.idx) /\ cur.board.high <= c.board.high
    <3> HIDE DEF c
    <3> QED BY <2>2, <2>3, KeptTyped, AlikeItself
  <2> HIDE DEF c
  <2> QED BY <1>2, <1>3, <2>1, <2>2, <2>4
<1>6. CASE PostParent
  <2> DEFINE p == job.parent
             c == [cur EXCEPT !.idx[p].replies = @ + 1]
  <2>1. pc = "parent" /\ (AccessFails \/ SaveDone(c) \/ SaveLost(c) \/ WriteFails)
    BY <1>6 DEF PostParent
  <2>2. p \in DOMAIN cur.idx /\ posts - 1 \in Nat /\ posts - 1 < MaxPosts /\ cur \in States
        /\ RepliesWithin(cur.idx, posts - 1)
    BY <2>1, RepliesKnown, BoundsAssumption
    DEF TypeInv, JobTyped, SetsTyped, Posting, Linking, Steps
  <2>3. c \in States /\ c.board = cur.board /\ Alike(cur.idx, c.idx)
    BY <2>2, Replied
  <2> HIDE DEF c
  <2> QED BY <1>2, <1>3, <2>1, <2>3, KeptTyped
<1>7. CASE PostCount
  <2> DEFINE x == [count |-> job.b.count + 1, high |-> Max({job.b.high, job.id})]
             c == [cur EXCEPT !.board = x]
  <2>1. pc = "count" /\ (AccessFails \/ SaveDone(c) \/ SaveLost(c))
    BY <1>7 DEF PostCount
  <2>2. job.b.high = cur.board.high /\ job.b.count < MaxPerBoard /\ job.id \in 1..MaxPerBoard
    BY <2>1 DEF KeptJob, Admitted, TypeInv, JobTyped
  <2>3. x.high = IF job.b.high < job.id THEN job.id ELSE job.b.high
    <3>1. job.b.high \in Int /\ job.id \in Int
      BY KeptTyped
    <3> QED BY <3>1, MaxOfTwo
  <2>4. x \in Board
    <3>1. job.b.high \in 0..MaxPerBoard /\ job.b.count \in 0..MaxPerBoard
      BY KeptTyped DEF Board
    <3>2. x.high \in 0..MaxPerBoard /\ x.count \in 0..MaxPerBoard
      <4>1. x.count = job.b.count + 1
        OBVIOUS
      <4> HIDE DEF x
      <4> QED BY <2>2, <2>3, <3>1, <4>1, BoundsAssumption
    <3> QED BY <3>2 DEF Board
  <2> HIDE DEF x
  <2>5. c \in States /\ c.idx = cur.idx /\ c.board = x
    BY <2>4, Recorded, KeptTyped
  <2> HIDE DEF c
  <2>6. Alike(cur.idx, c.idx) /\ cur.board.high <= c.board.high
    BY <2>2, <2>3, <2>5, KeptTyped, AlikeItself
  <2> QED BY <1>2, <1>3, <2>1, <2>5, <2>6 DEF x
<1>8. ASSUME NEW i \in 1..MaxPerBoard, MsgDelete(i)
      PROVE  Quiet
  <2> DEFINE c == [cur EXCEPT !.idx[i].del = TRUE]
  <2>1. i \in DOMAIN cur.idx
        /\ (ReadDone \/ AccessFails \/ WriteFails \/ SaveDone(c) \/ SaveLost(c))
    BY <1>8 DEF MsgDelete
  <2>2. c \in States /\ c.board = cur.board /\ Alike(cur.idx, c.idx)
    BY <2>1, Marked, KeptTyped
  <2> HIDE DEF c
  <2> QED BY <1>2, <1>3, <2>1, <2>2, KeptTyped
<1>9. CASE DeleteUncount
  <2> DEFINE c == [cur EXCEPT !.board.count = IF @ > 0 THEN @ - 1 ELSE 0]
  <2>1. AccessFails \/ WriteFails \/ SaveDone(c) \/ SaveLost(c)
    BY <1>9 DEF DeleteUncount
  <2>2. c \in States /\ c.idx = cur.idx /\ c.board.high = cur.board.high
    BY CountedDown, KeptTyped
  <2> HIDE DEF c
  <2> QED BY <1>2, <1>3, <2>1, <2>2, KeptTyped, AlikeItself
<1>10. CASE \/ (\E parent \in {0} \cup DOMAIN cur.idx, len \in Lens : MsgPost(parent, len))
            \/ CommitOpen \/ CommitByte \/ UNCHANGED vars
  BY <1>1, <1>10 DEF MsgPost, CommitOpen, CommitByte, vars, records
<1>11. CASE PostBoard \/ PostReload \/ PostEof \/ PostId \/ OtherAccess
  BY <1>2, <1>11 DEF PostBoard, PostReload, PostEof, PostId, OtherAccess
<1> QED BY <1>4, <1>5, <1>6, <1>7, <1>8, <1>9, <1>10, <1>11 DEF Next

\* What PostPut does: it writes the new message behind the last, or nothing.
LEMMA PutStep ==
  ASSUME TypeInv, KeptJob, PostPut
  PROVE  \/ /\ Quiet /\ cur' = cur /\ \E res \in {"failed", "full"} : Return(res)
         \/ /\ job.id <= MaxPerBoard /\ job.id = Len(cur.idx) + 1
            /\ Grows /\ cur' \in States /\ cur'.board = cur.board
            /\ cur'.idx \in Index /\ Len(cur'.idx) = job.id
            /\ cur'.idx[job.id] = NewRecord /\ DOMAIN cur'.idx = 1..job.id
            /\ \A j \in DOMAIN cur'.idx : j = job.id \/ (j \in DOMAIN cur.idx /\ cur'.idx[j] = cur.idx[j])
            /\ Go("count", job) \/ Return("failed")
<1> DEFINE t == WithRecord(cur.idx, job.id, NewRecord)
           c == [cur EXCEPT !.idx = t]
<1>1. pc = "put" /\ cur.idx \in Index /\ cur \in States /\ cur.board.high \in Nat
  BY KeptTyped DEF PostPut
<1>2. job.id \in 1..(Len(cur.idx) + 1) /\ job.id = Len(cur.idx) + 1
  BY <1>1 DEF TypeInv, JobTyped, KeptJob, Numbered
<1>3. CASE (ReadDone /\ Return("full")) \/ (AccessFails /\ Return("failed"))
  <2>1. cur' = cur /\ store' \in {store, cur}
    BY <1>3, Accessed
  <2> QED BY <1>3, <2>1, QuietRead
<1>4. CASE job.id <= MaxPerBoard /\ ((SaveDone(c) /\ Go("count", job)) \/ (SaveLost(c) /\ Return("failed")))
  <2>1. NewRecord \in Message /\ NewRecord.replies = 0 /\ ~ NewRecord.del
    BY <1>1, <1>4, NewRecordTyped
  <2>2. /\ t \in Index /\ Len(t) = job.id /\ t[job.id] = NewRecord /\ DOMAIN t = 1..job.id
        /\ \A j \in DOMAIN cur.idx : j < job.id /\ t[j] = cur.idx[j]
        /\ \A j \in DOMAIN t : j = job.id \/ (j \in DOMAIN cur.idx /\ t[j] = cur.idx[j])
    <3>1. job.id <= MaxPerBoard
      BY <1>4
    <3> HIDE DEF NewRecord, c
    <3> QED BY <1>1, <1>2, <2>1, <3>1, Appended
  <2> HIDE DEF t
  <2>3. c \in States /\ c.idx = t /\ c.board = cur.board
    BY <1>1, <2>2, Reindexed
  <2> HIDE DEF c
  <2>4. cur' = c /\ store' \in {cur, c}
    BY <1>4, Accessed
  <2>5. Begins(cur.idx, cur'.idx)
    <3>1. Len(cur.idx) <= Len(t)
      BY <1>2, <2>2, KeptTyped
    <3> QED BY <2>2, <2>3, <2>4, <3>1 DEF Begins, Same
  <2> QED BY <1>1, <1>2, <1>4, <2>2, <2>3, <2>4, <2>5 DEF Grows
<1> QED BY <1>1, <1>3, <1>4 DEF PostPut, NewRecord

LEMMA KeptSetsGrow ==
  ASSUME TypeInv, TypeInv', KeptSets, Grows
  PROVE  KeptSets'
<1>1. cur'.idx \in Index /\ cur'.board.high \in Nat
  BY BoundsAssumption DEF TypeInv, SetsTyped, States, Board
<1>2. Begins(store.idx, cur'.idx) /\ store.board.high <= cur'.board.high
  BY <1>1, KeptTyped, BeginsOn DEF KeptSets, Grows
<1>3. Begins(cur'.idx, cur'.idx) /\ cur'.board.high <= cur'.board.high
  BY <1>1, BeginsItself
<1> QED BY <1>2, <1>3 DEF KeptSets, Grows

LEMMA KeptIdle ==
  ASSUME pc' \in {"idle", "board", "uncount", "reload"}
  PROVE  KeptJob'
BY DEF KeptJob, Admitted, Numbered

LEMMA KeptReturn ==
  ASSUME NEW res, Return(res)
  PROVE  KeptJob'
BY KeptIdle, Returned

LEMMA KeptAdmit ==
  ASSUME TypeInv, ReadDone, Admit(cur.board)
  PROVE  KeptJob'
<1>1. cur' = cur /\ store' = cur
  BY Accessed
<1>2. CASE Go("eof", [job EXCEPT !.b = cur.board])
  <2>1. pc' = "eof" /\ job'.b = cur.board
    BY <1>2, KeptTyped DEF Go, Jobs
  <2> QED BY <1>1, <2>1 DEF KeptJob, Admitted, Numbered
<1> QED BY <1>2, KeptReturn DEF Admit

\* A step between two steps of a post that are past the ceiling.
LEMMA KeptGo ==
  ASSUME TypeInv, KeptJob, pc \in Admitted \ {"count"},
         NEW q \in Admitted \ {"count"}, NEW j, Go(q, j), j.b = job.b,
         cur'.board = cur.board, Len(cur'.idx) = Len(cur.idx),
         q \notin Numbered => store' = cur',
         q \in Numbered => j.id = Len(cur.idx) + 1
  PROVE  KeptJob'
<1>1. pc' = q /\ job' = j
  BY DEF Go
<1> QED BY <1>1 DEF KeptJob, Admitted, Numbered

LEMMA KeptPrune ==
  ASSUME TypeInv, KeptJob, PruneRecord
  PROVE  KeptJob'
<1> DEFINE i == job.rec
           c == [cur EXCEPT !.idx[i].del = TRUE]
           go == [job EXCEPT !.rec = @ + 1]
           less == [go EXCEPT !.pruned = @ + 1, !.b.count = IF @ > 0 THEN @ - 1 ELSE 0]
<1>1. job.b.high = cur.board.high
  BY DEF PruneRecord, KeptJob
<1>2. go.b.high = job.b.high /\ less.b.high = job.b.high
  <2>1. go.b = job.b /\ DOMAIN go = DOMAIN job /\ "b" \in DOMAIN job
    BY KeptTyped DEF Jobs
  <2>2. "high" \in DOMAIN job.b
    BY KeptTyped DEF Board
  <2> HIDE DEF go
  <2> QED BY <2>1, <2>2
<1>3. \E j \in {go, less} : Go("prune", j)
  BY DEF PruneRecord
<1>4. pc' = "prune" /\ job'.b.high = job.b.high
  <2> HIDE DEF go, less
  <2> QED BY <1>2, <1>3 DEF Go
<1>5. cur'.board = cur.board
  <2>1. c.board = cur.board
    BY KeptTyped DEF States
  <2>2. ReadDone \/ AccessFails \/ SaveDone(c) \/ SaveLost(c) \/ WriteFails
    BY DEF PruneRecord
  <2> HIDE DEF c
  <2> QED BY <2>1, <2>2, Accessed
<1> QED BY <1>1, <1>4, <1>5 DEF KeptJob, Admitted, Numbered

LEMMA KeptPut ==
  ASSUME TypeInv, KeptJob, PostPut
  PROVE  KeptJob'
<1>1. pc = "put" /\ job.b.high = cur.board.high /\ posts' = posts
  BY DEF PostPut, KeptJob, Admitted
<1>2. CASE \E res \in {"failed", "full"} : Return(res)
  BY <1>2, KeptReturn
<1>3. CASE /\ Go("count", job) /\ Len(cur'.idx) = job.id /\ cur'.board = cur.board
           /\ cur'.idx[job.id] = NewRecord
  <2>1. pc' = "count" /\ job' = job
    BY <1>3 DEF Go
  <2>2. Same(NewRecord, [off |-> job.off, len |-> job.len, own |-> posts,
                         root |-> job.root, parent |-> job.parent])
    BY DEF Same, NewRecord
  <2> QED BY <1>1, <1>3, <2>1, <2>2 DEF KeptJob, Admitted, Numbered
<1> QED BY <1>2, <1>3, PutStep

LEMMA KeptSetsStep ==
  ASSUME TypeInv, TypeInv', KeptInv, [Next]_vars
  PROVE  KeptSets'
<1>1. KeptJob /\ KeptSets
  BY DEF KeptInv
<1>2. CASE Crash
  <2>1. cur' = store /\ store' = store
    BY <1>2 DEF Crash
  <2> QED BY <2>1, KeptTyped, BeginsItself DEF KeptSets
<1>3. CASE PostPut
  BY <1>1, <1>3, PutStep, KeptSetsGrow DEF Quiet
<1>4. CASE ~ Crash /\ ~ PostPut
  BY <1>1, <1>4, QuietStep, KeptSetsGrow DEF Quiet
<1> QED BY <1>2, <1>3, <1>4

LEMMA KeptJobStep ==
  ASSUME AllScansRead, TypeInv, KeptInv, [Next]_vars
  PROVE  KeptJob'
<1>1. KeptJob
  BY DEF KeptInv
<1>3. CASE \/ \E parent \in {0} \cup DOMAIN cur.idx, len \in Lens : MsgPost(parent, len)
           \/ Crash \/ PruneSave \/ DeleteUncount \/ \E i \in 1..MaxPerBoard : MsgDelete(i)
           \/ PostCount
  BY <1>3, KeptIdle, KeptReturn
  DEF MsgPost, Go, Crash, PruneSave, DeleteUncount, MsgDelete, PostCount
<1>4. CASE PostBoard \/ PostReload
  <2>1. CASE Return("failed") \/ (ReadDone /\ Admit(cur.board))
    BY <2>1, KeptReturn, KeptAdmit
  <2>2. CASE ReadDone /\ Go("prune", [job EXCEPT !.b = cur.board, !.rec = 1])
    <3>1. pc' = "prune" /\ job'.b = cur.board /\ cur' = cur
      BY <2>2, KeptTyped, Accessed DEF Go, Jobs
    <3> QED BY <3>1 DEF KeptJob, Admitted, Numbered
  <2> QED BY <1>4, <2>1, <2>2 DEF PostBoard, PostReload
<1>5. CASE PruneRecord
  BY <1>1, <1>5, KeptPrune
<1>6. CASE PostEof
  <2>1. pc = "eof" /\ store = cur
    BY <1>1, <1>6 DEF PostEof, KeptJob
  <2>2. ReadDone /\ Go("commit", [job EXCEPT !.off = Eof(cur.idx)])
    BY <1>6, <2>1, Accessed DEF PostEof, AllScansRead
  <2> DEFINE j == [job EXCEPT !.off = Eof(cur.idx)]
  <2>3. j.b = job.b /\ cur' = cur /\ store' = cur
    BY <2>2, Accessed, KeptTyped DEF Jobs
  <2> HIDE DEF j
  <2>4. Go("commit", j)
    BY <2>2 DEF j
  <2> QED BY <1>1, <2>1, <2>3, <2>4, KeptGo DEF Admitted, Numbered
<1>7. CASE CommitOpen \/ CommitByte
  <2>1. pc \in {"commit", "write"} /\ cur' = cur /\ store' = store /\ store = cur
    BY <1>1, <1>7 DEF CommitOpen, CommitByte, records, KeptJob
  <2>2. CASE ~ Return("failed")
    <3>1. PICK q \in {"id", "write"}, j \in {job, [job EXCEPT !.done = job.done + 1]} : Go(q, j)
      BY <1>7, <2>2 DEF CommitOpen, CommitByte
    <3>2. j.b = job.b
      BY <3>1, KeptTyped DEF Jobs
    <3> QED BY <1>1, <2>1, <3>1, <3>2, KeptGo DEF Admitted, Numbered
  <2> QED BY <2>2, KeptReturn
<1>8. CASE PostId
  <2> DEFINE n == Len(cur.idx) + 1
             j == [job EXCEPT !.id = n, !.root = n]
  <2>1. pc = "id" /\ store = cur
    BY <1>1, <1>8 DEF PostId, KeptJob
  <2>2. ReadDone /\ \E q \in {"parent", "put"} : Go(q, j)
    BY <1>8, <2>1, Accessed DEF PostId, AllScansRead
  <2>3. j.b = job.b /\ j.id = n /\ cur' = cur
    BY <2>2, Accessed, KeptTyped DEF Jobs
  <2> HIDE DEF j
  <2> QED BY <1>1, <2>1, <2>2, <2>3, KeptGo DEF Admitted, Numbered
<1>9. CASE PostParent
  <2>1. pc = "parent"
    BY <1>9 DEF PostParent
  <2>2. PICK j \in {job, [job EXCEPT !.root = cur.idx[job.parent].root]} : Go("put", j)
    BY <1>9 DEF PostParent
  <2>3. j.b = job.b /\ j.id = job.id
    BY <2>2, KeptTyped DEF Jobs
  <2>4. cur'.board = cur.board
    <3> DEFINE c == [cur EXCEPT !.idx[job.parent].replies = @ + 1]
    <3>1. c.board = cur.board
      BY KeptTyped DEF States
    <3>2. AccessFails \/ SaveDone(c) \/ SaveLost(c) \/ WriteFails
      BY <1>9 DEF PostParent
    <3> HIDE DEF c
    <3> QED BY <3>1, <3>2, Accessed
  <2>5. Len(cur'.idx) = Len(cur.idx)
    <3>1. pc' = "put"
      BY <2>2 DEF Go
    <3>2. ~ PostPut /\ ~ Crash
      BY <2>1, <3>1 DEF PostPut, Crash
    <3> QED BY <1>1, <3>2, QuietStep DEF Quiet, Alike
  <2>6. job.id = Len(cur.idx) + 1
    BY <1>1, <2>1 DEF KeptJob, Numbered
  <2> QED BY <1>1, <2>1, <2>2, <2>3, <2>4, <2>5, <2>6, KeptGo DEF Admitted, Numbered
<1>10. CASE PostPut
  BY <1>1, <1>10, KeptPut
<1>11. CASE OtherAccess
  BY <1>11, KeptIdle DEF OtherAccess
<1>12. CASE UNCHANGED vars
  BY <1>1, <1>12 DEF vars, records, KeptJob
<1> QED BY <1>3, <1>4, <1>5, <1>6, <1>7, <1>8, <1>9, <1>10, <1>11, <1>12 DEF Next

LEMMA KeptInit == Init => KeptInv
<1> SUFFICES ASSUME Init PROVE KeptInv
  OBVIOUS
<1>1. TypeInv
  BY TypeInit
<1>2. store = cur /\ pc = "idle"
  BY DEF Init
<1> QED BY <1>1, <1>2, KeptTyped, BeginsItself DEF KeptInv, KeptSets, KeptJob, Admitted, Numbered

LEMMA KeptAlways ==
  ASSUME AllScansRead
  PROVE  Spec => [](TypeInv /\ KeptInv)
<1>1. Init => TypeInv /\ KeptInv
  BY TypeInit, KeptInit
<1>2. TypeInv /\ KeptInv /\ [Next]_vars => (TypeInv /\ KeptInv)'
  <2> SUFFICES ASSUME TypeInv, KeptInv, [Next]_vars
               PROVE  TypeInv' /\ KeptInv'
    OBVIOUS
  <2>1. TypeInv'
    BY TypeStep
  <2> QED BY <2>1, KeptSetsStep, KeptJobStep DEF KeptInv
<1> QED BY <1>1, <1>2, PTL DEF Spec

\* While no scan of the index fails, a message keeps its number: no post or delete
\* puts another one in its place, and a reset at most takes the last one away.
THEOREM NumbersKept == AllScansRead => (Spec => NeverOverwritten)
<1> SUFFICES ASSUME AllScansRead PROVE Spec => NeverOverwritten
  OBVIOUS
<1> DEFINE A == \A i \in DOMAIN cur.idx \cap DOMAIN cur'.idx :
                  cur'.idx[i].own = cur.idx[i].own
<1>1. TypeInv /\ KeptInv /\ [Next]_vars => [A]_vars
  <2> SUFFICES ASSUME TypeInv, KeptInv, [Next]_vars
               PROVE  A
    OBVIOUS
  <2>1. CASE Crash
    <3>1. cur' = store /\ Begins(store.idx, cur.idx)
      BY <2>1 DEF Crash, KeptInv, KeptSets
    <3> QED BY <3>1 DEF Begins, Same
  <2>2. CASE ~ Crash
    <3>1. Begins(cur.idx, cur'.idx)
      BY <2>2, PutStep, QuietStep DEF Quiet, Grows, KeptInv
    <3> QED BY <3>1 DEF Begins, Same
  <2> QED BY <2>1, <2>2
<1> QED BY <1>1, KeptAlways, PTL DEF Spec, NeverOverwritten

-----------------------------------------------------------------------------
(* ThreadInv. *)

\* A thread does not change with what is deleted and with the replies counted.
LEMMA RootedBegins ==
  ASSUME NEW s \in Index, NEW t \in Index, Begins(s, t), Rooted(t)
  PROVE  Rooted(s)
<1>1. /\ Len(s) \in Nat /\ Len(t) \in Nat /\ Len(s) <= Len(t)
      /\ DOMAIN s = 1..Len(s) /\ DOMAIN t = 1..Len(t)
  BY DEF Index, Begins
<1>2. ASSUME NEW i \in DOMAIN s
      PROVE  i \in DOMAIN t /\ s[i].root = t[i].root /\ s[i].parent = t[i].parent
  BY <1>1 DEF Begins, Same
<1>3. ASSUME NEW i \in DOMAIN s
      PROVE  /\ s[i].root \in 1..i /\ s[s[i].root].root = s[i].root
             /\ s[i].parent \in 0..(i - 1)
             /\ s[i].root # i => s[i].parent # 0 /\ s[i].root = s[s[i].parent].root
  <2>1. i \in DOMAIN t /\ s[i].root = t[i].root /\ s[i].parent = t[i].parent /\ i \in Nat
    BY <1>1, <1>2
  <2>2. /\ t[i].root \in 1..i /\ t[t[i].root].root = t[i].root
        /\ t[i].parent \in 0..(i - 1)
        /\ t[i].root # i => t[i].parent # 0 /\ t[i].root = t[t[i].parent].root
    BY <2>1 DEF Rooted
  <2>3. t[i].root \in DOMAIN s
    BY <1>1, <2>1, <2>2
  <2>4. s[s[i].root].root = s[i].root
    BY <1>2, <2>1, <2>2, <2>3
  <2>5. t[i].parent # 0 => t[i].parent \in DOMAIN s
    BY <1>1, <2>1, <2>2
  <2>6. s[i].root # i => s[i].parent # 0 /\ s[i].root = s[s[i].parent].root
    BY <1>2, <2>1, <2>2, <2>5
  <2> QED BY <2>1, <2>2, <2>4, <2>6
<1> QED BY <1>3 DEF Rooted

\* The record of a post is in the thread of its parent, or in its own.
LEMMA RootedPut ==
  ASSUME NEW s \in Index, NEW t \in Index, Rooted(s), NEW n \in Nat, n = Len(s) + 1,
         DOMAIN t = 1..n, \A j \in DOMAIN t : j = n \/ (j \in DOMAIN s /\ t[j] = s[j]),
         t[n].parent \in {0} \cup DOMAIN s,
         t[n].root = n \/ (t[n].parent # 0 /\ t[n].root = s[t[n].parent].root)
  PROVE  Rooted(t)
<1>1. Len(s) \in Nat /\ DOMAIN s = 1..Len(s) /\ n \in DOMAIN t /\ n \notin DOMAIN s
  BY DEF Index
<1>2. \A j \in DOMAIN s : j \in DOMAIN t /\ t[j] = s[j]
  BY <1>1
<1>3. ASSUME NEW i \in DOMAIN s
      PROVE  /\ t[i].root \in 1..i /\ t[t[i].root].root = t[i].root
             /\ t[i].parent \in 0..(i - 1)
             /\ t[i].root # i => t[i].parent # 0 /\ t[i].root = t[t[i].parent].root
  <2>1. /\ s[i].root \in 1..i /\ s[s[i].root].root = s[i].root
        /\ s[i].parent \in 0..(i - 1)
        /\ s[i].root # i => s[i].parent # 0 /\ s[i].root = s[s[i].parent].root
    BY DEF Rooted
  <2>2. s[i].root \in DOMAIN s /\ (s[i].parent # 0 => s[i].parent \in DOMAIN s) /\ t[i] = s[i]
    BY <1>1, <1>2, <2>1
  <2> QED BY <1>2, <2>1, <2>2
<1>4. /\ t[n].root \in 1..n /\ t[t[n].root].root = t[n].root
      /\ t[n].parent \in 0..(n - 1)
      /\ t[n].root # n => t[n].parent # 0 /\ t[n].root = t[t[n].parent].root
  <2>1. t[n].parent \in 0..(n - 1)
    BY <1>1
  <2>2. CASE t[n].root = n
    BY <2>1, <2>2
  <2>3. CASE t[n].root # n
    <3> DEFINE p == t[n].parent
    <3>1. p # 0 /\ p \in DOMAIN s /\ t[n].root = s[p].root
      BY <2>3
    <3> HIDE DEF p
    <3>2. s[p].root \in 1..p /\ s[s[p].root].root = s[p].root
      BY <3>1 DEF Rooted
    <3>3. s[p].root \in DOMAIN s
      BY <1>1, <3>1, <3>2
    <3>4. t[p].root = s[p].root /\ t[s[p].root].root = s[p].root
      BY <1>2, <3>1, <3>2, <3>3
    <3>5. s[p].root \in 1..n
      BY <1>1, <3>3
    <3> QED BY <2>1, <3>1, <3>4, <3>5 DEF p
  <2> QED BY <2>2, <2>3
<1> QED BY <1>3, <1>4 DEF Rooted

LEMMA ThreadStep ==
  ASSUME TypeInv, TypeInv', KeptInv, ThreadInv, [Next]_vars
  PROVE  ThreadInv'
<1>1. KeptJob /\ Rooted(cur.idx) /\ cur.idx \in Index /\ cur'.idx \in Index /\ store.idx \in Index
  BY KeptTyped DEF KeptInv, ThreadInv, TypeInv, SetsTyped, States
<1>2. CASE Crash
  <2>1. cur' = store /\ Begins(store.idx, cur.idx) /\ pc' = "idle"
    BY <1>2 DEF Crash, KeptInv, KeptSets
  <2> QED BY <1>1, <2>1, RootedBegins DEF ThreadInv
<1>3. CASE PostPut
  <2>1. pc = "put" /\ pc' \in {"idle", "count"}
    BY <1>3 DEF PostPut, Go, Return
  <2>2. CASE cur' = cur
    BY <1>1, <2>1, <2>2 DEF ThreadInv
  <2>3. CASE cur' # cur
    <3>1. /\ job.id = Len(cur.idx) + 1 /\ cur'.idx[job.id] = NewRecord /\ DOMAIN cur'.idx = 1..job.id
          /\ \A j \in DOMAIN cur'.idx : j = job.id \/ (j \in DOMAIN cur.idx /\ cur'.idx[j] = cur.idx[j])
      BY <1>1, <1>3, <2>3, PutStep
    <3>2. NewRecord.parent = job.parent /\ NewRecord.root = job.root
      BY DEF NewRecord
    <3>3. job.parent \in {0} \cup DOMAIN cur.idx
      BY <2>1 DEF TypeInv, JobTyped, Posting, Steps
    <3>4. job.root = job.id \/ (job.parent # 0 /\ job.root = cur.idx[job.parent].root)
      BY <2>1 DEF ThreadInv
    <3>5. job.id \in Nat
      BY KeptTyped
    <3>6. Rooted(cur'.idx)
      BY <1>1, <3>1, <3>2, <3>3, <3>4, <3>5, RootedPut
    <3> QED BY <2>1, <3>6 DEF ThreadInv
  <2> QED BY <2>2, <2>3
<1>4. CASE ~ Crash /\ ~ PostPut
  <2>1. Alike(cur.idx, cur'.idx)
    BY <1>1, <1>4, QuietStep DEF Quiet
  <2>2. Begins(cur'.idx, cur.idx)
    <3>1. Len(cur.idx) \in Nat /\ DOMAIN cur.idx = 1..Len(cur.idx) /\ DOMAIN cur'.idx = 1..Len(cur'.idx)
      BY <1>1 DEF Index
    <3> QED BY <2>1, <3>1 DEF Alike, Begins, Same
  <2>3. Rooted(cur'.idx)
    BY <1>1, <2>2, RootedBegins
  <2>4. ASSUME pc' = "put"
        PROVE  job'.root = job'.id \/ (job'.parent # 0 /\ job'.root = cur'.idx[job'.parent].root)
    <3>1. CASE PostId
      <4>1. PICK q \in {"parent", "put"}, n \in {1, Len(cur.idx) + 1} :
              Go(q, [job EXCEPT !.id = n, !.root = n])
        BY <3>1 DEF PostId
      <4>2. job'.root = n /\ job'.id = n
        BY <4>1, KeptTyped DEF Go, Jobs
      <4> QED BY <4>2
    <3>2. CASE PostParent
      <4>1. pc = "parent"
        BY <3>2 DEF PostParent
      <4>2. job.parent \in DOMAIN cur.idx /\ job.parent # 0 /\ job.root = job.id
        BY <4>1 DEF TypeInv, JobTyped, Posting, Steps
      <4>3. cur.idx[job.parent].root = cur'.idx[job.parent].root
        BY <2>1, <4>2 DEF Alike, Same
      <4>4. PICK j \in {job, [job EXCEPT !.root = cur.idx[job.parent].root]} : job' = j
        BY <3>2 DEF PostParent, Go
      <4>5. job' = job \/ (job'.root = cur.idx[job.parent].root /\ job'.parent = job.parent)
        BY <4>4, KeptTyped DEF Jobs
      <4> QED BY <4>2, <4>3, <4>5
    <3>3. CASE UNCHANGED vars
      BY <2>4, <3>3 DEF vars, records, ThreadInv
    <3>4. CASE \/ PostBoard \/ PruneRecord \/ PruneSave \/ PostReload \/ PostEof
      BY <2>4, <3>4 DEF PostBoard, PruneRecord, PruneSave, PostReload, PostEof, Admit, Go, Return
    <3>5. CASE \/ CommitOpen \/ CommitByte \/ PostCount \/ DeleteUncount \/ OtherAccess
               \/ (\E i \in 1..MaxPerBoard : MsgDelete(i))
               \/ (\E parent \in {0} \cup DOMAIN cur.idx, len \in Lens : MsgPost(parent, len))
      BY <2>4, <3>5 DEF CommitOpen, CommitByte, PostCount, DeleteUncount, OtherAccess, MsgDelete,
                        MsgPost, Go, Return
    <3> QED BY <1>4, <3>1, <3>2, <3>3, <3>4, <3>5 DEF Next
  <2> QED BY <2>3, <2>4 DEF ThreadInv
<1> QED BY <1>2, <1>3, <1>4

LEMMA ThreadInit == Init => ThreadInv
<1> SUFFICES ASSUME Init PROVE ThreadInv
  OBVIOUS
<1>1. cur.idx = << >> /\ pc = "idle"
  BY DEF Init
<1> QED BY <1>1 DEF ThreadInv, Rooted

\* While no scan fails, every thread has a root that is its own root and a reply is
\* in the thread of its parent or in its own: in what is read and on disk.
THEOREM ThreadsKept == AllScansRead => (Spec => []ThreadsRooted)
<1> SUFFICES ASSUME AllScansRead PROVE Spec => []ThreadsRooted
  OBVIOUS
<1>1. Init => ThreadInv
  BY ThreadInit
<1>2. TypeInv /\ TypeInv' /\ KeptInv /\ ThreadInv /\ [Next]_vars => ThreadInv'
  BY ThreadStep
<1>3. TypeInv /\ KeptInv /\ ThreadInv => ThreadsRooted
  <2> SUFFICES ASSUME TypeInv, KeptInv, ThreadInv PROVE ThreadsRooted
    OBVIOUS
  <2>1. Rooted(cur.idx) /\ Rooted(store.idx)
    BY KeptTyped, RootedBegins DEF ThreadInv, KeptInv, KeptSets
  <2> QED BY <2>1, Zenon DEF ThreadsRooted, Rooted
<1> QED BY <1>1, <1>2, <1>3, KeptAlways, PTL DEF Spec

-----------------------------------------------------------------------------
(* AckedDurable. *)

LEMMA AckedStep ==
  ASSUME TypeInv, KeptInv, AckedDurable, [Next]_vars
  PROVE  AckedDurable'
<1>1. KeptJob /\ Begins(store.idx, cur.idx) /\ store.board.high <= cur.board.high
  BY DEF KeptInv, KeptSets
<1>2. ASSUME NEW n \in acked
      PROVE  \E i \in DOMAIN store'.idx : store'.idx[i].own = n /\ i <= store'.board.high
  <2>1. PICK i \in DOMAIN store.idx : store.idx[i].own = n /\ i <= store.board.high
    BY DEF AckedDurable
  <2>2. i \in DOMAIN cur.idx /\ cur.idx[i].own = n /\ i <= cur.board.high
    BY <1>1, <2>1, KeptTyped DEF Begins, Same
  <2>3. CASE store' = store
    BY <2>1, <2>3
  <2>4. CASE store' = cur
    BY <2>2, <2>4
  <2>5. CASE store' = cur' /\ Grows
    <3>1. Begins(cur.idx, cur'.idx) /\ cur.board.high <= cur'.board.high
      BY <2>5 DEF Grows
    <3>2. cur'.idx \in Index /\ cur'.board.high \in Nat
      <4>1. TypeInv'
        BY TypeStep
      <4> QED BY <4>1, BoundsAssumption DEF TypeInv, SetsTyped, States, Board
    <3>3. i \in DOMAIN cur'.idx /\ cur'.idx[i].own = n /\ i <= cur'.board.high
      <4>1. Len(cur'.idx) \in Nat /\ DOMAIN cur'.idx = 1..Len(cur'.idx)
        BY <3>2 DEF Index
      <4> QED BY SMTT(20), <2>2, <3>1, <3>2, <4>1, KeptTyped DEF Begins, Same
    <3> QED BY <2>5, <3>3
  <2>6. store' = store \/ (Grows /\ store' \in {store, cur, cur'})
    <3>1. CASE Crash
      BY <3>1 DEF Crash
    <3>2. CASE ~ Crash
      BY <1>1, <3>2, PutStep, QuietStep DEF Quiet, Grows
    <3> QED BY <3>1, <3>2
  <2> QED BY <2>3, <2>4, <2>5, <2>6
<1>3. ASSUME acked' # acked
      PROVE  /\ acked' = acked \cup {posts}
             /\ \E i \in DOMAIN store'.idx : store'.idx[i].own = posts /\ i <= store'.board.high
  <2> DEFINE x == [count |-> job.b.count + 1, high |-> Max({job.b.high, job.id})]
             c == [cur EXCEPT !.board = x]
  <2>1. PostCount
    BY <1>3 DEF Next, vars, MsgPost, PostBoard, PruneRecord, PruneSave, PostReload, PostEof,
                CommitOpen, CommitByte, PostId, PostParent, PostPut, MsgDelete, DeleteUncount,
                OtherAccess, Crash, history
  <2>2. pc = "count" /\ SaveDone(c) /\ acked' = acked \cup {posts}
    BY <1>3, <2>1 DEF PostCount
  <2>3. job.id = Len(cur.idx) /\ cur.idx[job.id].own = posts /\ job.id \in 1..MaxPerBoard
    BY <1>1, <2>2 DEF KeptJob, Same, TypeInv, JobTyped
  <2>4. x.high >= job.id
    <3>1. job.b.high \in Int /\ job.id \in Int
      BY KeptTyped
    <3>2. Max({job.b.high, job.id}) = IF job.b.high < job.id THEN job.id ELSE job.b.high
      BY <3>1, MaxOfTwo
    <3> QED BY <3>1, <3>2
  <2>5. c.idx = cur.idx /\ c.board = x
    BY KeptTyped DEF States
  <2> HIDE DEF c, x
  <2>6. store' = c
    BY <2>2, Accessed
  <2>7. job.id \in DOMAIN cur.idx
    BY <2>3, KeptTyped
  <2>8. job.id <= x.high
    BY <2>3, <2>4 DEF x
  <2> QED BY <2>2, <2>3, <2>5, <2>6, <2>7, <2>8
<1> QED BY <1>2, <1>3 DEF AckedDurable

\* While no scan fails, a message that was reported as posted is in the index a
\* reset leaves, and within the highest id of its board record.
THEOREM AckedKept == AllScansRead => (Spec => []AckedDurable)
<1> SUFFICES ASSUME AllScansRead PROVE Spec => []AckedDurable
  OBVIOUS
<1>1. Init => AckedDurable
  BY DEF Init, AckedDurable
<1>2. TypeInv /\ KeptInv /\ AckedDurable /\ [Next]_vars => AckedDurable'
  BY AckedStep
<1> QED BY <1>1, <1>2, KeptAlways, PTL DEF Spec

-----------------------------------------------------------------------------
(* BodyInv. *)

LEMMA JobNumbers ==
  ASSUME TypeInv
  PROVE  /\ job.off \in Nat /\ job.len \in Nat /\ job.done \in Nat /\ posts \in Nat
         /\ Len(txt) \in Nat /\ DOMAIN txt = 1..Len(txt)
<1>1. job \in Jobs /\ txt \in Seq(1..MaxPosts)
  BY DEF TypeInv, JobTyped, RestTyped
<1>2. job.len \in Nat
  <2>1. job.len \in Lens \/ job.len = 0
    BY <1>1 DEF Jobs
  <2>2. \A n \in Lens : n \in Nat
    BY BoundsAssumption
  <2> QED BY <2>1, <2>2
<1> QED BY <1>1, <1>2, BoundsAssumption DEF Jobs, TypeInv, SetsTyped

LEMMA RecordNumbers ==
  ASSUME NEW s \in Index, NEW i \in DOMAIN s
  PROVE  s[i].off \in Nat /\ s[i].len \in Nat
<1>1. s[i] \in Message
  BY DEF Index
<1>2. s[i].off \in 0..(OffMod - 1) /\ s[i].len \in Lens
  BY <1>1 DEF Message
<1>3. s[i].len \in Nat
  BY <1>2, BoundsAssumption
<1> QED BY <1>2, <1>3

LEMMA IntactSame ==
  ASSUME NEW r, NEW q, NEW f, Same(r, q) \/ Same(q, r), Intact(r, f)
  PROVE  Intact(q, f)
BY DEF Same, Intact

LEMMA IntactLonger ==
  ASSUME NEW S, NEW f \in Seq(S), NEW x \in S, NEW r, r.off \in Nat, r.len \in Nat, Intact(r, f)
  PROVE  Intact(r, Append(f, x))
<1>1. Len(f) \in Nat /\ Len(Append(f, x)) = Len(f) + 1
  OBVIOUS
<1>2. \A k \in 1..Len(f) : Append(f, x)[k] = f[k]
  OBVIOUS
<1>3. \A k \in (r.off + 1)..(r.off + r.len) : k \in 1..Len(f)
  BY <1>1 DEF Intact
<1>4. r.off + r.len <= Len(f) + 1
  BY <1>1 DEF Intact
<1>5. \A k \in (r.off + 1)..(r.off + r.len) : Append(f, x)[k] = r.own
  BY <1>2, <1>3 DEF Intact
<1> QED BY <1>1, <1>4, <1>5 DEF Intact

\* A record of the running post within the file: all its bytes were written.
LEMMA UnderwayIntact ==
  ASSUME TypeInv, Underway, NEW r, r.off = job.off, r.len = job.len, r.own = posts,
         r.off + r.len <= Len(txt)
  PROVE  Intact(r, txt)
<1>1. Len(txt) = job.off + job.done /\ job.done = job.len
  BY JobNumbers DEF Underway
<1> QED BY <1>1 DEF Underway, Intact

\* ... and any other, too.
LEMMA BodyRead ==
  ASSUME TypeInv, KeptInv, BodyInv, ~ skewed,
         NEW i \in DOMAIN cur.idx, cur.idx[i].off + cur.idx[i].len <= Len(txt)
  PROVE  Intact(cur.idx[i], txt)
<1>1. CASE Intact(cur.idx[i], txt)
  BY <1>1
<1>2. CASE pc = "count" /\ i = job.id
  <2>1. Underway
    BY <1>2 DEF BodyInv, Writing, Admitted
  <2>2. cur.idx[i].off = job.off /\ cur.idx[i].len = job.len /\ cur.idx[i].own = posts
    BY <1>2 DEF KeptInv, KeptJob, Same
  <2> QED BY <2>1, <2>2, UnderwayIntact
<1> QED BY <1>1, <1>2 DEF BodyInv

\* An index that begins the one that is read, and whose end is that of the file.
LEMMA BodyBegins ==
  ASSUME TypeInv, KeptInv, BodyInv, ~ skewed,
         NEW s \in Index, \A i \in DOMAIN s : i \in DOMAIN cur.idx,
         \A i \in DOMAIN s : Same(s[i], cur.idx[i]), EndsAt(s, Len(txt)),
         NEW i \in DOMAIN s
  PROVE  Intact(s[i], txt)
<1>1. Same(s[i], cur.idx[i]) /\ i \in DOMAIN cur.idx
  OBVIOUS
<1>2. cur.idx[i].off + cur.idx[i].len <= Len(txt)
  BY <1>1 DEF EndsAt, Same
<1>3. Intact(cur.idx[i], txt)
  BY <1>1, <1>2, BodyRead
<1> QED BY <1>1, <1>3, IntactSame

\* Between calls.
LEMMA BodyIdle ==
  ASSUME pc' = "idle", ~ skewed' => /\ EndsAt(cur'.idx, Len(txt'))
                                    /\ \A i \in DOMAIN cur'.idx : Intact(cur'.idx[i], txt')
  PROVE  BodyInv'
BY DEF BodyInv, DoneInv, Writing, Admitted, Linking, Posting

LEMMA BodyReturn ==
  ASSUME TypeInv, TypeInv', KeptInv, BodyInv, Quiet, txt' = txt, NEW res, Return(res)
  PROVE  BodyInv'
<1>1. pc' = "idle" /\ (~ skewed' => ~ skewed /\ EndsAt(cur'.idx, Len(txt')))
  BY Returned
<1>2. cur'.idx \in Index /\ cur.idx \in Index
  BY DEF TypeInv, SetsTyped, States
<1>3. DOMAIN cur'.idx = DOMAIN cur.idx /\ \A i \in DOMAIN cur'.idx : Same(cur'.idx[i], cur.idx[i])
  BY <1>2 DEF Quiet, Alike, Same, Index
<1>4. ASSUME ~ skewed', NEW i \in DOMAIN cur'.idx
      PROVE  Intact(cur'.idx[i], txt')
  BY <1>1, <1>2, <1>3, <1>4, BodyBegins
<1> QED BY <1>1, <1>4, BodyIdle

\* A step within a call that writes no body and no new message.
LEMMA BodyGo ==
  ASSUME TypeInv, TypeInv', BodyInv, Quiet, txt' = txt, NEW q, NEW j, Go(q, j), DoneInv',
         pc # "count", q # "count", q \notin Writing => pc \notin Writing,
         ~ skewed /\ q \in Writing => Underway'
  PROVE  BodyInv'
<1>1. pc' = q /\ skewed' = skewed
  BY DEF Go
<1>2. cur'.idx \in Index /\ cur.idx \in Index /\ Alike(cur.idx, cur'.idx)
  BY DEF TypeInv, SetsTyped, States, Quiet
<1>3. DOMAIN cur'.idx = DOMAIN cur.idx /\ \A i \in DOMAIN cur'.idx : Same(cur.idx[i], cur'.idx[i])
  BY <1>2 DEF Alike, Same, Index
<1>4. ASSUME ~ skewed, NEW i \in DOMAIN cur'.idx
      PROVE  Intact(cur'.idx[i], txt')
  <2>1. Intact(cur.idx[i], txt)
    BY <1>3, <1>4 DEF BodyInv
  <2> QED BY <1>3, <1>4, <2>1, IntactSame
<1>5. ASSUME ~ skewed, q \notin Writing
      PROVE  EndsAt(cur'.idx, Len(txt'))
  <2>1. EndsAt(cur.idx, Len(txt))
    BY <1>5 DEF BodyInv
  <2> QED BY <1>2, <2>1, AlikeEnds
<1> QED BY <1>1, <1>4, <1>5 DEF BodyInv

LEMMA BodyPostEof ==
  ASSUME AllScansRead, TypeInv, TypeInv', KeptInv, BodyInv, Quiet, PostEof
  PROVE  BodyInv'
<1> DEFINE j == [job EXCEPT !.off = Eof(cur.idx)]
<1>1. pc = "eof" /\ store = cur /\ txt' = txt /\ posts' = posts
  BY DEF PostEof, KeptInv, KeptJob, body
<1>2. Go("commit", j)
  BY <1>1, Accessed DEF PostEof, AllScansRead
<1>3. j.off = Eof(cur.idx) /\ j.len = job.len /\ j.done = job.done
  BY KeptTyped DEF Jobs
<1>4. job.done = 0
  BY <1>1 DEF BodyInv, DoneInv, Linking, Posting, Steps
<1> HIDE DEF j
<1>5. pc' = "commit" /\ job' = j
  BY <1>2 DEF Go
<1>6. DoneInv'
  BY <1>3, <1>4, <1>5 DEF DoneInv
<1>7. ASSUME ~ skewed
      PROVE  Underway'
  <2>1. Eof(cur.idx) = Len(txt)
    BY <1>1, <1>7 DEF BodyInv, Writing, Admitted, EndsAt
  <2> QED BY <1>1, <1>3, <1>4, <1>5, <2>1, JobNumbers DEF Underway
<1> QED BY <1>1, <1>2, <1>6, <1>7, BodyGo DEF Writing, Admitted

LEMMA BodyCommitOpen ==
  ASSUME TypeInv, TypeInv', KeptInv, BodyInv, Quiet, CommitOpen
  PROVE  BodyInv'
<1>1. pc = "commit" /\ txt' = txt /\ posts' = posts /\ job.done = 0
  BY DEF CommitOpen, BodyInv, DoneInv, Linking, Posting, Steps
<1>2. CASE Return("failed")
  BY <1>1, <1>2, BodyReturn
<1>3. CASE ~ Return("failed")
  <2>1. PICK q \in {"id", "write"} : Go(q, job) /\ (q = "write" => job.len # 0)
    BY <1>3 DEF CommitOpen
  <2>2. pc' = q /\ job' = job
    BY <2>1 DEF Go
  <2>3. DoneInv'
    BY <1>1, <2>1, <2>2, JobNumbers DEF DoneInv, Linking
  <2>4. ~ skewed => Underway'
    BY <1>1, <2>2 DEF BodyInv, Underway, Writing, Admitted
  <2> QED BY <1>1, <2>1, <2>2, <2>3, <2>4, BodyGo DEF Writing, Admitted
<1> QED BY <1>2, <1>3

LEMMA BodyCommitByte ==
  ASSUME TypeInv, TypeInv', KeptInv, BodyInv, Quiet, CommitByte
  PROVE  BodyInv'
<1> DEFINE n == job.done + 1
           j == [job EXCEPT !.done = n]
<1>1. pc = "write" /\ posts' = posts /\ cur' = cur /\ job.done < job.len
  BY DEF CommitByte, BodyInv, DoneInv, records
<1>2. CASE Return("failed") /\ txt' = txt
  BY <1>1, <1>2, BodyReturn
<1>3. CASE \E q \in {"id", "write"} : Go(q, j) /\ (q = "write" => n # job.len)
                                       /\ txt' \in {txt, Append(txt, posts)}
  <2>1. PICK q \in {"id", "write"} : Go(q, j) /\ (q = "write" => n # job.len)
    BY <1>3
  <2>2. j.off = job.off /\ j.len = job.len /\ j.done = n
    BY KeptTyped DEF Jobs
  <2> HIDE DEF j
  <2>3. pc' = q /\ job' = j /\ skewed' = skewed
    BY <2>1 DEF Go
  <2>4. DoneInv'
    BY <1>1, <2>1, <2>2, <2>3, JobNumbers DEF DoneInv, Linking
  <2>5. ~ skewed => Underway
    BY <1>1 DEF BodyInv, Writing, Admitted
  <2>6. CASE txt' = txt
    <3>1. ~ skewed => Underway'
      BY SMTT(20), <1>1, <2>2, <2>3, <2>5, <2>6, JobNumbers DEF Underway
    <3> QED BY <1>1, <2>1, <2>3, <2>4, <2>6, <3>1, BodyGo DEF Writing, Admitted
  <2>7. CASE txt' = Append(txt, posts)
    <3>1. posts \in 1..MaxPosts /\ txt \in Seq(1..MaxPosts)
      BY <1>1, BoundsAssumption DEF TypeInv, SetsTyped, RestTyped, JobTyped, Posting, Steps
    <3>2. Len(txt') = Len(txt) + 1 /\ txt'[Len(txt) + 1] = posts
          /\ \A k \in 1..Len(txt) : txt'[k] = txt[k]
      BY <2>7, <3>1
    <3>3. ASSUME ~ skewed
          PROVE  Underway'
      <4>1. job.off <= Len(txt') /\ Len(txt') <= job.off + n /\ n <= job.len
        BY <1>1, <2>5, <3>2, <3>3, JobNumbers DEF Underway
      <4>2. ASSUME Len(txt') = job.off + n, NEW k \in (job.off + 1)..(job.off + n)
            PROVE  txt'[k] = posts
        <5>1. Len(txt) = job.off + job.done
          BY <3>2, <4>2, JobNumbers
        <5>2. k = Len(txt) + 1 \/ (k \in (job.off + 1)..(job.off + job.done) /\ k \in 1..Len(txt))
          BY <5>1, <4>2, JobNumbers
        <5> QED BY <2>5, <3>2, <3>3, <5>1, <5>2 DEF Underway
      <4> QED BY <1>1, <2>2, <2>3, <4>1, <4>2 DEF Underway
    <3>4. ASSUME ~ skewed, NEW i \in DOMAIN cur.idx
          PROVE  Intact(cur.idx[i], txt')
      <4>1. Intact(cur.idx[i], txt)
        BY <1>1, <3>4 DEF BodyInv
      <4>2. cur.idx[i].off \in Nat /\ cur.idx[i].len \in Nat
        BY KeptTyped, RecordNumbers
      <4> QED BY <2>7, <3>1, <4>1, <4>2, IntactLonger
    <3>5. pc' \in Writing
      BY <2>1, <2>3 DEF Writing, Admitted
    <3> QED BY <1>1, <2>3, <2>4, <3>3, <3>4, <3>5 DEF BodyInv
  <2> QED BY <1>3, <2>6, <2>7
<1> QED BY <1>2, <1>3 DEF CommitByte

LEMMA BodyPostPut ==
  ASSUME TypeInv, TypeInv', KeptInv, BodyInv, PostPut
  PROVE  BodyInv'
<1>1. pc = "put" /\ txt' = txt /\ posts' = posts
  BY DEF PostPut, body
<1>2. CASE Quiet /\ \E res \in {"failed", "full"} : Return(res)
  BY <1>1, <1>2, BodyReturn
<1>3. CASE /\ cur'.idx[job.id] = NewRecord
           /\ \A j \in DOMAIN cur'.idx : j = job.id \/ (j \in DOMAIN cur.idx /\ cur'.idx[j] = cur.idx[j])
           /\ Go("count", job) \/ Return("failed")
  <2>1. ~ skewed => Underway /\ \A j \in DOMAIN cur.idx : Intact(cur.idx[j], txt)
    BY <1>1 DEF BodyInv, Writing, Admitted
  <2>2. ASSUME ~ skewed, NEW j \in DOMAIN cur'.idx, j # job.id
        PROVE  Intact(cur'.idx[j], txt')
    BY <1>1, <1>3, <2>1, <2>2
  <2>3. CASE Go("count", job)
    <3>1. pc' = "count" /\ job' = job /\ skewed' = skewed
      BY <2>3 DEF Go
    <3>2. ~ skewed => Underway'
      BY <1>1, <2>1, <3>1 DEF Underway
    <3>3. DoneInv'
      BY <3>1 DEF DoneInv, Linking
    <3> QED BY <2>2, <3>1, <3>2, <3>3 DEF BodyInv, Writing, Admitted
  <2>4. CASE Return("failed")
    <3>1. pc' = "idle" /\ (~ skewed' => ~ skewed /\ EndsAt(cur'.idx, Len(txt')))
      BY <2>4, Returned
    <3>2. ASSUME ~ skewed', NEW j \in DOMAIN cur'.idx, j = job.id
          PROVE  Intact(cur'.idx[j], txt')
      <4>1. NewRecord.off = job.off /\ NewRecord.len = job.len /\ NewRecord.own = posts
        BY DEF NewRecord
      <4>2. NewRecord.off + NewRecord.len <= Len(txt)
        BY <1>1, <1>3, <3>1, <3>2 DEF EndsAt
      <4> QED BY <1>1, <1>3, <2>1, <3>1, <3>2, <4>1, <4>2, UnderwayIntact
    <3> QED BY <2>2, <3>1, <3>2, BodyIdle
  <2> QED BY <1>3, <2>3, <2>4
<1> QED BY <1>2, <1>3, PutStep DEF KeptInv

\* The steps from msg_next_id() to the new record.
LEMMA BodyLink ==
  ASSUME AllScansRead, TypeInv, TypeInv', KeptInv, BodyInv, Quiet, PostId \/ PostParent
  PROVE  BodyInv'
<1>1. pc \in {"id", "parent"} /\ txt' = txt /\ posts' = posts
  BY DEF PostId, PostParent, body
<1>2. PICK q \in {"parent", "put"},
           j \in {job, [job EXCEPT !.id = 1, !.root = 1],
                  [job EXCEPT !.id = Len(cur.idx) + 1, !.root = Len(cur.idx) + 1],
                  [job EXCEPT !.root = cur.idx[job.parent].root]} : Go(q, j)
  BY DEF PostId, PostParent
<1>3. j.off = job.off /\ j.len = job.len /\ j.done = job.done
  BY <1>2, KeptTyped DEF Jobs
<1>4. pc' = q /\ job' = j
  BY <1>2 DEF Go
<1>5. DoneInv'
  BY <1>2, <1>4 DEF DoneInv, Linking
<1>6. ~ skewed => Underway'
  BY <1>1, <1>3, <1>4 DEF BodyInv, Underway, Writing, Admitted
<1> QED BY <1>1, <1>2, <1>4, <1>5, <1>6, BodyGo DEF Writing, Admitted

\* The steps before msg_body_eof(), and those of the other calls.
LEMMA BodyBefore ==
  ASSUME TypeInv, TypeInv', KeptInv, BodyInv, Quiet, txt' = txt,
         NEW q \in {"board", "prune", "reload", "eof", "uncount"}, NEW j, Go(q, j),
         pc \in {"idle", "board", "prune", "reload"},
         q # "uncount" => j.done = 0
  PROVE  BodyInv'
<1>1. pc' = q /\ job' = j
  BY DEF Go
<1>2. DoneInv'
  BY <1>1 DEF DoneInv, Linking, Posting
<1> QED BY <1>1, <1>2, BodyGo DEF Writing, Admitted

LEMMA BodyEarly ==
  ASSUME TypeInv, TypeInv', KeptInv, BodyInv, Quiet,
         PostBoard \/ PruneRecord \/ PruneSave \/ PostReload
  PROVE  BodyInv'
<1>1. pc \in {"board", "prune", "reload"} /\ txt' = txt
  BY DEF PostBoard, PruneRecord, PruneSave, PostReload, body
<1>2. job.done = 0
  BY <1>1 DEF BodyInv, DoneInv, Linking, Posting, Steps
<1>3. CASE \E res \in {"failed", "full"} : Return(res)
  BY <1>1, <1>3, BodyReturn
<1>4. CASE PruneRecord
  <2> DEFINE go == [job EXCEPT !.rec = @ + 1]
             less == [go EXCEPT !.pruned = @ + 1, !.b.count = IF @ > 0 THEN @ - 1 ELSE 0]
  <2>1. go.done = 0 /\ less.done = 0
    BY <1>2, KeptTyped DEF Jobs
  <2>2. \E j \in {go, less} : Go("prune", j)
    BY <1>4 DEF PruneRecord
  <2> HIDE DEF go, less
  <2> QED BY <1>1, <2>1, <2>2, BodyBefore
<1>5. CASE ~ PruneRecord /\ ~ \E res \in {"failed", "full"} : Return(res)
  <2>1. PICK q \in {"prune", "reload", "eof"},
             j \in {job, [job EXCEPT !.b = cur.board, !.rec = 1], [job EXCEPT !.b = cur.board]} :
               Go(q, j)
    BY <1>5 DEF PostBoard, PruneSave, PostReload, Admit
  <2>2. j.done = 0
    BY <1>2, <2>1, KeptTyped DEF Jobs
  <2> QED BY <1>1, <2>1, <2>2, BodyBefore
<1> QED BY <1>3, <1>4, <1>5

LEMMA BodyCrash ==
  ASSUME TypeInv, KeptInv, BodyInv, Crash
  PROVE  BodyInv'
<1>1. /\ cur' = store /\ txt' = txt /\ pc' = "idle"
      /\ ~ skewed' => ~ skewed /\ EndsAt(store.idx, Len(txt))
  BY DEF Crash, body
<1>2. store.idx \in Index /\ \A i \in DOMAIN store.idx : i \in DOMAIN cur.idx /\ Same(store.idx[i], cur.idx[i])
  BY KeptTyped DEF KeptInv, KeptSets, Begins
<1>3. ASSUME ~ skewed', NEW i \in DOMAIN store.idx
      PROVE  Intact(store.idx[i], txt)
  BY <1>1, <1>2, <1>3, BodyBegins
<1> QED BY <1>1, <1>3, BodyIdle

LEMMA BodyStep ==
  ASSUME AllScansRead, TypeInv, TypeInv', KeptInv, BodyInv, [Next]_vars
  PROVE  BodyInv'
<1>1. CASE Crash
  BY <1>1, BodyCrash
<1>2. CASE PostPut
  BY <1>2, BodyPostPut
<1>3. CASE ~ Crash /\ ~ PostPut
  <2>1. Quiet
    BY <1>3, QuietStep DEF KeptInv
  <2>2. CASE PostBoard \/ PruneRecord \/ PruneSave \/ PostReload
    BY <2>1, <2>2, BodyEarly
  <2>3. CASE PostEof \/ CommitOpen \/ CommitByte \/ PostId \/ PostParent
    BY <2>1, <2>3, BodyPostEof, BodyCommitOpen, BodyCommitByte, BodyLink
  <2>4. CASE PostCount \/ DeleteUncount
    <3>1. txt' = txt /\ \E res \in {"ok", "failed"} : Return(res)
      BY <2>4 DEF PostCount, DeleteUncount, body
    <3> QED BY <2>1, <3>1, BodyReturn
  <2>5. ASSUME NEW i \in 1..MaxPerBoard, MsgDelete(i)
        PROVE  BodyInv'
    <3>1. pc = "idle" /\ txt' = txt
          /\ (Go("uncount", NoJob) \/ \E res \in {"ok", "failed"} : Return(res))
      BY <2>5 DEF MsgDelete, body
    <3> QED BY <2>1, <3>1, BodyReturn, BodyBefore
  <2>6. ASSUME NEW parent \in {0} \cup DOMAIN cur.idx, NEW len \in Lens, MsgPost(parent, len)
        PROVE  BodyInv'
    <3> DEFINE j == [NoJob EXCEPT !.parent = parent, !.len = len]
    <3>1. pc = "idle" /\ txt' = txt /\ Go("board", j)
      BY <2>6 DEF MsgPost, body
    <3>2. j.done = 0
      BY DEF NoJob
    <3> HIDE DEF j
    <3> QED BY <2>1, <3>1, <3>2, BodyBefore
  <2>7. CASE OtherAccess
    <3>1. cur' = cur /\ txt' = txt /\ pc' = pc /\ job' = job /\ posts' = posts /\ skewed' = skewed
      BY <2>7, Accessed DEF OtherAccess, body, history
    <3> QED BY <3>1 DEF BodyInv, DoneInv, Underway
  <2>8. CASE UNCHANGED vars
    <3>1. cur' = cur /\ txt' = txt /\ pc' = pc /\ job' = job /\ posts' = posts /\ skewed' = skewed
      BY <2>8 DEF vars, records, body
    <3> QED BY <3>1 DEF BodyInv, DoneInv, Underway
  <2> QED BY <1>3, <2>2, <2>3, <2>4, <2>5, <2>6, <2>7, <2>8 DEF Next
<1> QED BY <1>1, <1>2, <1>3

LEMMA BodyInit == Init => BodyInv
<1> SUFFICES ASSUME Init PROVE BodyInv
  OBVIOUS
<1>1. cur.idx = << >> /\ txt = << >> /\ pc = "idle"
  BY DEF Init
<1>2. Eof(cur.idx) = 0
  <2>1. {0} \cup {EndOf(cur.idx[i]) : i \in DOMAIN cur.idx} = {0, 0}
    BY <1>1
  <2>2. Max({0, 0}) = 0
    BY MaxOfTwo
  <2> QED BY <2>1, <2>2 DEF Eof
<1>3. EndsAt(cur.idx, Len(txt))
  BY <1>1, <1>2 DEF EndsAt
<1> QED BY <1>1, <1>3 DEF BodyInv, DoneInv, Writing, Admitted, Linking, Posting

\* What msg_body_each_line() streams for a message whose body is intact.
LEMMA IntactBody ==
  ASSUME TypeInv, NEW i \in DOMAIN cur.idx, Intact(cur.idx[i], txt)
  PROVE  OwnBody(cur.idx[i])
<1> DEFINE r == cur.idx[i]
<1>1. r.off \in Nat /\ r.len \in Nat /\ Len(txt) \in Nat /\ txt \in Seq(1..MaxPosts)
  BY KeptTyped, RecordNumbers, JobNumbers DEF TypeInv, RestTyped
<1> HIDE DEF r
<1>2. r.off + r.len <= Len(txt) /\ \A k \in (r.off + 1)..(r.off + r.len) : txt[k] = r.own
  BY DEF Intact, r
<1>3. Min({r.off + r.len, Len(txt)}) = r.off + r.len
  <2> DEFINE a == r.off + r.len
             b == Len(txt)
  <2>1. a \in Int /\ b \in Int /\ a <= b
    BY <1>1, <1>2
  <2> HIDE DEF a, b
  <2>2. a \in {a, b} /\ \A y \in {a, b} : a <= y
    BY <2>1
  <2>3. \A x \in {a, b} : (\A y \in {a, b} : x <= y) => x = a
    BY <2>1
  <2>4. Min({a, b}) = a
    BY <2>2, <2>3 DEF Min
  <2> QED BY <2>4 DEF a, b
<1>4. BodyOf(r) = SubSeq(txt, r.off + 1, r.off + r.len)
  BY <1>3 DEF BodyOf
<1>5. SubSeq(txt, r.off + 1, r.off + r.len) = [k \in 1..r.len |-> txt[k + r.off]]
  BY <1>1, <1>2
<1>6. \A k \in 1..r.len : txt[k + r.off] = r.own
  BY <1>1, <1>2
<1>7. [k \in 1..r.len |-> txt[k + r.off]] = [k \in 1..r.len |-> r.own]
  BY <1>6
<1> QED BY <1>4, <1>5, <1>7 DEF OwnBody, r

\* While no scan fails, and as long as the file ends where the index says, every
\* message reads back as its own body.
THEOREM BodiesKept == AllScansRead => (Spec => []BodiesIntact)
<1> SUFFICES ASSUME AllScansRead PROVE Spec => []BodiesIntact
  OBVIOUS
<1>1. Init => BodyInv
  BY BodyInit
<1>2. TypeInv /\ TypeInv' /\ KeptInv /\ BodyInv /\ [Next]_vars => BodyInv'
  BY BodyStep
<1>3. TypeInv /\ BodyInv => BodiesIntact
  <2> SUFFICES ASSUME TypeInv, BodyInv, pc = "idle", ~ skewed, NEW i \in DOMAIN cur.idx
               PROVE  OwnBody(cur.idx[i])
    BY DEF BodiesIntact
  <2>1. Intact(cur.idx[i], txt)
    BY DEF BodyInv
  <2> QED BY <2>1, IntactBody
<1> QED BY <1>1, <1>2, <1>3, KeptAlways, PTL DEF Spec
=============================================================================
