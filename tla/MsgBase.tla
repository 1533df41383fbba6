------------------------------- MODULE MsgBase -------------------------------
(***************************************************************************)
(* One message board (src/src/data/messages.c) on the SIEC build.          *)
(*                                                                         *)
(* A board is three files: its record in BOARDS, the index B<n>.IDX and    *)
(* the bodies B<n>.TXT.  Posting, deleting and pruning touch them one      *)
(* after the other, each disk operation may fail, and a reset may fall     *)
(* between any two.  Nothing records where B<n>.TXT ends: msg_post()       *)
(* derives it from the index.                                              *)
(*                                                                         *)
(* The two record sets follow RecordStore: cur is what their readers see,  *)
(* store what a reset leaves, and a rel_close() that fails leaves its      *)
(* record in cur, to be saved by the next rel_open() that succeeds.        *)
(***************************************************************************)
EXTENDS Integers, Sequences, FiniteSets, FiniteSetsExt

CONSTANTS
  MaxPerBoard,  \* CFG_MSG_MAX_PER_BOARD: records the index has room for
  Limit,        \* board.max_msgs, or CFG_MSG_LIMIT_DEFAULT
  Batch,        \* CFG_MSG_PRUNE_BATCH
  Lens,         \* lengths of the bodies callers write
  OffMod,       \* body_offset is a u16: 2^16 in the code
  MaxPosts,     \* bound on the calls of msg_post()
  Faults,       \* the operations that may fail, of FaultKinds
  MaxFaults     \* bound on how often they do, resets in mid-call included

FaultKinds ==
  { "open",     \* rel_open() fails: drive init string, partition, load
    "scan",     \* ... inside msg_scan_all(), which then reports no record
    "flush",    \* the save in rel_close() fails, or its retry in rel_open()
    "append",   \* opening or writing B<n>.TXT reports an error
    "lost" }    \* the drive drops body bytes and disk_putc() does not notice

ASSUME BoundsAssumption ==
  /\ MaxPerBoard \in Nat \ {0} /\ Limit \in Nat \ {0} /\ Batch \in Nat \ {0}
  /\ Lens \subseteq Nat
  /\ OffMod \in Nat \ {0} /\ MaxPosts \in Nat /\ MaxFaults \in Nat
  /\ Faults \subseteq FaultKinds

VARIABLES
  cur,      \* [idx, board]: the index and the board record, as read
  store,    \* [idx, board]: the same on disk
  exists,   \* is there a B<n>.TXT?
  txt,      \* its bytes, each the number of the post that wrote it
  pc,       \* the step msg_post() or msg_delete() is at
  job,      \* the locals of the running call
  result,   \* what the last call returned
  posts,    \* history: calls of msg_post() so far
  acked,    \* history: posts that msg_post() reported as done
  faults,   \* history: failures so far, and resets that cut a call off
  skewed    \* history: a call or a reset left B<n>.TXT ending elsewhere than
            \* the index says, or with more than the index can say

records == <<cur, store>>
body    == <<exists, txt>>
history == <<posts, acked, skewed>>
vars    == <<records, body, pc, job, result, posts, acked, faults, skewed>>

-----------------------------------------------------------------------------
(* The index and the bodies. *)

\* body_offset + body_len of record r, in u16 arithmetic.
EndOf(r) == (r.off + r.len) % OffMod

\* Mutant: deleted records do not count.
EofOfLive(s) == Max({0} \cup {EndOf(s[i]) : i \in {j \in DOMAIN s : ~s[j].del}})

\* msg_body_eof(): the highest end of any record, deleted ones included.
Eof(s) == Max({0} \cup {EndOf(s[i]) : i \in DOMAIN s})

\* The bodies of index s end where a file of n bytes does.
EndsAt(s, n) == Eof(s) = n /\ \A i \in DOMAIN s : s[i].off + s[i].len <= n

Live(s) == {i \in DOMAIN s : ~s[i].del}

\* rel_write() at record i: records are numbered by msg_id.
WithRecord(s, i, r) ==
  [j \in 1..Max({i, Len(s)}) |-> IF j = i THEN r ELSE s[j]]

\* What msg_body_each_line() streams for record r: it stops at the end of the file.
BodyOf(r) == SubSeq(txt, r.off + 1, Min({r.off + r.len, Len(txt)}))

-----------------------------------------------------------------------------
(* One access to a record set: open, which first retries a save that failed, *)
(* then read or write, then close.                                           *)

Fault       == faults < MaxFaults /\ faults' = faults + 1
NoFault     == UNCHANGED faults

ReadDone    == cur' = cur /\ store' = cur /\ NoFault
SaveDone(c) == cur' = c /\ store' = c /\ NoFault
SaveLost(c) == "flush" \in Faults /\ cur' = c /\ store' = cur /\ Fault
\* The open fails: in the retry of the save that failed, or before or after it.
Fails(kind) == /\ cur' = cur /\ Fault
               /\ \/ kind \in Faults /\ store' \in {store, cur}
                  \/ "flush" \in Faults /\ cur # store /\ store' = store
AccessFails == Fails("open")
\* Inside msg_scan_all(): its callers then see an empty index.
ScanFails   == Fails("scan")
\* The read of a read-then-write pair is done, the open for the write fails.
WriteFails  == "open" \in Faults /\ cur' = cur /\ store' = cur /\ Fault

-----------------------------------------------------------------------------
NoBoard == [count |-> 0, high |-> 0]
NoJob == [parent |-> 0, len |-> 0, b |-> NoBoard, rec |-> 0, pruned |-> 0,
          off |-> 0, done |-> 0, id |-> 0, root |-> 0]

Init ==
  /\ cur = [idx |-> << >>, board |-> NoBoard] /\ store = cur
  /\ exists = FALSE /\ txt = << >>
  /\ pc = "idle" /\ job = NoJob /\ result = "none"
  /\ posts = 0 /\ acked = {} /\ faults = 0 /\ skewed = FALSE

\* The running call returns res.
Return(res) ==
  /\ pc' = "idle" /\ job' = NoJob /\ result' = res
  /\ skewed' = (skewed \/ ~EndsAt(cur'.idx, Len(txt')))

\* The running call goes on at step s with locals j.
Go(s, j) == pc' = s /\ job' = j /\ UNCHANGED <<result, skewed>>

-----------------------------------------------------------------------------
(* msg_post(). *)

\* A caller saves a compose buffer of len bytes, as a reply to parent (0: none).
MsgPost(parent, len) ==
  /\ pc = "idle" /\ posts < MaxPosts
  /\ posts' = posts + 1
  /\ Go("board", [NoJob EXCEPT !.parent = parent, !.len = len])
  /\ UNCHANGED <<records, body, acked, faults>>

\* With the board record b at hand: the hard ceiling.
Admit(b) == IF b.count >= MaxPerBoard THEN Return("full")
                                      ELSE Go("eof", [job EXCEPT !.b = b])

\* Mutant: a board is pruned once it is above its limit.
PostBoardLate ==
  /\ pc = "board"
  /\ UNCHANGED <<body, posts, acked>>
  /\ \/ ReadDone /\ IF cur.board.count > Limit
                      THEN Go("prune", [job EXCEPT !.b = cur.board, !.rec = 1])
                      ELSE Admit(cur.board)
     \/ AccessFails /\ Return("failed")

\* board_by_id(); a board at its limit is pruned first.
PostBoard ==
  /\ pc = "board"
  /\ UNCHANGED <<body, posts, acked>>
  /\ \/ ReadDone /\ IF cur.board.count >= Limit
                      THEN Go("prune", [job EXCEPT !.b = cur.board, !.rec = 1])
                      ELSE Admit(cur.board)
     \/ AccessFails /\ Return("failed")

\* msg_prune_quantity(), one record: a record that cannot be read is skipped, and
\* the result of msg_index_put() is ignored.
PruneRecord ==
  /\ pc = "prune" /\ job.rec <= MaxPerBoard /\ job.pruned < Batch
  /\ UNCHANGED <<body, posts, acked>>
  /\ LET i    == job.rec
         c    == [cur EXCEPT !.idx[i].del = TRUE]
         next == [job EXCEPT !.rec = @ + 1]
         less == [next EXCEPT !.pruned = @ + 1,
                              !.b.count = IF @ > 0 THEN @ - 1 ELSE 0]
     IN \/ AccessFails /\ Go("prune", next)
        \/ i \notin Live(cur.idx) /\ ReadDone /\ Go("prune", next)
        \/ i \in Live(cur.idx) /\ (SaveDone(c) \/ SaveLost(c) \/ WriteFails)
                               /\ Go("prune", less)

\* ... and its board_save().
PruneSave ==
  /\ pc = "prune" /\ ~(job.rec <= MaxPerBoard /\ job.pruned < Batch)
  /\ UNCHANGED <<body, posts, acked>>
  /\ LET c == [cur EXCEPT !.board = job.b] IN
       \/ SaveDone(c) /\ Go("reload", job)
       \/ (SaveLost(c) \/ AccessFails) /\ Return("failed")

PostReload ==
  /\ pc = "reload"
  /\ UNCHANGED <<body, posts, acked>>
  /\ \/ ReadDone /\ Admit(cur.board)
     \/ AccessFails /\ Return("failed")

PostEof ==
  /\ pc = "eof"
  /\ UNCHANGED <<body, posts, acked>>
  /\ \/ ReadDone /\ Go("commit", [job EXCEPT !.off = Eof(cur.idx)])
     \/ ScanFails /\ Go("commit", [job EXCEPT !.off = 0])

\* reu_compose_commit() opens B<n>.TXT: offset 0 means "write a new file", which
\* the drive refuses when there is one (DOS 63), any other offset "append".  The
\* bytes of a refused open go nowhere; disk_putc() may or may not notice.
CommitOpen ==
  /\ pc = "commit"
  /\ UNCHANGED <<records, txt, posts, acked>>
  /\ LET fits == (job.off = 0) # exists
         next == IF job.len = 0 THEN "id" ELSE "write"
     IN \/ fits /\ exists' = TRUE /\ NoFault /\ Go(next, job)
        \/ ~fits /\ NoFault /\ UNCHANGED exists /\ (Go("id", job) \/ Return("failed"))
        \/ "append" \in Faults /\ Fault /\ UNCHANGED exists /\ Return("failed")

\* ... and writes one byte.
CommitByte ==
  /\ pc = "write"
  /\ UNCHANGED <<records, exists, posts, acked>>
  /\ LET done == job.done + 1
         next == IF done = job.len THEN "id" ELSE "write"
     IN \/ /\ txt' = Append(txt, posts) /\ NoFault
           /\ Go(next, [job EXCEPT !.done = done])
        \/ /\ "lost" \in Faults /\ UNCHANGED txt /\ Fault
           /\ Go(next, [job EXCEPT !.done = done])
        \/ "append" \in Faults /\ UNCHANGED txt /\ Fault /\ Return("failed")

\* Mutant: the new message gets the number after the live count.
PostIdByCount ==
  /\ pc = "id"
  /\ UNCHANGED <<body, posts, acked>>
  /\ LET at(i) == Go(IF job.parent > 0 THEN "parent" ELSE "put",
                     [job EXCEPT !.id = i, !.root = i])
     IN \/ ReadDone /\ at(job.b.count + 1)
        \/ ScanFails /\ at(1)

\* msg_next_id(): one more than the highest msg_id in the index.
PostId ==
  /\ pc = "id"
  /\ UNCHANGED <<body, posts, acked>>
  /\ LET at(i) == Go(IF job.parent > 0 THEN "parent" ELSE "put",
                     [job EXCEPT !.id = i, !.root = i])
     IN \/ ReadDone /\ at(Len(cur.idx) + 1)
        \/ ScanFails /\ at(1)

\* Mutant: the parent itself is taken for the root of its thread.
PostParentAsRoot ==
  /\ pc = "parent"
  /\ UNCHANGED <<body, posts, acked>>
  /\ LET p == job.parent
         c == [cur EXCEPT !.idx[p].replies = @ + 1]
     IN \/ /\ SaveDone(c) \/ SaveLost(c) \/ WriteFails
           /\ Go("put", [job EXCEPT !.root = p])
        \/ AccessFails /\ Go("put", job)

\* The parent counts the reply (a failure of that is ignored) and passes its
\* thread on; a parent that cannot be read leaves an orphan, its own root.
PostParent ==
  /\ pc = "parent"
  /\ UNCHANGED <<body, posts, acked>>
  /\ LET p == job.parent
         c == [cur EXCEPT !.idx[p].replies = @ + 1]
     IN \/ /\ SaveDone(c) \/ SaveLost(c) \/ WriteFails
           /\ Go("put", [job EXCEPT !.root = cur.idx[p].root])
        \/ AccessFails /\ Go("put", job)

\* Mutant: there is no capacity to respect.
PostPutNoLimit ==
  /\ pc = "put"
  /\ UNCHANGED <<body, posts, acked>>
  /\ LET r == [off |-> job.off, len |-> job.len, del |-> FALSE,
               root |-> job.root, parent |-> job.parent, replies |-> 0,
               own |-> posts]
         c == [cur EXCEPT !.idx = WithRecord(@, job.id, r)]
     IN \/ SaveDone(c) /\ Go("count", job)
        \/ SaveLost(c) /\ Return("failed")
        \/ AccessFails /\ Return("failed")

\* msg_index_put() of the new record; past the region's capacity it is refused.
PostPut ==
  /\ pc = "put"
  /\ UNCHANGED <<body, posts, acked>>
  /\ LET r == [off |-> job.off, len |-> job.len, del |-> FALSE,
               root |-> job.root, parent |-> job.parent, replies |-> 0,
               own |-> posts]
         c == [cur EXCEPT !.idx = WithRecord(@, job.id, r)]
     IN \/ job.id <= MaxPerBoard /\ SaveDone(c) /\ Go("count", job)
        \/ job.id <= MaxPerBoard /\ SaveLost(c) /\ Return("failed")
        \/ job.id > MaxPerBoard /\ ReadDone /\ Return("full")
        \/ AccessFails /\ Return("failed")

\* Mutant: the save that rel_close() could not do is taken for done.
PostCountNoKeep ==
  /\ pc = "count"
  /\ UNCHANGED <<body, posts>>
  /\ LET c == [cur EXCEPT !.board = [count |-> job.b.count + 1,
                                     high |-> Max({job.b.high, job.id})]]
     IN \/ (SaveDone(c) \/ SaveLost(c)) /\ Return("ok")
                                         /\ acked' = acked \cup {posts}
        \/ AccessFails /\ Return("failed") /\ UNCHANGED acked

\* board_save() with the count and the high id brought up to date.
PostCount ==
  /\ pc = "count"
  /\ UNCHANGED <<body, posts>>
  /\ LET c == [cur EXCEPT !.board = [count |-> job.b.count + 1,
                                     high |-> Max({job.b.high, job.id})]]
     IN \/ SaveDone(c) /\ Return("ok") /\ acked' = acked \cup {posts}
        \/ (SaveLost(c) \/ AccessFails) /\ Return("failed") /\ UNCHANGED acked

-----------------------------------------------------------------------------
(* msg_delete(), the other calls, and a reset. *)

\* Mutant: deleting a deleted message counts it down again.
DeleteAgain(i) ==
  /\ pc = "idle" /\ i \in DOMAIN cur.idx
  /\ UNCHANGED <<body, posts, acked>>
  /\ LET c == [cur EXCEPT !.idx[i].del = TRUE] IN
       \/ SaveDone(c) /\ Go("uncount", NoJob)
       \/ (SaveLost(c) \/ WriteFails \/ AccessFails) /\ Return("failed")

\* The message's record; one deleted already needs nothing more.
MsgDelete(i) ==
  /\ pc = "idle" /\ i \in DOMAIN cur.idx
  /\ UNCHANGED <<body, posts, acked>>
  /\ LET c == [cur EXCEPT !.idx[i].del = TRUE] IN
       \/ i \notin Live(cur.idx) /\ ReadDone /\ Return("ok")
       \/ i \in Live(cur.idx) /\ SaveDone(c) /\ Go("uncount", NoJob)
       \/ i \in Live(cur.idx) /\ (SaveLost(c) \/ WriteFails) /\ Return("failed")
       \/ AccessFails /\ Return("failed")

\* ... and the count in the board record.
DeleteUncount ==
  /\ pc = "uncount"
  /\ UNCHANGED <<body, posts, acked>>
  /\ LET c == [cur EXCEPT !.board.count = IF @ > 0 THEN @ - 1 ELSE 0] IN
       \/ SaveDone(c) /\ Return("ok")
       \/ (SaveLost(c) \/ WriteFails \/ AccessFails) /\ Return("failed")

\* Any other caller's rel_open(): a save that failed is retried.
OtherAccess ==
  /\ pc = "idle" /\ cur # store
  /\ ReadDone
  /\ UNCHANGED <<body, pc, job, result, history>>

\* Reset of the machine.
Crash ==
  /\ cur' = store /\ UNCHANGED <<store, body, posts, acked>>
  /\ pc' = "idle" /\ job' = NoJob /\ result' = "none"
  /\ IF pc = "idle" THEN NoFault ELSE Fault
  /\ skewed' = (skewed \/ ~EndsAt(store.idx, Len(txt)))

-----------------------------------------------------------------------------
Next ==
  \/ \E parent \in {0} \cup DOMAIN cur.idx, len \in Lens : MsgPost(parent, len)
  \/ PostBoard \/ PruneRecord \/ PruneSave \/ PostReload
  \/ PostEof \/ CommitOpen \/ CommitByte
  \/ PostId \/ PostParent \/ PostPut \/ PostCount
  \/ \E i \in 1..MaxPerBoard : MsgDelete(i)
  \/ DeleteUncount \/ OtherAccess \/ Crash

Spec == Init /\ [][Next]_vars

-----------------------------------------------------------------------------
(* Properties. *)

Message ==
  [off : 0..(OffMod - 1), len : Lens, del : BOOLEAN, root : 1..MaxPerBoard,
   parent : 0..MaxPerBoard, replies : 0..MaxPosts, own : 1..MaxPosts]
Board == [count : 0..MaxPerBoard, high : 0..MaxPerBoard]
Index == {s \in Seq(Message) : Len(s) <= MaxPerBoard}

\* The index never outgrows its region, and the counters of the board record and
\* of the running call stay within the board.
TypeOK ==
  /\ cur \in [idx : Index, board : Board]
  /\ store \in [idx : Index, board : Board]
  /\ exists \in BOOLEAN /\ txt \in Seq(1..MaxPosts)
  /\ pc \in {"idle", "board", "prune", "reload", "eof", "commit", "write", "id",
             "parent", "put", "count", "uncount"}
  /\ job \in [parent : 0..MaxPerBoard, len : Lens \cup {0}, b : Board,
              rec : 0..(MaxPerBoard + 1), pruned : 0..Batch,
              off : 0..(OffMod - 1), done : Nat, id : 0..(MaxPerBoard + 1),
              root : 0..(MaxPerBoard + 1)]
  /\ result \in {"none", "ok", "failed", "full"}
  /\ posts \in 0..MaxPosts /\ acked \subseteq 1..MaxPosts
  /\ faults \in 0..MaxFaults /\ skewed \in BOOLEAN

OwnBody(r) == BodyOf(r) = [k \in 1..r.len |-> r.own]

\* As long as no lost byte, failed call or reset has left B<n>.TXT ending elsewhere
\* than the index says, every message, deleted ones included, reads back as its
\* own body: the end derived from the index is the end of the file.
BodiesIntact ==
  pc = "idle" /\ ~skewed => \A i \in DOMAIN cur.idx : OwnBody(cur.idx[i])

\* Between calls the board record counts the live messages and names the last id,
\* and at no time, not even while a post is under way, does a board hold more live
\* messages than its limit: unless an operation on it has failed or was cut off.
CountsExact ==
  faults = 0 =>
    /\ Cardinality(Live(cur.idx)) <= Limit
    /\ pc = "idle" => /\ cur.board.count = Cardinality(Live(cur.idx))
                      /\ cur.board.high = Len(cur.idx)

\* Every thread has a root that is its own root, and a reply is in the thread of
\* its parent or in its own: in what is read and in what a reset leaves.
ThreadsRooted ==
  \A s \in {cur.idx, store.idx} : \A i \in DOMAIN s :
    /\ s[i].root \in 1..i /\ s[s[i].root].root = s[i].root
    /\ s[i].parent \in 0..(i - 1)
    /\ s[i].root # i => s[i].parent # 0 /\ s[i].root = s[s[i].parent].root

\* A message msg_post() reported as posted is in the index a reset leaves, and
\* within the highest id its board record names, where readers stop looking.
AckedDurable ==
  \A n \in acked : \E i \in DOMAIN store.idx :
    store.idx[i].own = n /\ i <= store.board.high

\* A message keeps its number: no post or delete puts another one in its place.
NeverOverwritten ==
  [][\A i \in DOMAIN cur.idx \cap DOMAIN cur'.idx :
       cur'.idx[i].own = cur.idx[i].own]_vars

\* Pruning takes the oldest messages first.
PrunesOldest ==
  [][pc = "prune" /\ faults' = 0 =>
       \A i \in Live(cur.idx) \ Live(cur'.idx) :
         \A j \in Live(cur.idx) : i <= j]_vars

\* README.md:590: there is a "hard ceiling of CFG_MSG_MAX_PER_BOARD messages per
\* board - posting beyond it fails".  So a post is refused as full only then.
RefusedOnlyAtCeiling ==
  result = "full" => Cardinality(Live(cur.idx)) >= MaxPerBoard

\* include/bbs/hal/reu.h:67: reu_compose_commit() gets the "current EOF position
\* (see msg_body_eof)".  So a post reported as posted reads back as its own body.
PostedReadable ==
  pc = "idle" =>
    \A i \in DOMAIN cur.idx : cur.idx[i].own \in acked => OwnBody(cur.idx[i])

\* include/bbs/records.h:83: msg_high_id is the "highest msg_id ever allocated",
\* and (line 62) spares msg_post() the scan of the index.  So a new message gets
\* a number above it.
FreshId == pc = "put" => job.id > cur.board.high
=============================================================================
