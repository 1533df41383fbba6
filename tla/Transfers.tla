------------------------------ MODULE Transfers ------------------------------
(***************************************************************************)
(* The file areas and the two transfer protocols: src/src/features/files.c *)
(* and xfer.c, src/src/net/punter.c and zmodem.c, and the records of       *)
(* src/src/data/file_areas.c and file_entries.c.                           *)
(*                                                                         *)
(* A file is a sequence of chunks, and a chunk the number of the upload it *)
(* came with and its place: what matters is which chunks arrive, how often *)
(* and in which order.  The caller's terminal is external.  With Punter    *)
(* one block is under way at a time, so an exchange and its retries are    *)
(* one step; with Zmodem the sender streams, and what it has sent stays in *)
(* line until the BBS reads it, whatever the BBS has answered meanwhile.   *)
(***************************************************************************)
EXTENDS Naturals, Sequences, SequencesExt

CONSTANTS
  Names,         \* file names a caller gives: one directory for all areas
  Levels,        \* access level of each area, by number, and of its files
  UploadLevels,  \* upload_level of each area
  Level,         \* the caller's own
  MaxChunks,     \* bound on the chunks of a file
  Slots,         \* records of UD<n>: 255 in the code
  MaxUploads,    \* bound on the uploads begun
  MaxDownloads,  \* bound on the downloads of one record
  Window,        \* bound on the frames a Zmodem sender has under way
  MaxFaults,     \* bound on frames damaged, answers lost and disk errors
  MaxResends,    \* bound on a Zmodem sender's starting over unasked
  Absent         \* the content of a file that is not there

\* Chunk i of the v-th upload; chunk 0 is what is left of one of its chunks when
\* the drive has dropped bytes of it.
Chunk == (1..MaxUploads) \X (0..MaxChunks)

ASSUME TransfersAssumption ==
  /\ Levels \in Seq(Nat) /\ Levels # << >> /\ Level \in Nat
  /\ UploadLevels \in [1..Len(Levels) -> Nat]
  /\ {MaxChunks, Slots, Window} \subseteq Nat \ {0}
  /\ {MaxUploads, MaxDownloads, MaxFaults, MaxResends} \subseteq Nat
  /\ Absent \notin Seq(Chunk)

VARIABLES
  disk,        \* the files of DEV_FILES, by name
  entries,     \* UD<n>: for each area its records, in order
  total_files, \* UDS: each area's count
  uploads,     \* s->user.uploads
  area, area_idx, \* files_run()'s record of an area (by its id), and its number
  area_files,  \* total_files in that record
  at,          \* where the BBS is
  job,         \* what fl_download() or fl_upload() was asked for
  file,        \* what the sending side has to send
  got,         \* what the receiving terminal has taken
  result,      \* what the transfer returned
  fpos, line, reply, sender, resends, \* a Zmodem upload
  declined,    \* history: the terminal had nothing to send, or skipped the file
  damaged,     \* history: a frame of this transfer was lost or damaged, ZEOF apart
  dropped,     \* history: the drive ended a read of this transfer early, or dropped
               \* bytes of a write, and no call said so
  unmade,      \* history: names disk_open() has scratched and failed to make again
  unkept,      \* history: areas with an entry or a count that was not saved
  faults, begun  \* history: faults, uploads begun

catalogue == <<entries, total_files, uploads>>
zmodem    == <<fpos, line, reply, sender, resends>>
selected  == <<area, area_idx, area_files>>
told    == <<declined, damaged, dropped, begun>>
history == <<told, unmade, unkept>>
vars == <<disk, catalogue, selected, at, job, file, got, result, zmodem,
          history, faults>>

Areas  == 1..Len(Levels)
NoJob  == [dir |-> "none", proto |-> "none", name |-> "none", slot |-> 0]
Chunks(v, n) == [i \in 1..n |-> <<v, i>>]
Content(n) == IF disk[n] = Absent THEN << >> ELSE disk[n]
Fault == faults < MaxFaults /\ faults' = faults + 1
Idle  == fpos = 0 /\ line = << >> /\ reply = << >> /\ sender = [at |-> "idle", pos |-> 0]

\* The transfer returns r to fl_download() or fl_upload().
Returns(r) ==
  /\ at' = "done" /\ result' = r
  /\ fpos' = 0 /\ line' = << >> /\ reply' = << >>
  /\ sender' = [at |-> "idle", pos |-> 0] /\ resends' = 0

-----------------------------------------------------------------------------
(* The prompt of files_run(). *)

Permitted(n) == n \in Areas /\ Levels[n] <= Level

\* Mutant: a number that is refused is remembered all the same.
JumpAnyway ==
  /\ at = "prompt"
  /\ \E n \in 1..(Len(Levels) + 1) :
       area' = (IF n \in Areas THEN n ELSE Len(Levels)) /\ area_idx' = n
  /\ area_files' = total_files[area']
  /\ UNCHANGED <<disk, catalogue, at, job, file, got, result, zmodem, faults, history>>

\* Mutant: the count at hand is still that of the area before.
JumpStale ==
  /\ at = "prompt"
  /\ \E n \in 1..(Len(Levels) + 1) :
       /\ area' = IF n \in Areas THEN n ELSE Len(Levels)
       /\ area_idx' = IF Permitted(n) THEN n ELSE area_idx
  /\ UNCHANGED <<area_files, disk, catalogue, at, job, file, got, result, zmodem,
                 faults, history>>

\* A number: fl_load_area() reads into the current record before it knows
\* whether the area exists and the caller may have it.
Jump ==
  /\ at = "prompt"
  /\ \E n \in 1..(Len(Levels) + 1) :
       /\ area' = IF n \in Areas THEN n ELSE Len(Levels)
       /\ area_idx' = IF Permitted(n) THEN n ELSE area_idx
  /\ area_files' = total_files[area']
  /\ UNCHANGED <<disk, catalogue, at, job, file, got, result, zmodem, faults, history>>

\* + and -: fl_shift_area() goes round to the next area the caller may have.
Shift ==
  /\ at = "prompt"
  /\ \E forward \in BOOLEAN :
       LET total == Len(Levels)
           from == IF area_idx = 0 /\ ~forward THEN 1 ELSE area_idx
           far(k) == IF forward THEN ((from + k - 1) % total) + 1
                     ELSE ((from + total - k - 1) % total) + 1
           tries == {k \in 1..total : Permitted(far(k))}
       IN  \E k \in tries :
             /\ \A j \in tries : k <= j
             /\ area' = far(k) /\ area_idx' = far(k)
  /\ area_files' = total_files[area']
  /\ UNCHANGED <<disk, catalogue, at, job, file, got, result, zmodem, faults, history>>

\* D: a record of the current area, and P or Z.  A file that is not there
\* opens all the same and reads as empty.
Download ==
  /\ at = "prompt" /\ area_idx # 0 /\ Levels[area] <= Level
  /\ \E slot \in DOMAIN entries[area], proto \in {"punter", "zmodem"} :
       LET e == entries[area][slot] IN
       /\ e.downloads < MaxDownloads
       /\ job' = [dir |-> "down", proto |-> proto, name |-> e.name, slot |-> slot]
       /\ file' = Content(e.name) /\ got' = << >>
       /\ at' = IF proto = "punter" THEN "psend" ELSE "zsend"
  /\ declined' = FALSE /\ damaged' = FALSE /\ dropped' = FALSE
  /\ UNCHANGED <<disk, catalogue, selected, result, zmodem, faults, begun, unmade, unkept>>

\* U: a name and a protocol.  punter_recv() opens the file for writing at
\* once, which SoftIEC refuses for a name that exists.
Upload ==
  /\ at = "prompt" /\ area_idx # 0 /\ UploadLevels[area] <= Level
  /\ begun < MaxUploads
  /\ begun' = begun + 1 /\ declined' = FALSE /\ damaged' = FALSE /\ dropped' = FALSE
  /\ \E n \in Names, proto \in {"punter", "zmodem"}, len \in 0..MaxChunks :
       /\ job' = [dir |-> "up", proto |-> proto, name |-> n, slot |-> 0]
       /\ file' = Chunks(begun + 1, len) /\ got' = << >>
       /\ \/ /\ proto = "zmodem" /\ at' = "zhello"
             /\ UNCHANGED <<disk, result, zmodem, faults>>
          \/ /\ proto = "punter" /\ Returns("err") /\ UNCHANGED disk
             /\ (disk[n] # Absent /\ UNCHANGED faults) \/ Fault
          \/ /\ proto = "punter" /\ disk[n] = Absent /\ at' = "precv"
             /\ disk' = [disk EXCEPT ![n] = << >>] /\ UNCHANGED <<result, zmodem, faults>>
  /\ UNCHANGED <<catalogue, selected, unmade, unkept>>

Full == Len(entries[area]) = Slots

\* fentry_add(): in the first slot that is free, if there is one.
AddEntry ==
  entries' = IF Full THEN entries
             ELSE [entries EXCEPT ![area] =
                     Append(@, [name |-> job.name, empty |-> declined, downloads |-> 0])]

\* fentry_save(), of a record with one more download.
SaveEntry == entries' = [entries EXCEPT ![area][job.slot].downloads = @ + 1]

\* file_area_save(), of the record at hand.
SaveArea == total_files' = [total_files EXCEPT ![area] = area_files']

Prompts ==
  /\ at' = "prompt" /\ job' = NoJob /\ file' = << >> /\ got' = << >> /\ result' = "none"
  /\ UNCHANGED <<disk, area, area_idx, zmodem, told, unmade>>

\* Mutant: an upload is listed unless the caller cancelled it.
BookkeepingHasty ==
  /\ at = "done" /\ Prompts
  /\ IF job.dir = "up" /\ result # "cancel" THEN AddEntry ELSE UNCHANGED entries
  /\ UNCHANGED <<area_files, total_files, uploads, faults, unkept>>

\* After a download the record is saved.  After an upload one is added, and the
\* counts of the area and of the caller follow.  Nobody looks at a result.
Bookkeeping ==
  /\ at = "done" /\ Prompts
  /\ \/ result # "ok" /\ UNCHANGED <<area_files, catalogue, faults, unkept>>
     \/ /\ result = "ok" /\ job.dir = "down"
        /\ (SaveEntry /\ UNCHANGED faults) \/ (Fault /\ UNCHANGED entries)
        /\ UNCHANGED <<area_files, total_files, uploads, unkept>>
     \/ /\ result = "ok" /\ job.dir = "up"
        /\ area_files' = area_files + 1 /\ uploads' = uploads + 1
        /\ \/ /\ AddEntry /\ SaveArea /\ UNCHANGED faults
              /\ unkept' = IF Full THEN unkept \cup {area} ELSE unkept
           \/ /\ Fault /\ unkept' = unkept \cup {area}
              /\ \/ UNCHANGED entries /\ SaveArea
                 \/ (AddEntry \/ UNCHANGED entries) /\ UNCHANGED total_files

-----------------------------------------------------------------------------
(* Punter: handshakes and blocks are tried P_RETRIES times. *)

\* p_hs() or p_send_blk() runs out of tries; the block may have got through.
PunterSendFails ==
  /\ at \in {"psend", "pend"} /\ Fault
  /\ \/ UNCHANGED got
     \/ /\ at = "psend" /\ Len(got) < Len(file)
        /\ got' = Append(got, file[Len(got) + 1])
  /\ Returns("err")
  /\ UNCHANGED <<disk, catalogue, selected, job, file, history>>

\* A block is sent and answered GOO.  The chunk after it has been read
\* already, and it is that chunk's being the last that makes this block the
\* final one.  A read that fails is taken for the end of the file: the first one
\* leaves an empty final block.
PunterSendBlock ==
  /\ at = "psend"
  /\ LET k    == Len(got) + 1
         sent == IF k <= Len(file) THEN Append(got, file[k]) ELSE got
     IN \/ /\ got' = sent /\ UNCHANGED <<faults, dropped>>
           /\ at' = IF k + 1 >= Len(file) THEN "pend" ELSE "psend"
        \/ /\ \/ k < Len(file) /\ got' = sent
              \/ k = 1 /\ file # << >> /\ UNCHANGED got
           /\ at' = "pend" /\ Fault /\ dropped' = TRUE
  /\ UNCHANGED <<disk, catalogue, selected, job, file, result, zmodem,
                 declined, damaged, begun, unmade, unkept>>

\* The last handshakes.
PunterSendEnd ==
  /\ at = "pend" /\ Returns("ok")
  /\ UNCHANGED <<disk, catalogue, selected, job, file, got, faults, history>>

\* p_recv_blk(), and the payload goes to disk, byte by byte: disk_putc() hears
\* of a channel that cannot be opened, and of nothing that the drive drops.  When
\* the terminal misses the GOO it sends the block again, which no ACK announces:
\* the next p_recv_blk() finds nothing it knows, and the transfer fails.
PunterRecvBlock ==
  /\ at = "precv"
  /\ LET k == Len(disk[job.name]) + 1
         Stored(c) == disk' = [disk EXCEPT ![job.name] = Append(@, c)]
     IN \/ /\ k <= Len(file)
           /\ \/ Stored(file[k]) /\ at' = "precv" /\ UNCHANGED <<faults, dropped>>
              \/ Stored(<<begun, 0>>) /\ at' = "precv" /\ Fault /\ dropped' = TRUE
              \/ Stored(file[k]) /\ at' = "plost" /\ Fault /\ UNCHANGED dropped
        \/ k > Len(file) /\ at' = "pfin" /\ UNCHANGED <<disk, faults, dropped>>
  /\ UNCHANGED <<catalogue, selected, job, file, got, result, zmodem,
                 declined, damaged, begun, unmade, unkept>>

PunterRecvEnd ==
  /\ \/ at = "pfin" /\ Returns("ok") /\ UNCHANGED faults
     \/ at = "plost" /\ Returns("err") /\ UNCHANGED faults
     \/ at \in {"precv", "pfin"} /\ Returns("err") /\ Fault
  /\ UNCHANGED <<disk, catalogue, selected, job, file, got, history>>

-----------------------------------------------------------------------------
(* Zmodem, the BBS sending. *)

\* ZRQINIT, ZFILE: the terminal wants the file, skips it, or never answers.
ZSendHello ==
  /\ at = "zsend"
  /\ \/ at' = "zstream" /\ UNCHANGED <<result, zmodem, declined>>
     \/ Returns("ok") /\ declined' = TRUE
     \/ (Returns("err") \/ Returns("cancel")) /\ UNCHANGED declined
  /\ UNCHANGED <<disk, catalogue, selected, job, file, got, faults,
                 damaged, dropped, begun, unmade, unkept>>

\* z_send_data_pkt(), for every chunk: the first k are taken.
Streamed(k) == SubSeq(file, 1, k)

\* The whole file is streamed; what the terminal says meanwhile is not read.
\* A terminal that misses a chunk takes nothing more: zmodem_send() cannot
\* go back.  A read that fails is taken for the end of the file.
ZStream ==
  /\ at = "zstream"
  /\ \E k \in 0..Len(file) :
       /\ got' = Streamed(k)
       /\ \/ k = Len(file) /\ UNCHANGED <<faults, damaged, dropped>>
          \/ k < Len(file) /\ Fault /\ damaged' = TRUE /\ UNCHANGED dropped
          \/ k < Len(file) /\ Fault /\ dropped' = TRUE /\ UNCHANGED damaged
  /\ at' = "zeof"
  /\ UNCHANGED <<disk, catalogue, selected, job, file, result, zmodem,
                 declined, begun, unmade, unkept>>

\* ZEOF and ten headers: ZRINIT, ZRPOS and silence all end in ZFIN and
\* TRANSFER COMPLETE, and only ZABORT or a cancel does not.
ZSendEnd ==
  /\ at = "zeof" /\ (Returns("ok") \/ Returns("cancel"))
  /\ UNCHANGED <<disk, catalogue, selected, job, file, got, faults, history>>

-----------------------------------------------------------------------------
(* Zmodem, the terminal sending (external): a stream of frames, ZDATA with a
   position and chunks up to the one marked as the frame's end, then ZEOF. *)

Header(t, p) == [t |-> t, pos |-> p, end |-> FALSE, good |-> TRUE]
Sub(k, e, g) == [t |-> "sub", pos |-> k, end |-> e, good |-> g]

\* A header goes on the line, or is damaged on the way and never seen.
Announce(h) ==
  \/ line' = Append(line, h) /\ UNCHANGED <<faults, damaged>>
  \/ Fault /\ damaged' = (damaged \/ h.t = "ZDATA") /\ UNCHANGED line

SenderStep(s) ==
  /\ Len(line) < Window /\ sender' = s
  /\ UNCHANGED <<disk, catalogue, selected, at, job, file, got, result, fpos,
                 declined, dropped, begun, unmade, unkept>>

SendFrame ==
  /\ sender.at = "frame"
  /\ IF sender.pos < Len(file)
     THEN Announce(Header("ZDATA", sender.pos)) /\ SenderStep([sender EXCEPT !.at = "data"])
     ELSE Announce(Header("ZEOF", sender.pos)) /\ SenderStep([sender EXCEPT !.at = "eof"])
  /\ UNCHANGED <<reply, resends>>

SendChunk ==
  /\ sender.at = "data"
  /\ \E e \in {TRUE, sender.pos + 1 = Len(file)} :
       /\ \/ line' = Append(line, Sub(sender.pos + 1, e, TRUE)) /\ UNCHANGED <<faults, damaged>>
          \/ line' = Append(line, Sub(sender.pos + 1, e, FALSE)) /\ Fault /\ damaged' = TRUE
       /\ SenderStep([at  |-> IF ~e THEN "data"
                              ELSE IF sender.pos + 1 < Len(file) THEN "ack" ELSE "frame",
                      pos |-> sender.pos + 1])
  /\ UNCHANGED <<reply, resends>>

\* An answer: ZACK is waited for after a frame that is not the last, and
\* ZRPOS, which always asks for the start, is obeyed at any time.
SendOn ==
  /\ reply # << >> /\ reply' = Tail(reply)
  /\ SenderStep(IF Head(reply) = "ZRPOS" THEN [at |-> "frame", pos |-> 0]
                ELSE IF sender.at = "ack" THEN [sender EXCEPT !.at = "frame"]
                ELSE sender)
  /\ UNCHANGED <<line, resends, faults, damaged>>

\* No answer to ZEOF for a while: the whole file is sent once more.
SendUnasked ==
  /\ sender.at = "eof" /\ reply = << >> /\ resends < MaxResends
  /\ resends' = resends + 1
  /\ SenderStep([at |-> "frame", pos |-> 0])
  /\ UNCHANGED <<line, reply, faults, damaged>>

Sender == SendFrame \/ SendChunk \/ SendOn \/ SendUnasked

-----------------------------------------------------------------------------
(* Zmodem, the BBS receiving. *)

\* disk_open() with DISK_OVER scratches what has that name, then creates.
Opened == disk' = [disk EXCEPT ![job.name] = << >>] /\ UNCHANGED unmade

\* The scratch is done, the file cannot be created.
Unmade == disk' = [disk EXCEPT ![job.name] = Absent] /\ unmade' = unmade \cup {job.name}

\* z_send_hex_hdr(): one of the two headers that the sender's steps depend on.
Answers(a) == reply' = Append(reply, a)

\* ZRINIT, until ZFILE comes and the file is opened; a sender with nothing to
\* send says ZFIN, and the transfer is as good as any other.
ZHello ==
  /\ at = "zhello"
  /\ \/ /\ Opened /\ at' = "zhead" /\ fpos' = 0 /\ line' = << >> /\ Answers("ZRPOS")
        /\ sender' = [at |-> "wait", pos |-> 0] /\ UNCHANGED <<resends, result, declined, faults>>
     \/ Returns("ok") /\ declined' = TRUE /\ UNCHANGED <<disk, unmade, faults>>
     \/ (Returns("err") \/ Returns("cancel")) /\ UNCHANGED <<disk, declined, unmade, faults>>
     \/ Fault /\ Returns("err") /\ Unmade /\ UNCHANGED declined
  /\ UNCHANGED <<catalogue, selected, job, file, got, damaged, dropped, begun, unkept>>

\* The next thing on the line, if there is one of that kind.
Reads(kinds) == line # << >> /\ Head(line).t \in kinds /\ line' = Tail(line)
Receiving(next) ==
  /\ at' = next
  /\ UNCHANGED <<catalogue, selected, job, file, got, sender, resends, told, unkept>>

\* Mutant: every frame is written, as it was before copies were noticed.
ZHeadEvery ==
  /\ at = "zhead" /\ Reads({"ZDATA"}) /\ Receiving("zsub")
  /\ UNCHANGED <<disk, unmade, fpos, reply, result, faults>>

\* ZDATA: a frame that begins behind what is on disk is read and dropped.
ZHead ==
  /\ at = "zhead" /\ Reads({"ZDATA"})
  /\ Receiving(IF Head(line).pos < fpos THEN "zskip" ELSE "zsub")
  /\ UNCHANGED <<disk, unmade, fpos, reply, result, faults>>

\* A chunk outside of a frame: z_recv_header() hunts on.
ZHunt ==
  /\ at = "zhead" /\ Reads({"sub"}) /\ Receiving("zhead")
  /\ UNCHANGED <<disk, unmade, fpos, reply, result, faults>>

\* ZEOF ends the file, whatever position it states.
ZEof ==
  /\ at = "zhead" /\ Reads({"ZEOF"}) /\ Receiving("zfin")
  /\ UNCHANGED <<disk, unmade, fpos, reply, result, faults>>

\* A good chunk goes to disk.
ZSub ==
  /\ at = "zsub" /\ Reads({"sub"}) /\ Head(line).good
  /\ disk' = [disk EXCEPT ![job.name] = Append(@, file[Head(line).pos])]
  /\ fpos' = fpos + 1
  /\ IF Head(line).end /\ Head(line).pos < Len(file)
     THEN Answers("ZACK") ELSE UNCHANGED reply
  /\ Receiving(IF Head(line).end THEN "zhead" ELSE "zsub")
  /\ UNCHANGED <<unmade, result, faults>>

\* A damaged chunk, or any chunk after a header that was taken for data.
Spoilt ==
  /\ line # << >> /\ Head(line).t = "sub"
  /\ at = "zgarbage" \/ (at = "zsub" /\ ~Head(line).good)

\* Scratch the file, and ask for it from the start.
ZBad ==
  /\ Spoilt /\ line' = Tail(line)
  /\ Opened /\ fpos' = 0 /\ Answers("ZRPOS") /\ Receiving("zhead")
  /\ UNCHANGED <<result, faults>>

\* The disk refuses a chunk, or the file when it is opened again.
ZDiskFails ==
  /\ \/ at = "zsub" /\ UNCHANGED <<disk, unmade>>
     \/ Spoilt /\ Unmade
  /\ Fault /\ Returns("err")
  /\ UNCHANGED <<catalogue, selected, job, file, got, told, unkept>>

\* A header where chunks are expected is read as part of the next chunk.
ZMixed ==
  /\ at = "zsub" /\ Reads({"ZDATA", "ZEOF"}) /\ Receiving("zgarbage")
  /\ UNCHANGED <<disk, unmade, fpos, reply, result, faults>>

ZSkip ==
  /\ at = "zskip" /\ Reads({"sub", "ZDATA", "ZEOF"})
  /\ Receiving(IF Head(line).t = "sub" /\ (Head(line).end \/ ~Head(line).good)
               THEN "zhead" ELSE "zskip")
  /\ UNCHANGED <<disk, unmade, fpos, reply, result, faults>>

\* ZRINIT and ten headers for ZFIN; the result is the same without it.
ZFinished ==
  /\ at = "zfin" /\ (Returns("ok") \/ Returns("cancel"))
  /\ UNCHANGED <<disk, catalogue, selected, job, file, got, faults, history>>

\* Mutant: silence inside a frame is waited out.
ZGivesUpLate ==
  /\ at \in {"zhead", "zgarbage"} /\ line = << >> /\ Returns("err")
  /\ UNCHANGED <<disk, catalogue, selected, job, file, got, faults, history>>

\* Nothing comes for long enough, or the sender cancels.
ZGivesUp ==
  /\ at \in {"zhead", "zsub", "zgarbage", "zskip"}
  /\ \/ line = << >> /\ at # "zskip" /\ Returns("err")
     \/ Returns("cancel")
  /\ UNCHANGED <<disk, catalogue, selected, job, file, got, faults, history>>

\* In a frame that is dropped, silence only ends the frame.
ZSkipEnds ==
  /\ at = "zskip" /\ line = << >> /\ Receiving("zhead")
  /\ UNCHANGED <<disk, unmade, fpos, line, reply, result, faults>>

-----------------------------------------------------------------------------

Init ==
  /\ disk = [n \in Names |-> Absent]
  /\ entries = [a \in Areas |-> << >>] /\ total_files = [a \in Areas |-> 0]
  /\ uploads = 0 /\ area = 1 /\ area_idx = (IF Permitted(1) THEN 1 ELSE 0)
  /\ area_files = 0
  /\ at = "prompt" /\ job = NoJob /\ file = << >> /\ got = << >> /\ result = "none"
  /\ Idle /\ resends = 0 /\ declined = FALSE /\ damaged = FALSE /\ dropped = FALSE
  /\ unmade = {} /\ unkept = {} /\ faults = 0 /\ begun = 0

\* What the BBS does without the caller.
Program ==
  \/ Bookkeeping \/ PunterSendBlock \/ PunterSendEnd \/ PunterRecvBlock \/ PunterRecvEnd
  \/ ZSendHello \/ ZStream \/ ZSendEnd \/ ZHello \/ ZHead \/ ZHunt \/ ZEof \/ ZSub
  \/ ZBad \/ ZDiskFails \/ ZMixed \/ ZSkip \/ ZFinished \/ ZGivesUp \/ ZSkipEnds

Next == Jump \/ Shift \/ Download \/ Upload \/ PunterSendFails \/ Sender \/ Program

Spec == Init /\ [][Next]_vars

\* One thread, and every wait of a transfer has a timeout.
FairSpec == Spec /\ WF_vars(Program)

-----------------------------------------------------------------------------
(* What must hold. *)

Places == {"prompt", "done", "psend", "pend", "precv", "plost", "pfin", "zsend",
           "zstream", "zeof", "zhello", "zhead", "zsub", "zgarbage", "zskip", "zfin"}

Kinds == {"ZDATA", "ZEOF", "sub"}
Entry == [name : Names, empty : BOOLEAN, downloads : 0..MaxDownloads]
Frame == [t : Kinds, pos : 0..MaxChunks, end : BOOLEAN, good : BOOLEAN]

\* Everything is of its type; in particular no area counts more files than the
\* callers were given credit for, nor has more records than UD<n> holds.
TypeOK ==
  /\ area \in Areas /\ area_idx \in {0} \cup Areas /\ at \in Places
  /\ disk \in [Names -> Seq(Chunk) \cup {Absent}]
  /\ file \in Seq(Chunk) /\ got \in Seq(Chunk)
  /\ uploads \in 0..MaxUploads /\ area_files \in 0..uploads
  /\ total_files \in [Areas -> 0..uploads]
  /\ entries \in [Areas -> Seq(Entry)]
  /\ \A a \in Areas : Len(entries[a]) <= Slots
  /\ job \in [dir : {"none", "up", "down"}, proto : {"none", "punter", "zmodem"},
              name : Names \cup {"none"}, slot : 0..Slots]
  /\ result \in {"none", "ok", "err", "cancel"}
  /\ fpos \in Nat /\ line \in Seq(Frame) /\ Len(line) <= Window
  /\ reply \in Seq({"ZACK", "ZRPOS"})
  /\ sender \in [at : {"idle", "wait", "frame", "data", "ack", "eof"}, pos : 0..MaxChunks]
  /\ resends \in 0..MaxResends /\ faults \in 0..MaxFaults /\ begun \in 0..MaxUploads
  /\ declined \in BOOLEAN /\ damaged \in BOOLEAN /\ dropped \in BOOLEAN
  /\ unmade \subseteq Names /\ unkept \subseteq Areas

Delivered == IF job.dir = "up" THEN disk[job.name] ELSE got
Complete  == at = "done" /\ result = "ok"

\* Every chunk that has come through is at its place, whole or with bytes missing.
InPlace(s) == Len(s) <= Len(file) /\ \A i \in DOMAIN s : s[i] \in {file[i], <<begun, 0>>}

\* TRANSFER COMPLETE is true: the other side has the whole file, each chunk
\* once and in order, whatever was repeated on the way, except that
\*  - a terminal with nothing to send, or that skips the file, is told so too;
\*  - a Punter download of more than one block lacks the last one;
\*  - after damage to more than ZEOF Zmodem cannot tell: it takes a ZEOF, or a
\*    later frame, that was under way when it asked for a restart, and as a
\*    sender it hears no complaint;
\*  - a read that fails in the middle of a download is taken for the end of the
\*    file, and bytes that the drive drops are missing from a Punter upload:
\*    what did come through is at its place all the same.
CompleteIsWhole ==
  Complete =>
    \/ Delivered = file
    \/ declined
    \/ job.proto = "punter" /\ job.dir = "down" /\ got = Front(file)
    \/ job.proto = "zmodem" /\ damaged
    \/ dropped /\ InPlace(Delivered)

\* A file that is listed is there to be opened, unless an upload of nothing
\* listed it or a later upload of that name has scratched it and the drive then
\* refused to make the new one.
ListedIsThere ==
  \A a \in Areas : \A i \in DOMAIN entries[a] :
    disk[entries[a][i].name] = Absent => entries[a][i].empty \/ entries[a][i].name \in unmade

\* What an area counts is what it lists, whatever areas the caller has gone
\* through meanwhile with one record at hand: unless an entry found no room, or
\* its save or the save of the count failed, of which nobody is told.
CountsAgree ==
  \A a \in Areas \ unkept : Len(entries[a]) = total_files[a]

\* punter.c: block index 0xFFFF = final block; so a download that ends well
\* has sent every block.
PunterIsWhole == Complete /\ job.proto = "punter" /\ job.dir = "down" => got = file

\* Every transfer comes to an end, and files_run() prompts again.
TransferEnds == at # "prompt" ~> at = "prompt"
=============================================================================
