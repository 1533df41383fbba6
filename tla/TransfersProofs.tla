--------------------------- MODULE TransfersProofs ---------------------------
(***************************************************************************)
(* What a transfer promises, for any files, areas and faults.              *)
(*                                                                         *)
(* That TRANSFER COMPLETE is true of an undamaged Zmodem upload depends on *)
(* every frame between the two sides: what the BBS reads next is told by   *)
(* what it has read last, and so along the line to what the terminal sends *)
(* next.  StreamInv says that, with the frame read last for its start.     *)
(***************************************************************************)
EXTENDS Transfers, SequenceTheorems, TLAPS

Uploading == {"zhead", "zsub", "zgarbage", "zskip", "zfin"}
Running   == Places \ {"prompt", "done"}

\* What files_run() has at hand while a transfer runs.
JobInv ==
  /\ at = "prompt" => job = NoJob
  /\ at \in {"psend", "pend"} => job.dir = "down" /\ job.proto = "punter"
  /\ at \in {"zsend", "zstream", "zeof"} => job.dir = "down" /\ job.proto = "zmodem"
  /\ at \in {"precv", "plost", "pfin"} => job.dir = "up" /\ job.proto = "punter"
  /\ at \in Uploading \cup {"zhello"} => job.dir = "up" /\ job.proto = "zmodem"
  /\ job.dir = "up" => job.name \in Names /\ uploads < begun /\ Len(file) <= MaxChunks
  /\ job.dir = "down" => /\ job.slot \in DOMAIN entries[area]
                         /\ entries[area][job.slot].downloads < MaxDownloads
  /\ uploads <= begun

\* Nothing of a Zmodem upload is left when none runs.
IdleInv ==
  /\ at \notin Uploading => Idle
  /\ at \in Uploading => sender.at # "idle"

\* What is on its way is of the file.
LineInv ==
  /\ \A i \in DOMAIN line : /\ line[i].pos <= Len(file)
                            /\ line[i].t = "sub" => line[i].pos > 0
  /\ sender.pos <= Len(file)
  /\ sender.at = "data" => sender.pos < Len(file)

\* A transfer that writes has a file to write to.
FileInv ==
  /\ at \in Uploading \cup {"precv", "plost", "pfin"} => disk[job.name] # Absent
  /\ at = "done" /\ result = "ok" /\ job.dir = "up" /\ ~declined => disk[job.name] # Absent

Begins(s) == Len(s) <= Len(file) /\ \A i \in DOMAIN s : s[i] = file[i]

\* How far the two sides of a Punter transfer are.
PunterInv ==
  /\ at = "psend" => Begins(got) /\ (got = << >> \/ Len(got) + 1 < Len(file))
  /\ at = "pend" => got = file \/ got = Front(file) \/ (dropped /\ Begins(got))
  /\ at = "precv" => InPlace(disk[job.name]) /\ (dropped \/ Begins(disk[job.name]))
  /\ at = "pfin" => InPlace(disk[job.name]) /\ (dropped \/ disk[job.name] = file)

\* A frame that the undamaged terminal sends.
Sound(y) ==
  /\ y.good
  /\ y.t = "ZDATA" => y.pos < Len(file)
  /\ y.t = "sub" => y.pos \in 1..Len(file) /\ (y.pos = Len(file) => y.end)
  /\ y.t = "ZEOF" => y.pos = Len(file)

InFrame(x) == x.t = "ZDATA" \/ (x.t = "sub" /\ ~x.end)

\* ... and what comes after it, if no header but ZEOF gets lost.
Follows(x, y) ==
  \/ InFrame(x) /\ y.t = "sub" /\ y.pos = x.pos + 1
  \/ ~InFrame(x) /\ y.t = "ZDATA" /\ (y.pos = x.pos \/ (x.pos = Len(file) /\ y.pos = 0))
  \/ ~InFrame(x) /\ y.t = "ZEOF" /\ x.pos = Len(file) /\ (x.t = "sub" \/ file = << >>)

\* The receiver has read x last: it has the whole file, or is where x says.
ReadLast(x) ==
  \/ at \in {"zhead", "zskip", "zfin"} /\ fpos = Len(file)
  \/ /\ fpos < Len(file) /\ (fpos = x.pos \/ (fpos = 0 /\ x.t = "ZEOF"))
     /\ at = IF InFrame(x) THEN "zsub" ELSE "zhead"

\* The sender has sent z last.
SentLast(z) ==
  /\ sender.at = "data" => InFrame(z) /\ z.pos = sender.pos
  /\ sender.at # "data" => ~InFrame(z)
  /\ sender.at = "ack" => z.t = "sub" /\ z.pos = sender.pos
  /\ sender.at = "frame" => \/ z.t = "sub" /\ z.pos = sender.pos
                            \/ z.pos = Len(file) /\ sender.pos = 0
  /\ sender.at \in {"wait", "eof"} => z.pos = Len(file)

\* From x, read last, each frame on the line follows the one before.
Chained(x, l) ==
  \A i \in DOMAIN l : Sound(l[i]) /\ Follows(IF i = 1 THEN x ELSE l[i - 1], l[i])

Traced(x) ==
  /\ Sound(x) /\ ReadLast(x) /\ Chained(x, line)
  /\ SentLast(IF line = << >> THEN x ELSE line[Len(line)])

StreamInv ==
  at \in Uploading /\ ~damaged =>
    /\ fpos = Len(disk[job.name]) /\ Begins(disk[job.name])
    /\ \E x \in Frame : Traced(x)
    /\ IF sender.at = "wait"
       THEN at = "zhead" /\ fpos = 0 /\ line = << >> /\ reply = <<"ZRPOS">>
       ELSE reply \in Seq({"ZACK"})

\* What zmodem_send() has streamed without damage, the terminal has: the whole
\* file, or what came before the read that failed.
StreamedInv == at = "zeof" /\ ~damaged => got = file \/ (dropped /\ Begins(got))

\* The count at hand is the one on disk.
CountInv == area \in unkept \/ area_files = total_files[area]

Inv == /\ TypeOK /\ JobInv /\ IdleInv /\ LineInv /\ FileInv /\ PunterInv
       /\ StreamInv /\ StreamedInv /\ CountInv
       /\ CompleteIsWhole /\ ListedIsThere /\ CountsAgree

-----------------------------------------------------------------------------
(* Files and faults. *)

\* The bounds, one by one.
LEMMA Bounds ==
  /\ MaxChunks \in Nat \ {0} /\ Slots \in Nat \ {0} /\ Window \in Nat \ {0}
  /\ MaxUploads \in Nat /\ MaxDownloads \in Nat /\ MaxFaults \in Nat /\ MaxResends \in Nat
  /\ Len(Levels) \in Nat \ {0} /\ Areas = 1..Len(Levels)
BY TransfersAssumption DEF Areas

\* No content is mistaken for a missing file.
LEMMA AbsentIsNoFile == << >> \in Seq(Chunk) /\ \A s \in Seq(Chunk) : s # Absent
BY TransfersAssumption

\* An upload is of its chunks, in order.
LEMMA ChunksTyped ==
  ASSUME NEW v \in 1..MaxUploads, NEW n \in 0..MaxChunks
  PROVE  Chunks(v, n) \in Seq(Chunk) /\ Len(Chunks(v, n)) = n
<1>1. \A i \in 1..n : <<v, i>> \in Chunk
  BY Bounds DEF Chunk
<1>2. Chunks(v, n) \in [1..n -> Chunk]
  BY <1>1 DEF Chunks
<1> QED BY <1>2, Bounds

\* The next chunk of the file after the first ones.
LEMMA NextBegins ==
  ASSUME NEW s \in Seq(Chunk), file \in Seq(Chunk), Begins(s), Len(s) < Len(file)
  PROVE  LET t == Append(s, file[Len(s) + 1])
         IN  t \in Seq(Chunk) /\ Begins(t) /\ Len(t) = Len(s) + 1
<1>1. Len(s) \in Nat /\ Len(file) \in Nat /\ file[Len(s) + 1] \in Chunk
  OBVIOUS
<1> QED BY <1>1 DEF Begins

\* As many chunks as the file has are the file; all but one are its front.
LEMMA BeginsAll ==
  ASSUME NEW s \in Seq(Chunk), file \in Seq(Chunk), Begins(s)
  PROVE  /\ Len(s) = Len(file) => s = file
         /\ Len(s) + 1 = Len(file) => s = Front(file)
<1>1. CASE Len(s) = Len(file)
  BY <1>1 DEF Begins
<1>2. CASE Len(s) + 1 = Len(file)
  <2>1. Front(file) \in Seq(Chunk) /\ Len(Front(file)) = Len(s)
        /\ \A i \in 1..Len(s) : Front(file)[i] = file[i]
    BY <1>2 DEF Front
  <2> QED BY <2>1 DEF Begins
<1> QED BY <1>1, <1>2

\* What begins the file is in its place.
LEMMA BeginsInPlace == \A s : Begins(s) => InPlace(s)
BY DEF Begins, InPlace

\* What is left of a chunk is in its place too, and a chunk like any other.
LEMMA NextInPlace ==
  ASSUME NEW s \in Seq(Chunk), file \in Seq(Chunk), InPlace(s), Len(s) < Len(file),
         begun \in 1..MaxUploads, NEW c \in {file[Len(s) + 1], <<begun, 0>>}
  PROVE  LET t == Append(s, c)
         IN  t \in Seq(Chunk) /\ InPlace(t) /\ Len(t) = Len(s) + 1
<1>1. Len(s) \in Nat /\ Len(file) \in Nat /\ file[Len(s) + 1] \in Chunk
  OBVIOUS
<1>2. <<begun, 0>> \in Chunk
  BY Bounds DEF Chunk
<1> DEFINE t == Append(s, c)
<1>3. /\ t \in Seq(Chunk) /\ Len(t) = Len(s) + 1 /\ t[Len(s) + 1] = c
      /\ \A i \in 1..Len(s) : t[i] = s[i]
  BY <1>1, <1>2
<1> HIDE DEF t
<1>4. \A i \in 1..(Len(s) + 1) : t[i] \in {file[i], <<begun, 0>>}
  <2>1. \A i \in 1..Len(s) : s[i] \in {file[i], <<begun, 0>>}
    BY <1>1 DEF InPlace
  <2>2. \A i \in 1..(Len(s) + 1) : i \in 1..Len(s) \/ i = Len(s) + 1
    BY <1>1
  <2> QED BY <1>3, <2>1, <2>2
<1>5. InPlace(t)
  <2>1. Len(t) <= Len(file) /\ DOMAIN t = 1..(Len(s) + 1)
    BY <1>1, <1>3
  <2> QED BY <1>4, <2>1 DEF InPlace
<1> QED BY <1>3, <1>5 DEF t

\* A fault is counted and bounded.
LEMMA Faulted == ASSUME TypeOK, Fault PROVE faults' \in 0..MaxFaults
BY Bounds DEF TypeOK, Fault

\* What is listed stays there when files stay, or their loss is noted.
LEMMA StillListed ==
  ASSUME TypeOK, ListedIsThere, entries' = entries, unmade \subseteq unmade',
         \A n \in Names : disk[n] # Absent => disk'[n] # Absent \/ n \in unmade'
  PROVE  ListedIsThere'
<1> SUFFICES ASSUME NEW a \in Areas, NEW i \in DOMAIN entries[a],
                    disk'[entries[a][i].name] = Absent, entries[a][i].name \notin unmade'
             PROVE  entries[a][i].empty
  BY DEF ListedIsThere, Areas
<1>1. entries[a][i].name \in Names
  <2>1. entries[a] \in Seq(Entry)
    BY DEF TypeOK
  <2>2. entries[a][i] \in Entry
    BY <2>1
  <2> QED BY <2>2 DEF Entry
<1> QED BY <1>1 DEF ListedIsThere

-----------------------------------------------------------------------------
(* The initial state. *)

LEMMA InitHolds == Init => Inv
<1> SUFFICES ASSUME Init PROVE Inv
  OBVIOUS
<1>1. TypeOK
  <2>1. area \in Areas /\ area_idx \in {0} \cup Areas
    BY Bounds DEF Init, Permitted
  <2>2. disk \in [Names -> Seq(Chunk) \cup {Absent}]
    BY DEF Init
  <2>3. /\ total_files \in [Areas -> 0..uploads] /\ area_files \in 0..uploads
        /\ entries \in [Areas -> Seq(Entry)] /\ \A a \in Areas : Len(entries[a]) <= Slots
    BY Bounds DEF Init
  <2>4. job \in [dir : {"none", "up", "down"}, proto : {"none", "punter", "zmodem"},
                 name : Names \cup {"none"}, slot : 0..Slots]
    BY Bounds DEF Init, NoJob
  <2>5. /\ line \in Seq(Frame) /\ reply \in Seq({"ZACK", "ZRPOS"}) /\ Len(line) <= Window
        /\ sender \in [at : {"idle", "wait", "frame", "data", "ack", "eof"}, pos : 0..MaxChunks]
    BY Bounds DEF Init, Idle
  <2>6. /\ at \in Places /\ file \in Seq(Chunk) /\ got \in Seq(Chunk) /\ fpos \in Nat
        /\ result \in {"none", "ok", "err", "cancel"}
    BY DEF Init, Idle, Places
  <2>7. /\ uploads \in 0..MaxUploads /\ resends \in 0..MaxResends /\ faults \in 0..MaxFaults
        /\ begun \in 0..MaxUploads
    BY Bounds DEF Init
  <2>8. /\ declined \in BOOLEAN /\ damaged \in BOOLEAN /\ dropped \in BOOLEAN
        /\ unmade \subseteq Names /\ unkept \subseteq Areas
    BY DEF Init
  <2> QED BY <2>1, <2>2, <2>3, <2>4, <2>5, <2>6, <2>7, <2>8 DEF TypeOK
<1>2. JobInv /\ IdleInv /\ FileInv /\ PunterInv /\ StreamInv /\ StreamedInv
  BY DEF Init, JobInv, NoJob, IdleInv, FileInv, Uploading, PunterInv, StreamInv, StreamedInv
<1>3. LineInv /\ CompleteIsWhole /\ ListedIsThere
  BY DEF Init, LineInv, Idle, CompleteIsWhole, Complete, ListedIsThere
<1>4. CountInv /\ CountsAgree
  BY <1>1 DEF Init, CountInv, CountsAgree, TypeOK
<1> QED BY <1>1, <1>2, <1>3, <1>4 DEF Inv

-----------------------------------------------------------------------------
(* At the prompt. *)

\* Another area: what is at hand is read from its record.
LEMMA AreaStep ==
  ASSUME Inv, Jump \/ Shift
  PROVE  Inv'
<1>1. /\ at = "prompt" /\ area' \in Areas /\ area_idx' \in {0} \cup Areas
      /\ area_files' = total_files[area']
  <2>1. CASE Jump
    BY <2>1, Bounds DEF Jump, Permitted, Inv, TypeOK
  <2>2. CASE Shift
    BY <2>2 DEF Shift, Permitted
  <2> QED BY <2>1, <2>2
<1>2. UNCHANGED <<disk, catalogue, at, job, file, got, result, zmodem, faults, history>>
  BY DEF Jump, Shift
<1>3. TypeOK'
  <2>1. area_files' \in 0..uploads
    BY <1>1 DEF Inv, TypeOK
  <2> QED BY <1>1, <1>2, <2>1 DEF Inv, TypeOK, catalogue, zmodem, history, told
<1>4. JobInv'
  BY <1>1, <1>2 DEF Inv, JobInv, NoJob, Uploading, catalogue, history, told
<1>5. IdleInv' /\ LineInv' /\ FileInv' /\ PunterInv' /\ StreamedInv' /\ CompleteIsWhole'
  BY <1>1, <1>2 DEF Inv, IdleInv, Idle, LineInv, FileInv, Uploading, PunterInv, StreamedInv,
                    CompleteIsWhole, Complete, zmodem, history
<1>6. StreamInv'
  BY <1>1, <1>2 DEF StreamInv, Uploading
<1>7. ListedIsThere'
  BY <1>2, StillListed DEF Inv, catalogue, history, told
<1>8. CountInv' /\ CountsAgree'
  BY <1>1, <1>2 DEF Inv, CountInv, CountsAgree, catalogue, history, told
<1> QED BY <1>3, <1>4, <1>5, <1>6, <1>7, <1>8 DEF Inv

\* A record of the area is asked for, and its file opened.
LEMMA DownloadStep ==
  ASSUME Inv, Download
  PROVE  Inv'
<1> PICK slot \in DOMAIN entries[area], proto \in {"punter", "zmodem"} :
      LET e == entries[area][slot] IN
        /\ e.downloads < MaxDownloads
        /\ job' = [dir |-> "down", proto |-> proto, name |-> e.name, slot |-> slot]
        /\ file' = Content(e.name) /\ got' = << >>
        /\ at' = IF proto = "punter" THEN "psend" ELSE "zsend"
  BY DEF Download
<1> DEFINE e == entries[area][slot]
<1>1. /\ at = "prompt" /\ declined' = FALSE /\ damaged' = FALSE /\ dropped' = FALSE
      /\ UNCHANGED <<disk, catalogue, selected, result, zmodem, faults, begun, unmade, unkept>>
  BY DEF Download
<1>2. e \in Entry /\ slot \in 0..Slots
  <2>1. area \in Areas /\ entries[area] \in Seq(Entry) /\ Len(entries[area]) <= Slots
    BY DEF Inv, TypeOK
  <2> QED BY <2>1, Bounds
<1>3. file' \in Seq(Chunk)
  BY <1>2, AbsentIsNoFile DEF Inv, TypeOK, Content, Entry
<1>4. TypeOK'
  <2>1. job' \in [dir : {"none", "up", "down"}, proto : {"none", "punter", "zmodem"},
                  name : Names \cup {"none"}, slot : 0..Slots]
    BY <1>2 DEF Entry
  <2>2. at' \in Places /\ got' \in Seq(Chunk)
    BY DEF Places
  <2> HIDE DEF e
  <2> QED BY <1>1, <1>3, <2>1, <2>2 DEF Inv, TypeOK, catalogue, selected, zmodem
<1>5. JobInv'
  BY <1>1 DEF Inv, JobInv, Uploading, catalogue, selected
<1>6. IdleInv' /\ LineInv'
  BY <1>1, <1>3 DEF Inv, IdleInv, Idle, LineInv, Uploading, zmodem
<1>7. FileInv' /\ StreamInv' /\ StreamedInv' /\ CompleteIsWhole'
  BY DEF FileInv, StreamInv, Uploading, StreamedInv, CompleteIsWhole, Complete
<1>8. PunterInv'
  <2>1. Begins(got)'
    BY <1>3 DEF Begins
  <2> QED BY <2>1 DEF PunterInv
<1>9. ListedIsThere'
  BY <1>1, StillListed DEF Inv, catalogue
<1>10. CountInv' /\ CountsAgree'
  BY <1>1 DEF Inv, CountInv, CountsAgree, catalogue, selected
<1> QED BY <1>4, <1>5, <1>6, <1>7, <1>8, <1>9, <1>10 DEF Inv

\* A file is announced; Punter opens it for writing, or is refused.
LEMMA UploadStep ==
  ASSUME Inv, Upload
  PROVE  Inv'
<1> PICK n \in Names, proto \in {"punter", "zmodem"}, len \in 0..MaxChunks :
      /\ job' = [dir |-> "up", proto |-> proto, name |-> n, slot |-> 0]
      /\ file' = Chunks(begun + 1, len) /\ got' = << >>
      /\ \/ /\ proto = "zmodem" /\ at' = "zhello"
            /\ UNCHANGED <<disk, result, zmodem, faults>>
         \/ /\ proto = "punter" /\ Returns("err") /\ UNCHANGED disk
            /\ (disk[n] # Absent /\ UNCHANGED faults) \/ Fault
         \/ /\ proto = "punter" /\ disk[n] = Absent /\ at' = "precv"
            /\ disk' = [disk EXCEPT ![n] = << >>] /\ UNCHANGED <<result, zmodem, faults>>
  BY DEF Upload
<1>1. /\ at = "prompt" /\ declined' = FALSE /\ damaged' = FALSE /\ dropped' = FALSE
      /\ begun < MaxUploads /\ begun' = begun + 1
      /\ UNCHANGED <<catalogue, selected, unmade, unkept>>
  BY DEF Upload
<1>2. file' \in Seq(Chunk) /\ Len(file') = len
  BY <1>1, ChunksTyped, Bounds DEF Inv, TypeOK
<1>3. /\ at' \in {"zhello", "done", "precv"} /\ result' \in {"err", result}
      /\ at' = "done" => result' = "err"
      /\ at' # "zhello" => proto = "punter"
      /\ at' = "zhello" => proto = "zmodem"
  BY DEF Returns
<1>4. Idle' /\ resends' \in {0, resends}
  BY <1>1 DEF Inv, IdleInv, Idle, Uploading, Returns, zmodem
<1>5. /\ disk' \in [Names -> Seq(Chunk) \cup {Absent}]
      /\ \A m \in Names : disk[m] # Absent => disk'[m] # Absent
      /\ at' = "precv" => disk'[n] = << >>
  <2>1. CASE disk' = disk
    BY <2>1, <1>3, AbsentIsNoFile DEF Inv, TypeOK, Returns
  <2>2. CASE disk' = [disk EXCEPT ![n] = << >>]
    BY <2>2, AbsentIsNoFile DEF Inv, TypeOK
  <2> QED BY <2>1, <2>2
<1>6. TypeOK'
  <2>1. job' \in [dir : {"none", "up", "down"}, proto : {"none", "punter", "zmodem"},
                  name : Names \cup {"none"}, slot : 0..Slots]
    BY Bounds
  <2>2. at' \in Places /\ got' \in Seq(Chunk) /\ result' \in {"none", "ok", "err", "cancel"}
    BY <1>3 DEF Places, Inv, TypeOK
  <2>3. begun' \in 0..MaxUploads /\ resends' \in 0..MaxResends
    BY <1>1, <1>4, Bounds DEF Inv, TypeOK
  <2>4. /\ fpos' \in Nat /\ line' \in Seq(Frame) /\ Len(line') <= Window
        /\ reply' \in Seq({"ZACK", "ZRPOS"})
        /\ sender' \in [at : {"idle", "wait", "frame", "data", "ack", "eof"}, pos : 0..MaxChunks]
    BY <1>4, Bounds DEF Idle
  <2>5. faults' \in 0..MaxFaults
    BY Faulted DEF Inv, TypeOK
  <2> QED BY <1>1, <1>2, <1>5, <2>1, <2>2, <2>3, <2>4, <2>5 DEF Inv, TypeOK, catalogue, selected
<1>7. JobInv'
  <2>1. uploads' < begun' /\ uploads' <= begun'
    BY <1>1, Bounds DEF Inv, TypeOK, JobInv, catalogue
  <2> QED BY <1>2, <1>3, <2>1, Bounds DEF JobInv, Uploading
<1>8. IdleInv' /\ LineInv'
  BY <1>2, <1>3, <1>4, Bounds DEF IdleInv, Uploading, LineInv, Idle
<1>9. FileInv' /\ StreamInv' /\ StreamedInv' /\ CompleteIsWhole'
  BY <1>3, <1>5, AbsentIsNoFile
  DEF FileInv, StreamInv, Uploading, StreamedInv, CompleteIsWhole, Complete
<1>10. PunterInv'
  <2>1. at' = "precv" => Begins(disk[job.name])' /\ InPlace(disk[job.name])'
    BY <1>2, <1>5, Bounds DEF Begins, InPlace
  <2> QED BY <1>3, <2>1 DEF PunterInv
<1>11. ListedIsThere'
  BY <1>1, <1>5, StillListed DEF Inv, catalogue
<1>12. CountInv' /\ CountsAgree'
  BY <1>1 DEF Inv, CountInv, CountsAgree, catalogue, selected
<1> QED BY <1>6, <1>7, <1>8, <1>9, <1>10, <1>11, <1>12 DEF Inv

\* A result other than "ok" is passed over.  After a download its record counts
\* it; an upload is added to the area, unless the disk refuses one of the records.
LEMMA BookkeepingStep ==
  ASSUME Inv, Bookkeeping
  PROVE  Inv'
<1>1. /\ at = "done" /\ at' = "prompt" /\ job' = NoJob /\ file' = << >> /\ got' = << >>
      /\ result' = "none" /\ UNCHANGED <<disk, area, area_idx, zmodem, told, unmade>>
  BY DEF Bookkeeping, Prompts
<1>2. /\ area \in Areas /\ entries[area] \in Seq(Entry) /\ Len(entries[area]) \in Nat
      /\ Len(entries[area]) <= Slots
  BY DEF Inv, TypeOK
<1>3. /\ uploads' \in {uploads, uploads + 1} /\ uploads' <= begun
      /\ area_files' \in 0..uploads'
      /\ total_files' \in [Areas -> 0..uploads']
      /\ faults' \in 0..MaxFaults
  <2>1. /\ uploads \in Nat /\ begun \in Nat /\ area_files \in 0..uploads
        /\ total_files \in [Areas -> 0..uploads] /\ faults \in 0..MaxFaults
        /\ uploads <= begun
    BY Bounds DEF Inv, TypeOK, JobInv
  <2>2. faults' \in 0..MaxFaults
    BY <2>1, Faulted DEF Inv, Bookkeeping
  <2>3. CASE UNCHANGED <<area_files, total_files, uploads>>
    BY <2>1, <2>2, <2>3
  <2>4. CASE /\ job.dir = "up" /\ area_files' = area_files + 1 /\ uploads' = uploads + 1
             /\ total_files' \in {total_files, [total_files EXCEPT ![area] = area_files']}
    <3>1. uploads < begun
      BY <2>4 DEF Inv, JobInv
    <3>2. area_files' \in 0..uploads' /\ uploads' <= begun
      BY <2>1, <2>4, <3>1
    <3>3. total_files' \in [Areas -> 0..uploads']
      BY <2>1, <2>4, <3>2
    <3> QED BY <2>2, <2>4, <3>2, <3>3
  <2> QED BY <2>3, <2>4 DEF Bookkeeping, SaveArea, catalogue
<1>4. ASSUME NEW t \in Seq(Entry), entries' = [entries EXCEPT ![area] = t],
             Len(t) <= Slots,
             \A k \in DOMAIN t :
               \/ k \in DOMAIN entries[area] /\ t[k].name = entries[area][k].name
                  /\ t[k].empty = entries[area][k].empty
               \/ disk[t[k].name] = Absent => t[k].empty
      PROVE  /\ entries' \in [Areas -> Seq(Entry)]
             /\ \A a \in Areas : Len(entries'[a]) <= Slots
             /\ ListedIsThere'
  <2>1. entries \in [Areas -> Seq(Entry)] /\ \A a \in Areas : Len(entries[a]) <= Slots
    BY DEF Inv, TypeOK
  <2>2. \A a \in Areas : entries'[a] = IF a = area THEN t ELSE entries[a]
    BY <1>4, <2>1
  <2>3. ListedIsThere'
    <3> SUFFICES ASSUME NEW a \in Areas, NEW i \in DOMAIN entries'[a],
                        disk[entries'[a][i].name] = Absent
                 PROVE  entries'[a][i].empty \/ entries'[a][i].name \in unmade
      BY <1>1 DEF ListedIsThere, Areas
    <3>1. CASE a = area
      BY <1>4, <2>2, <3>1 DEF Inv, ListedIsThere
    <3>2. CASE a # area
      BY <2>2, <3>2 DEF Inv, ListedIsThere
    <3> QED BY <3>1, <3>2
  <2> QED BY <1>2, <1>4, <2>1, <2>2, <2>3
<1>5. /\ entries' \in [Areas -> Seq(Entry)]
      /\ \A a \in Areas : Len(entries'[a]) <= Slots
      /\ ListedIsThere'
  <2>1. CASE UNCHANGED entries
    BY <1>1, <1>3, <2>1, StillListed DEF Inv, TypeOK
  <2>2. CASE job.dir = "down" /\ SaveEntry
    <3> DEFINE e == entries[area][job.slot]
               f == [e EXCEPT !.downloads = @ + 1]
               t == [entries[area] EXCEPT ![job.slot] = f]
    <3>1. job.slot \in 1..Len(entries[area]) /\ e \in Entry /\ e.downloads < MaxDownloads
      BY <1>2, <2>2 DEF Inv, JobInv
    <3>2. f \in Entry /\ f.name = e.name /\ f.empty = e.empty
      <4>1. f = [name |-> e.name, empty |-> e.empty, downloads |-> e.downloads + 1]
        BY <3>1 DEF Entry
      <4> HIDE DEF e
      <4>2. e.name \in Names /\ e.empty \in BOOLEAN /\ e.downloads \in 0..MaxDownloads
        BY <3>1 DEF Entry
      <4>3. e.downloads + 1 \in 0..MaxDownloads
        BY <3>1, <4>2, Bounds
      <4> HIDE DEF f
      <4> QED BY <4>1, <4>2, <4>3 DEF Entry
    <3>3. entries' = [entries EXCEPT ![area] = t]
      BY <2>2 DEF SaveEntry
    <3> HIDE DEF f
    <3>4. /\ t \in Seq(Entry) /\ Len(t) = Len(entries[area])
          /\ \A k \in 1..Len(entries[area]) : t[k] = IF k = job.slot THEN f ELSE entries[area][k]
      BY <1>2, <3>1, <3>2, ExceptSeq
    <3> HIDE DEF t
    <3>5. \A k \in DOMAIN t : /\ k \in DOMAIN entries[area]
                              /\ t[k].name = entries[area][k].name
                              /\ t[k].empty = entries[area][k].empty
      BY <1>2, <3>2, <3>4
    <3>6. Len(t) <= Slots
      BY <1>2, <3>4
    <3> QED BY <1>4, <3>3, <3>4, <3>5, <3>6
  <2>3. CASE job.dir = "up" /\ result = "ok" /\ AddEntry
    <3> DEFINE f == [name |-> job.name, empty |-> declined, downloads |-> 0]
               t == Append(entries[area], f)
    <3>1. f \in Entry /\ (disk[f.name] = Absent => f.empty)
      BY <1>1, <2>3, Bounds DEF Inv, TypeOK, JobInv, FileInv, Entry
    <3> HIDE DEF f
    <3>2. CASE Len(entries[area]) < Slots /\ entries' = [entries EXCEPT ![area] = t]
      <4>1. /\ t \in Seq(Entry) /\ Len(t) = Len(entries[area]) + 1
            /\ \A k \in DOMAIN t : IF k = Len(entries[area]) + 1 THEN t[k] = f
                                   ELSE k \in DOMAIN entries[area] /\ t[k] = entries[area][k]
        BY <1>2, <3>1
      <4>2. Len(t) <= Slots
        BY <1>2, <3>2, <4>1, Bounds
      <4> HIDE DEF t
      <4>3. \A k \in DOMAIN t :
              \/ /\ k \in DOMAIN entries[area] /\ t[k].name = entries[area][k].name
                 /\ t[k].empty = entries[area][k].empty
              \/ disk[t[k].name] = Absent => t[k].empty
        BY <3>1, <4>1
      <4> QED BY <1>4, <3>2, <4>1, <4>2, <4>3
    <3>3. Len(entries[area]) < Slots \/ Len(entries[area]) = Slots
      BY <1>2, Bounds
    <3> QED BY <2>1, <2>3, <3>2, <3>3 DEF AddEntry, Full, f
  <2> QED BY <2>1, <2>2, <2>3 DEF Bookkeeping, catalogue
<1>6. Idle
  BY <1>1 DEF Inv, IdleInv, Uploading
<1>7. TypeOK'
  <2>1. /\ job' \in [dir : {"none", "up", "down"}, proto : {"none", "punter", "zmodem"},
                     name : Names \cup {"none"}, slot : 0..Slots]
        /\ file' \in Seq(Chunk) /\ got' \in Seq(Chunk) /\ at' \in Places
        /\ result' \in {"none", "ok", "err", "cancel"}
    BY <1>1, Bounds DEF NoJob, Places
  <2>2. uploads' \in 0..MaxUploads
    <3>1. uploads \in 0..MaxUploads /\ begun \in 0..MaxUploads
      BY DEF Inv, TypeOK
    <3> QED BY <1>3, <3>1, Bounds
  <2>3. unkept' \subseteq Areas
    BY <1>2 DEF Inv, TypeOK, Bookkeeping
  <2> QED BY <1>1, <1>3, <1>5, <2>1, <2>2, <2>3 DEF Inv, TypeOK, zmodem, told
<1>8. JobInv' /\ IdleInv' /\ LineInv' /\ FileInv' /\ PunterInv' /\ StreamInv' /\ StreamedInv'
      /\ CompleteIsWhole'
  BY <1>1, <1>3, <1>6, Bounds
  DEF JobInv, NoJob, Uploading, IdleInv, Idle, LineInv, FileInv, PunterInv, StreamInv, StreamedInv,
      CompleteIsWhole, Complete, zmodem, told
<1>9. CountInv' /\ CountsAgree'
  <2>1. /\ entries \in [Areas -> Seq(Entry)] /\ total_files \in [Areas -> 0..uploads]
        /\ \A a \in Areas \ unkept : Len(entries[a]) = total_files[a]
        /\ area \in unkept \/ area_files = total_files[area]
    BY DEF Inv, TypeOK, CountInv, CountsAgree
  <2>2. CASE UNCHANGED <<entries, total_files, area_files, unkept>>
    BY <1>1, <2>1, <2>2 DEF CountInv, CountsAgree
  <2>3. CASE job.dir = "down" /\ SaveEntry /\ UNCHANGED <<total_files, area_files, unkept>>
    <3>1. \A a \in Areas : Len(entries'[a]) = Len(entries[a])
      <4> DEFINE f == [entries[area][job.slot] EXCEPT !.downloads = @ + 1]
                 t == [entries[area] EXCEPT ![job.slot] = f]
      <4>1. entries' = [entries EXCEPT ![area] = t]
        BY <2>3 DEF SaveEntry
      <4>2. job.slot \in 1..Len(entries[area])
        BY <1>2, <2>3 DEF Inv, JobInv
      <4> HIDE DEF f
      <4>3. f \in Entry \cup {f} /\ entries[area] \in Seq(Entry \cup {f})
        BY <1>2
      <4>4. Len(t) = Len(entries[area])
        BY <4>2, <4>3, ExceptSeq
      <4> HIDE DEF t
      <4> QED BY <1>2, <2>1, <4>1, <4>4
    <3> QED BY <1>1, <2>1, <2>3, <3>1 DEF CountInv, CountsAgree
  <2>4. CASE /\ AddEntry /\ SaveArea /\ area_files' = area_files + 1
             /\ unkept' = IF Full THEN unkept \cup {area} ELSE unkept
    <3>1. CASE Full
      <4>1. area \in unkept' /\ \A a \in Areas \ {area} :
                                 entries'[a] = entries[a] /\ total_files'[a] = total_files[a]
        BY <1>2, <2>1, <2>4, <3>1 DEF AddEntry, SaveArea
      <4> QED BY <1>1, <2>1, <2>4, <3>1, <4>1 DEF CountInv, CountsAgree
    <3>2. CASE ~Full
      <4>1. /\ Len(entries'[area]) = Len(entries[area]) + 1 /\ total_files'[area] = area_files'
            /\ \A a \in Areas \ {area} :
                 entries'[a] = entries[a] /\ total_files'[a] = total_files[a]
        BY <1>2, <2>1, <2>4, <3>2 DEF AddEntry, SaveArea
      <4> QED BY <1>1, <1>2, <2>1, <2>4, <3>2, <4>1 DEF CountInv, CountsAgree
    <3> QED BY <3>1, <3>2
  <2>5. CASE /\ unkept' = unkept \cup {area}
             /\ AddEntry \/ UNCHANGED entries
             /\ SaveArea \/ UNCHANGED total_files
    <3>1. \A a \in Areas \ {area} :
            entries'[a] = entries[a] /\ total_files'[a] = total_files[a]
      BY <2>1, <2>5 DEF AddEntry, SaveArea
    <3> QED BY <1>1, <2>1, <2>5, <3>1 DEF CountInv, CountsAgree
  <2> QED BY <2>2, <2>3, <2>4, <2>5 DEF Bookkeeping, catalogue
<1> QED BY <1>5, <1>7, <1>8, <1>9 DEF Inv

-----------------------------------------------------------------------------
(* A transfer ends, or goes on. *)

\* The types of what a transfer changes.
TransferTyped ==
  /\ disk \in [Names -> Seq(Chunk) \cup {Absent}] /\ got \in Seq(Chunk)
  /\ fpos \in Nat /\ line \in Seq(Frame) /\ Len(line) <= Window
  /\ reply \in Seq({"ZACK", "ZRPOS"})
  /\ sender \in [at : {"idle", "wait", "frame", "data", "ack", "eof"}, pos : 0..MaxChunks]
  /\ resends \in 0..MaxResends /\ faults \in 0..MaxFaults
  /\ declined \in BOOLEAN /\ damaged \in BOOLEAN /\ dropped \in BOOLEAN
  /\ unmade \subseteq Names

\* It leaves the rest, and keeps the files that are there, or their loss is noted.
TransferLeaves ==
  /\ UNCHANGED <<catalogue, selected, job, file, begun, unkept>>
  /\ unmade \subseteq unmade'
  /\ \A n \in Names : disk[n] # Absent => disk'[n] # Absent \/ n \in unmade'

\* The places of one transfer.
Phases == {{"psend", "pend"}, {"zsend", "zstream", "zeof"}, {"precv", "plost", "pfin"},
           Uploading \cup {"zhello"}}

\* A transfer that ends well has brought the file over.
LEMMA Ended ==
  ASSUME Inv, NEW r \in {"ok", "err", "cancel"}, Returns(r), at \in Running,
         disk' \in [Names -> Seq(Chunk) \cup {Absent}], got' \in Seq(Chunk),
         faults' \in 0..MaxFaults, declined' \in BOOLEAN, damaged' \in BOOLEAN,
         dropped' \in BOOLEAN, unmade' \subseteq Names, TransferLeaves,
         r = "ok" => /\ job.dir = "up" /\ ~declined' => disk'[job.name] # Absent
                     /\ \/ Delivered' = file
                        \/ declined'
                        \/ job.proto = "punter" /\ job.dir = "down" /\ got' = Front(file)
                        \/ job.proto = "zmodem" /\ damaged'
                        \/ dropped' /\ InPlace(Delivered)'
  PROVE  Inv'
<1>1. at' = "done" /\ result' = r /\ Idle' /\ resends' = 0
  BY DEF Returns, Idle
<1>2. TypeOK'
  <2>1. /\ fpos' \in Nat /\ line' \in Seq(Frame) /\ Len(line') <= Window
        /\ reply' \in Seq({"ZACK", "ZRPOS"}) /\ resends' \in 0..MaxResends
        /\ sender' \in [at : {"idle", "wait", "frame", "data", "ack", "eof"}, pos : 0..MaxChunks]
    BY <1>1, Bounds DEF Idle
  <2>2. at' \in Places /\ result' \in {"none", "ok", "err", "cancel"}
    BY <1>1 DEF Places
  <2> QED BY <2>1, <2>2 DEF Inv, TypeOK, TransferLeaves, catalogue, selected
<1>3. JobInv'
  BY <1>1 DEF Inv, JobInv, Uploading, TransferLeaves, catalogue, selected
<1>4. IdleInv' /\ PunterInv' /\ StreamInv' /\ StreamedInv'
  BY <1>1 DEF IdleInv, PunterInv, StreamInv, StreamedInv, Uploading
<1>5. LineInv'
  BY <1>1 DEF LineInv, Idle, Inv, TypeOK, TransferLeaves
<1>6. FileInv' /\ CompleteIsWhole'
  BY <1>1 DEF FileInv, Uploading, CompleteIsWhole, Complete, TransferLeaves
<1>7. ListedIsThere'
  BY StillListed DEF Inv, TransferLeaves, catalogue
<1>8. CountInv' /\ CountsAgree'
  BY DEF Inv, CountInv, CountsAgree, TransferLeaves, catalogue, selected
<1> QED BY <1>2, <1>3, <1>4, <1>5, <1>6, <1>7, <1>8 DEF Inv

\* A transfer that goes on says nothing yet.
LEMMA Continued ==
  ASSUME Inv, NEW S \in Phases, at \in S, at' \in S, result' = result,
         TransferTyped', TransferLeaves,
         IdleInv', LineInv', FileInv', PunterInv', StreamInv', StreamedInv'
  PROVE  Inv'
<1>1. at' \in Places /\ at' \notin {"prompt", "done"}
  BY DEF Phases, Uploading, Places
<1>2. TypeOK'
  BY <1>1 DEF Inv, TypeOK, TransferTyped, TransferLeaves, catalogue, selected
<1>3. JobInv'
  BY <1>1 DEF Inv, JobInv, Phases, Uploading, TransferLeaves, catalogue, selected
<1>4. CompleteIsWhole'
  BY <1>1 DEF CompleteIsWhole, Complete
<1>5. ListedIsThere'
  BY StillListed DEF Inv, TransferLeaves, catalogue
<1>6. CountInv' /\ CountsAgree'
  BY DEF Inv, CountInv, CountsAgree, TransferLeaves, catalogue, selected
<1> QED BY <1>2, <1>3, <1>4, <1>5, <1>6 DEF Inv

\* What a step leaves alone keeps its type.
LEMMA TypesKept ==
  ASSUME Inv
  PROVE  /\ TransferTyped
         /\ at \in Uploading \cup {"precv", "plost", "pfin"} =>
              job.name \in Names /\ disk[job.name] \in Seq(Chunk)
         /\ file \in Seq(Chunk) /\ Len(file) \in Nat
<1>1. job.name \in Names => disk[job.name] \in Seq(Chunk) \cup {Absent}
  BY DEF Inv, TypeOK
<1> QED BY <1>1 DEF Inv, TypeOK, TransferTyped, JobInv, FileInv, Uploading

-----------------------------------------------------------------------------
(* Punter. *)

\* A download that runs out of tries, or is through.
LEMMA PunterSendEnds ==
  ASSUME Inv, PunterSendFails \/ PunterSendEnd
  PROVE  Inv'
<1>1. file \in Seq(Chunk) /\ got \in Seq(Chunk) /\ faults \in 0..MaxFaults
      /\ disk \in [Names -> Seq(Chunk) \cup {Absent}]
  BY DEF Inv, TypeOK
<1>2. /\ declined \in BOOLEAN /\ damaged \in BOOLEAN /\ dropped \in BOOLEAN
      /\ unmade \subseteq Names
  BY DEF Inv, TypeOK
<1>3. CASE PunterSendFails
  <2>1. /\ at \in {"psend", "pend"} /\ Returns("err")
        /\ UNCHANGED <<disk, catalogue, selected, job, file, history>>
    BY <1>3 DEF PunterSendFails
  <2>2. faults' \in 0..MaxFaults
    BY <1>3, Faulted DEF Inv, PunterSendFails
  <2>3. got' \in Seq(Chunk)
    <3>1. Len(got) < Len(file) => file[Len(got) + 1] \in Chunk
      BY <1>1
    <3>2. got' = got \/ (Len(got) < Len(file) /\ got' = Append(got, file[Len(got) + 1]))
      BY <1>3 DEF PunterSendFails
    <3> QED BY <1>1, <3>1, <3>2
  <2>4. TransferLeaves
    BY <2>1, <2>2 DEF TransferLeaves, history, told
  <2> QED BY <1>1, <1>2, <2>1, <2>2, <2>3, <2>4, Ended DEF Running, Places, history, told
<1>4. CASE PunterSendEnd
  <2>1. /\ at = "pend" /\ Returns("ok")
        /\ UNCHANGED <<disk, catalogue, selected, job, file, got, faults, history>>
    BY <1>4 DEF PunterSendEnd
  <2>2. /\ job.dir = "down" /\ job.proto = "punter"
        /\ got = file \/ got = Front(file) \/ (dropped /\ InPlace(got))
    BY <2>1, BeginsInPlace DEF Inv, JobInv, PunterInv
  <2>3. TransferLeaves
    BY <2>1 DEF TransferLeaves, history, told
  <2>4. InPlace(got)' <=> InPlace(got)
    BY <2>1 DEF InPlace, history, told
  <2> QED BY <1>1, <1>2, <2>1, <2>2, <2>3, <2>4, Ended
      DEF Running, Places, history, told, Delivered, InPlace
<1> QED BY <1>3, <1>4

\* A block of a download: the terminal has the first chunks, in order.
LEMMA PunterSendBlockStep ==
  ASSUME Inv, PunterSendBlock
  PROVE  Inv'
<1>1. /\ at = "psend" /\ at' \in {"psend", "pend"}
      /\ UNCHANGED <<disk, catalogue, selected, job, file, result, zmodem,
                     declined, damaged, begun, unmade, unkept>>
  BY DEF PunterSendBlock
<1>2. /\ file \in Seq(Chunk) /\ got \in Seq(Chunk)
      /\ Begins(got) /\ (got = << >> \/ Len(got) + 1 < Len(file))
      /\ faults \in 0..MaxFaults /\ dropped \in BOOLEAN
  BY <1>1 DEF Inv, TypeOK, PunterInv
<1>3. /\ got' \in Seq(Chunk) /\ Begins(got') /\ dropped' \in BOOLEAN
      /\ at' = "psend" => Len(got') + 1 < Len(file)
      /\ at' = "pend" => got' = file \/ got' = Front(file) \/ dropped'
  <2>1. CASE Len(got) + 1 <= Len(file) /\ got' = Append(got, file[Len(got) + 1])
    <3>1. got' \in Seq(Chunk) /\ Begins(got') /\ Len(got') = Len(got) + 1
      BY <1>2, <2>1, NextBegins
    <3>2. Len(got') <= Len(file) /\ Len(got') \in Nat /\ Len(file) \in Nat
      BY <1>2, <3>1 DEF Begins
    <3>3. \/ dropped' = dropped /\ at' = (IF Len(got) + 1 + 1 >= Len(file) THEN "pend" ELSE "psend")
          \/ dropped' = TRUE /\ at' = "pend"
      BY DEF PunterSendBlock
    <3>4. Len(got') + 1 >= Len(file) => got' = file \/ got' = Front(file)
      BY <1>2, <3>1, <3>2, BeginsAll
    <3>5. at' = "psend" => Len(got') + 1 < Len(file)
      BY <1>2, <3>1, <3>2, <3>3
    <3>6. at' = "pend" => got' = file \/ got' = Front(file) \/ dropped'
      <4>1. CASE dropped' = TRUE
        BY <4>1
      <4>2. CASE at' = (IF Len(got) + 1 + 1 >= Len(file) THEN "pend" ELSE "psend")
        <5>1. at' = "pend" => Len(got) + 1 + 1 >= Len(file)
          BY <4>2
        <5>2. at' = "pend" => Len(got') + 1 >= Len(file)
          BY <3>1, <5>1
        <5> QED BY <3>4, <5>2
      <4> QED BY <3>3, <4>1, <4>2
    <3>7. dropped' \in BOOLEAN
      BY <1>2, <3>3
    <3> QED BY <3>1, <3>5, <3>6, <3>7
  <2>2. CASE got' = got /\ at' = "pend" /\ dropped' = TRUE
    BY <1>2, <2>2
  <2>3. CASE ~(Len(got) + 1 <= Len(file)) /\ got' = got /\ UNCHANGED dropped /\ at' = "pend"
    <3>1. got = << >> /\ file = << >>
      BY <1>2, <2>3
    <3> QED BY <1>2, <2>3, <3>1
  <2>4. Len(got) \in Nat /\ Len(file) \in Nat
    BY <1>2
  <2>5. CASE Len(got) + 1 <= Len(file)
    BY <2>1, <2>2, <2>4, <2>5 DEF PunterSendBlock
  <2>6. CASE ~(Len(got) + 1 <= Len(file))
    BY <1>2, <2>2, <2>3, <2>4, <2>6 DEF PunterSendBlock
  <2> QED BY <2>5, <2>6
<1>4. faults' \in 0..MaxFaults
  BY <1>2, Faulted DEF Inv, PunterSendBlock
<1>5. TransferTyped'
  BY <1>1, <1>3, <1>4, TypesKept DEF TransferTyped, zmodem
<1>6. IdleInv' /\ LineInv' /\ FileInv' /\ StreamInv' /\ StreamedInv'
  BY <1>1 DEF Inv, IdleInv, Idle, LineInv, FileInv, StreamInv, StreamedInv, Uploading, zmodem
<1>7. PunterInv'
  BY <1>1, <1>3 DEF PunterInv, Begins
<1>8. TransferLeaves
  BY <1>1 DEF TransferLeaves
<1> QED BY <1>1, <1>5, <1>6, <1>7, <1>8, Continued DEF Phases

\* A block of an upload: the file has the first chunks, in order, and of some of
\* them only what the drive has kept.
LEMMA PunterRecvBlockStep ==
  ASSUME Inv, PunterRecvBlock
  PROVE  Inv'
<1> DEFINE s == disk[job.name]
<1>1. /\ at = "precv" /\ at' \in {"precv", "plost", "pfin"}
      /\ UNCHANGED <<catalogue, selected, job, file, got, result, zmodem,
                     declined, damaged, begun, unmade, unkept>>
  BY DEF PunterRecvBlock
<1>2. /\ job.name \in Names /\ s \in Seq(Chunk) /\ file \in Seq(Chunk)
      /\ InPlace(s) /\ (dropped \/ Begins(s)) /\ dropped \in BOOLEAN
      /\ disk \in [Names -> Seq(Chunk) \cup {Absent}] /\ faults \in 0..MaxFaults
  BY <1>1, TypesKept DEF Inv, TypeOK, PunterInv
<1>3. begun \in 1..MaxUploads
  BY <1>1, Bounds DEF Inv, TypeOK, JobInv
<1>4. /\ disk' \in [Names -> Seq(Chunk) \cup {Absent}] /\ dropped' \in BOOLEAN
      /\ \A n \in Names : disk[n] # Absent => disk'[n] # Absent
      /\ disk'[job.name] # Absent
      /\ at' \in {"precv", "pfin"} => InPlace(disk'[job.name])
      /\ at' = "precv" => dropped' \/ Begins(disk'[job.name])
      /\ at' = "pfin" => dropped' \/ disk'[job.name] = file
  <2>1. CASE Len(s) + 1 <= Len(file)
    <3> PICK c \in {file[Len(s) + 1], <<begun, 0>>} :
          /\ disk' = [disk EXCEPT ![job.name] = Append(s, c)]
          /\ dropped' = TRUE \/ (dropped' = dropped /\ c = file[Len(s) + 1])
      BY <2>1 DEF PunterRecvBlock
    <3>1. at' # "pfin"
      BY <2>1 DEF PunterRecvBlock
    <3> DEFINE t == Append(s, c)
    <3>2. t \in Seq(Chunk) /\ InPlace(t)
      <4>1. Len(s) < Len(file)
        BY <1>2, <2>1
      <4> HIDE DEF s
      <4> QED BY <1>2, <1>3, <4>1, NextInPlace
    <3>3. dropped' \/ Begins(t)
      <4>1. Len(s) < Len(file)
        BY <1>2, <2>1
      <4> HIDE DEF s
      <4> QED BY <1>2, <4>1, NextBegins
    <3>4. disk' = [disk EXCEPT ![job.name] = t] /\ dropped' \in BOOLEAN
      BY <1>2
    <3> HIDE DEF t
    <3> QED BY <1>2, <3>1, <3>2, <3>3, <3>4, AbsentIsNoFile
  <2>2. CASE ~(Len(s) + 1 <= Len(file))
    <3>1. disk' = disk /\ at' = "pfin" /\ dropped' = dropped
      BY <2>2 DEF PunterRecvBlock
    <3>2. Begins(s) => Len(s) = Len(file)
      BY <1>2, <2>2 DEF Begins
    <3> QED BY <1>2, <3>1, <3>2, BeginsAll, AbsentIsNoFile
  <2> QED BY <2>1, <2>2
<1>5. faults' \in 0..MaxFaults
  BY <1>2, Faulted DEF Inv, PunterRecvBlock
<1>6. TransferTyped'
  BY <1>1, <1>4, <1>5, TypesKept DEF TransferTyped, zmodem
<1>7. IdleInv' /\ LineInv' /\ FileInv' /\ StreamInv' /\ StreamedInv'
  BY <1>1, <1>4 DEF Inv, IdleInv, Idle, LineInv, FileInv, StreamInv, StreamedInv, Uploading, zmodem
<1>8. PunterInv'
  <2>1. \A x : (Begins(x) => Begins(x)') /\ (InPlace(x) => InPlace(x)')
    BY <1>1 DEF Begins, InPlace
  <2> QED BY <1>1, <1>4 DEF PunterInv, Begins, InPlace
<1>9. TransferLeaves
  BY <1>1, <1>4 DEF TransferLeaves
<1> QED BY <1>1, <1>6, <1>7, <1>8, <1>9, Continued DEF Phases

LEMMA PunterRecvEndStep ==
  ASSUME Inv, PunterRecvEnd
  PROVE  Inv'
<1>1. /\ at \in {"precv", "plost", "pfin"}
      /\ UNCHANGED <<disk, catalogue, selected, job, file, got, history>>
      /\ (at = "pfin" /\ Returns("ok")) \/ Returns("err")
  BY DEF PunterRecvEnd
<1>2. /\ disk \in [Names -> Seq(Chunk) \cup {Absent}] /\ got \in Seq(Chunk)
      /\ declined \in BOOLEAN /\ damaged \in BOOLEAN /\ dropped \in BOOLEAN
      /\ unmade \subseteq Names /\ faults \in 0..MaxFaults
  BY DEF Inv, TypeOK
<1>3. faults' \in 0..MaxFaults
  BY <1>2, Faulted DEF Inv, PunterRecvEnd
<1>4. TransferLeaves
  BY <1>1, <1>3 DEF TransferLeaves, history, told
<1>5. at \in Running
  BY <1>1 DEF Running, Places
<1>6. CASE Returns("err")
  BY <1>1, <1>2, <1>3, <1>4, <1>5, <1>6, Ended DEF history, told
<1>7. CASE at = "pfin" /\ Returns("ok")
  <2>1. /\ job.dir = "up" /\ disk[job.name] # Absent
        /\ disk[job.name] = file \/ (dropped /\ InPlace(disk[job.name]))
    BY <1>7 DEF Inv, JobInv, PunterInv, FileInv, Uploading
  <2>2. InPlace(disk[job.name])' <=> InPlace(disk[job.name])
    BY <1>1 DEF InPlace, history, told
  <2> QED BY <1>1, <1>2, <1>3, <1>4, <1>5, <1>7, <2>1, <2>2, Ended
      DEF history, told, Delivered, InPlace
<1> QED BY <1>1, <1>6, <1>7

-----------------------------------------------------------------------------
(* Zmodem, the BBS sending. *)

\* The terminal wants the file, or not.
LEMMA ZSendHelloStep ==
  ASSUME Inv, ZSendHello
  PROVE  Inv'
<1>1. /\ at = "zsend"
      /\ UNCHANGED <<disk, catalogue, selected, job, file, got, faults,
                     damaged, dropped, begun, unmade, unkept>>
  BY DEF ZSendHello
<1>2. TransferLeaves
  BY <1>1 DEF TransferLeaves
<1>3. CASE at' = "zstream" /\ UNCHANGED <<result, zmodem, declined>>
  <2>1. TransferTyped'
    BY <1>1, <1>3, TypesKept DEF TransferTyped, zmodem
  <2>2. IdleInv' /\ LineInv' /\ FileInv' /\ StreamInv' /\ StreamedInv' /\ PunterInv'
    BY <1>1, <1>3 DEF Inv, IdleInv, Idle, LineInv, FileInv, StreamInv, StreamedInv, Uploading,
                      PunterInv, zmodem
  <2> QED BY <1>1, <1>2, <1>3, <2>1, <2>2, Continued DEF Phases
<1>4. /\ disk \in [Names -> Seq(Chunk) \cup {Absent}] /\ got \in Seq(Chunk)
      /\ declined \in BOOLEAN /\ damaged \in BOOLEAN /\ dropped \in BOOLEAN
      /\ unmade \subseteq Names /\ faults \in 0..MaxFaults
  BY DEF Inv, TypeOK
<1>5. at \in Running
  BY <1>1 DEF Running, Places
<1>6. CASE Returns("ok") /\ declined' = TRUE
  BY <1>1, <1>2, <1>4, <1>5, <1>6, Ended
<1>7. CASE (Returns("err") \/ Returns("cancel")) /\ UNCHANGED declined
  BY <1>1, <1>2, <1>4, <1>5, <1>7, Ended
<1> QED BY <1>3, <1>6, <1>7 DEF ZSendHello

\* The file is streamed: without damage, all of it.
LEMMA ZStreamStep ==
  ASSUME Inv, ZStream
  PROVE  Inv'
<1>1. /\ at = "zstream" /\ at' = "zeof"
      /\ UNCHANGED <<disk, catalogue, selected, job, file, result, zmodem,
                     declined, begun, unmade, unkept>>
  BY DEF ZStream
<1>2. /\ file \in Seq(Chunk) /\ faults \in 0..MaxFaults
      /\ damaged \in BOOLEAN /\ dropped \in BOOLEAN
  BY DEF Inv, TypeOK
<1> PICK k \in 0..Len(file) :
      /\ got' = Streamed(k)
      /\ \/ k = Len(file) /\ UNCHANGED <<faults, damaged, dropped>>
         \/ k < Len(file) /\ Fault /\ damaged' = TRUE /\ UNCHANGED dropped
         \/ k < Len(file) /\ Fault /\ dropped' = TRUE /\ UNCHANGED damaged
  BY DEF ZStream
<1>3. got' \in Seq(Chunk) /\ Begins(got') /\ (k = Len(file) => got' = file)
  BY <1>2 DEF Streamed, Begins
<1>4. faults' \in 0..MaxFaults /\ damaged' \in BOOLEAN /\ dropped' \in BOOLEAN
  BY <1>2, Faulted DEF Inv
<1>5. TransferTyped'
  BY <1>1, <1>3, <1>4, TypesKept DEF TransferTyped, zmodem
<1>6. IdleInv' /\ LineInv' /\ FileInv' /\ StreamInv' /\ PunterInv'
  BY <1>1 DEF Inv, IdleInv, Idle, LineInv, FileInv, StreamInv, Uploading, PunterInv, zmodem
<1>7. StreamedInv'
  BY <1>1, <1>3 DEF StreamedInv, Begins
<1>8. TransferLeaves
  BY <1>1 DEF TransferLeaves
<1> QED BY <1>1, <1>5, <1>6, <1>7, <1>8, Continued DEF Phases

LEMMA ZSendEndStep ==
  ASSUME Inv, ZSendEnd
  PROVE  Inv'
<1>1. /\ at = "zeof" /\ (Returns("ok") \/ Returns("cancel"))
      /\ UNCHANGED <<disk, catalogue, selected, job, file, got, faults, history>>
  BY DEF ZSendEnd
<1>2. /\ disk \in [Names -> Seq(Chunk) \cup {Absent}] /\ got \in Seq(Chunk)
      /\ declined \in BOOLEAN /\ damaged \in BOOLEAN /\ dropped \in BOOLEAN
      /\ unmade \subseteq Names /\ faults \in 0..MaxFaults
  BY DEF Inv, TypeOK
<1>3. /\ job.dir = "down" /\ job.proto = "zmodem"
      /\ damaged \/ got = file \/ (dropped /\ InPlace(got))
  BY <1>1, BeginsInPlace DEF Inv, JobInv, StreamedInv
<1>4. TransferLeaves
  BY <1>1 DEF TransferLeaves, history, told
<1>5. InPlace(got)' <=> InPlace(got)
  BY <1>1 DEF InPlace, history, told
<1> QED BY <1>1, <1>2, <1>3, <1>4, <1>5, Ended
    DEF Running, Places, history, told, Delivered, InPlace

-----------------------------------------------------------------------------
(* Zmodem, the terminal sending. *)

\* The frame sent last, when everything is traced from x.
LEMMA LastTraced ==
  ASSUME line \in Seq(Frame), NEW x \in Frame, Traced(x)
  PROVE  \E z \in Frame : /\ z = IF line = << >> THEN x ELSE line[Len(line)]
                          /\ Sound(z) /\ SentLast(z)
<1>1. CASE line = << >>
  BY <1>1 DEF Traced
<1>2. CASE line # << >>
  <2>1. Len(line) \in DOMAIN line /\ line[Len(line)] \in Frame
    BY <1>2
  <2> QED BY <1>2, <2>1 DEF Traced, Chained
<1> QED BY <1>1, <1>2

\* The sender leaves the receiver where it is.  The trace goes on when the new
\* frame follows the last one, or the sender moves on behind the last one.
LEMMA SenderStream ==
  ASSUME Inv, at \in Uploading, NEW s, SenderStep(s), damaged => damaged',
         ~damaged' => sender'.at # "wait" /\ reply' \in Seq({"ZACK"}),
         \/ /\ line' = line
            /\ ~damaged' => \A z \in Frame : Sound(z) /\ SentLast(z) => SentLast(z)'
         \/ \E y \in Frame :
              /\ line' = Append(line, y)
              /\ ~damaged' => /\ Sound(y) /\ SentLast(y)'
                              /\ \A z \in Frame : Sound(z) /\ SentLast(z) => Follows(z, y)
  PROVE  StreamInv'
<1>1. /\ sender' = s
      /\ UNCHANGED <<disk, catalogue, selected, at, job, file, got, result, fpos,
                     declined, dropped, begun, unmade, unkept>>
  BY DEF SenderStep
<1> SUFFICES ASSUME ~damaged' PROVE StreamInv'
  BY DEF StreamInv
<1>2. /\ fpos = Len(disk[job.name]) /\ Begins(disk[job.name])
      /\ \E x \in Frame : Traced(x)
  BY DEF Inv, StreamInv
<1> PICK x \in Frame : Traced(x)
  BY <1>2
<1>3. line \in Seq(Frame)
  BY DEF Inv, TypeOK
<1> PICK z \in Frame : z = (IF line = << >> THEN x ELSE line[Len(line)]) /\ Sound(z) /\ SentLast(z)
  BY <1>3, LastTraced
<1>4. ASSUME line' = line, \A w \in Frame : Sound(w) /\ SentLast(w) => SentLast(w)'
      PROVE  Chained(x, line') /\ SentLast(IF line = << >> THEN x ELSE line[Len(line)])'
  BY <1>4 DEF Traced
<1>5. ASSUME NEW y \in Frame, line' = Append(line, y), Sound(y), SentLast(y)',
             \A w \in Frame : Sound(w) /\ SentLast(w) => Follows(w, y)
      PROVE  Chained(x, line') /\ SentLast(IF line = << >> THEN x ELSE line[Len(line)])'
  <2>1. Len(line') = Len(line) + 1 /\ line'[Len(line')] = y /\ line' # << >>
    BY <1>3, <1>5
  <2>2. ASSUME NEW i \in 1..Len(line')
        PROVE  Sound(line'[i]) /\ Follows(IF i = 1 THEN x ELSE line'[i - 1], line'[i])
    <3>1. CASE i \in DOMAIN line
      <4>1. line'[i] = line[i] /\ (i # 1 => line'[i - 1] = line[i - 1])
        BY <1>3, <1>5, <3>1
      <4> QED BY <3>1, <4>1 DEF Traced, Chained
    <3>2. CASE i = Len(line) + 1
      <4>1. line'[i] = y /\ (IF i = 1 THEN x ELSE line'[i - 1]) = z
        BY <1>3, <1>5, <3>2
      <4> QED BY <1>5, <4>1
    <3> QED BY <1>3, <2>1, <3>1, <3>2
  <2>3. DOMAIN line' = 1..Len(line')
    BY <1>3, <1>5
  <2>4. Chained(x, line')
    BY <2>2, <2>3 DEF Chained
  <2> QED BY <1>5, <2>1, <2>4
<1>6. Traced(x)'
  <2>1. Chained(x, line') /\ SentLast(IF line = << >> THEN x ELSE line[Len(line)])'
    BY <1>4, <1>5
  <2>2. Sound(x)' /\ ReadLast(x)'
    BY <1>1 DEF Traced, Sound, ReadLast
  <2>3. Chained(x, line)'
    BY <1>1, <2>1 DEF Chained, Sound, Follows
  <2> QED BY <2>1, <2>2, <2>3 DEF Traced
<1>7. Begins(disk[job.name])'
  BY <1>1, <1>2 DEF Begins
<1> QED BY <1>1, <1>2, <1>6, <1>7 DEF StreamInv

\* The terminal sends what is of the file.
LEMMA SenderGoesOn ==
  ASSUME Inv, at \in Uploading, SenderStep(sender'), StreamInv',
         sender'.at \in {"wait", "frame", "data", "ack", "eof"},
         sender' \in [at : {"idle", "wait", "frame", "data", "ack", "eof"}, pos : 0..MaxChunks],
         sender'.pos <= Len(file), sender'.at = "data" => sender'.pos < Len(file),
         reply' \in Seq({"ZACK", "ZRPOS"}), resends' \in 0..MaxResends,
         faults' \in 0..MaxFaults, damaged' \in BOOLEAN,
         \/ line' = line
         \/ \E y \in Frame : /\ line' = Append(line, y) /\ y.pos <= Len(file)
                             /\ y.t = "sub" => y.pos > 0
  PROVE  Inv'
<1>1. /\ Len(line) < Window
      /\ UNCHANGED <<disk, catalogue, selected, at, job, file, got, result, fpos,
                     declined, dropped, begun, unmade, unkept>>
  BY DEF SenderStep
<1>2. /\ line' \in Seq(Frame) /\ Len(line') <= Window
      /\ \A i \in DOMAIN line' : /\ line'[i].pos <= Len(file)
                                 /\ line'[i].t = "sub" => line'[i].pos > 0
  <2>1. /\ line \in Seq(Frame)
        /\ \A i \in DOMAIN line : /\ line[i].pos <= Len(file)
                                  /\ line[i].t = "sub" => line[i].pos > 0
    BY DEF Inv, TypeOK, LineInv
  <2>2. CASE line' = line
    BY <1>1, <2>1, <2>2, Bounds
  <2>3. ASSUME NEW y \in Frame, line' = Append(line, y), y.pos <= Len(file),
               y.t = "sub" => y.pos > 0
        PROVE  /\ line' \in Seq(Frame) /\ Len(line') <= Window
               /\ \A i \in DOMAIN line' : /\ line'[i].pos <= Len(file)
                                          /\ line'[i].t = "sub" => line'[i].pos > 0
    <3>1. line' \in Seq(Frame) /\ Len(line') = Len(line) + 1
      BY <2>1, <2>3
    <3>2. \A i \in DOMAIN line' : line'[i] = y \/ (i \in DOMAIN line /\ line'[i] = line[i])
      BY <2>1, <2>3
    <3> QED BY <1>1, <2>1, <2>3, <3>1, <3>2, Bounds
  <2> QED BY <2>2, <2>3
<1>3. TransferTyped'
  BY <1>1, <1>2, TypesKept DEF TransferTyped
<1>4. IdleInv' /\ FileInv' /\ PunterInv' /\ StreamedInv'
  BY <1>1 DEF Inv, IdleInv, FileInv, PunterInv, StreamedInv, Begins, Uploading
<1>5. LineInv'
  BY <1>1, <1>2 DEF LineInv
<1>6. TransferLeaves
  BY <1>1 DEF TransferLeaves
<1> QED BY <1>1, <1>3, <1>4, <1>5, <1>6, Continued DEF Phases

\* A header is announced: ZDATA if the file goes on, else ZEOF.
LEMMA SendFrameStep ==
  ASSUME Inv, SendFrame
  PROVE  Inv'
<1> DEFINE t == IF sender.pos < Len(file) THEN "ZDATA" ELSE "ZEOF"
<1>1. /\ sender.at = "frame" /\ Announce(Header(t, sender.pos)) /\ UNCHANGED <<reply, resends>>
      /\ SenderStep(sender') /\ sender'.pos = sender.pos
      /\ sender'.at = IF sender.pos < Len(file) THEN "data" ELSE "eof"
  BY DEF SendFrame, SenderStep, Inv, TypeOK
<1>2. /\ at \in Uploading /\ sender.pos <= Len(file) /\ sender.pos \in 0..MaxChunks
      /\ Len(file) \in Nat /\ faults \in 0..MaxFaults /\ reply \in Seq({"ZACK", "ZRPOS"})
      /\ resends \in 0..MaxResends
  BY <1>1 DEF Inv, TypeOK, IdleInv, Idle, LineInv
<1> PICK y \in Frame : y = Header(t, sender.pos)
  <2>1. t \in Kinds
    BY DEF Kinds
  <2> HIDE DEF t
  <2>2. Header(t, sender.pos) \in Frame
    BY <1>2, <2>1 DEF Header, Frame
  <2> QED BY <2>2
<1>3. y.pos = sender.pos /\ y.t = t /\ y.t # "sub"
  BY DEF Header
<1>4. y.good /\ InFrame(y) = (y.t = "ZDATA")
  BY DEF Header, InFrame
<1>5. damaged' \in BOOLEAN /\ (damaged => damaged')
  <2>1. damaged \in BOOLEAN
    BY DEF Inv, TypeOK
  <2>2. damaged' = damaged \/ damaged' = (damaged \/ t = "ZDATA")
    BY <1>1 DEF Announce, Header
  <2> HIDE DEF t
  <2> QED BY <2>1, <2>2
<1>6. sender' \in [at : {"idle", "wait", "frame", "data", "ack", "eof"}, pos : 0..MaxChunks]
  BY <1>1 DEF SendFrame, SenderStep, Inv, TypeOK
<1>7. faults' \in 0..MaxFaults
  BY <1>1, <1>2, Faulted DEF Announce, Inv
<1>8. line' = Append(line, y) \/ (line' = line /\ (damaged' \/ y.t = "ZEOF"))
  BY <1>1, <1>3 DEF Announce
<1>9. /\ Sound(y) /\ SentLast(y)'
      /\ \A z \in Frame : Sound(z) /\ SentLast(z) => Follows(z, y)
  <2>1. Sound(y)
    BY <1>2, <1>3, <1>4 DEF Sound
  <2>2. SentLast(y)'
    <3>1. file' = file
      BY <1>1 DEF SenderStep
    <3>2. CASE sender.pos < Len(file)
      BY <1>1, <1>3, <3>1, <3>2 DEF SentLast, InFrame
    <3>3. CASE ~(sender.pos < Len(file))
      BY <1>1, <1>2, <1>3, <3>1, <3>3 DEF SentLast, InFrame
    <3> QED BY <3>2, <3>3
  <2>3. ASSUME NEW z \in Frame, SentLast(z) PROVE Follows(z, y)
    BY <1>1, <1>2, <1>3, <2>3 DEF SentLast, Follows
  <2> QED BY <2>1, <2>2, <2>3
<1>10. ASSUME y.t = "ZEOF", NEW z \in Frame, SentLast(z) PROVE SentLast(z)'
  BY <1>1, <1>2, <1>3, <1>10 DEF SentLast, SenderStep
<1>11. ~damaged' => sender'.at # "wait" /\ reply' \in Seq({"ZACK"})
  BY <1>1, <1>2, <1>5 DEF Inv, StreamInv
<1>12. StreamInv'
  BY <1>1, <1>2, <1>3, <1>5, <1>8, <1>9, <1>10, <1>11, SenderStream
<1> QED BY <1>1, <1>2, <1>3, <1>5, <1>6, <1>7, <1>8, <1>12, SenderGoesOn

\* The next chunk, damaged on the way or not; the last one of the file ends its frame.
LEMMA SendChunkStep ==
  ASSUME Inv, SendChunk
  PROVE  Inv'
<1>1. /\ sender.at = "data" /\ at \in Uploading /\ sender.pos < Len(file)
      /\ sender.pos \in 0..MaxChunks /\ Len(file) \in Nat /\ Len(file) <= MaxChunks
      /\ faults \in 0..MaxFaults /\ reply \in Seq({"ZACK", "ZRPOS"})
      /\ resends \in 0..MaxResends
  BY DEF SendChunk, Inv, TypeOK, IdleInv, Idle, LineInv, JobInv
<1> PICK e \in {TRUE, sender.pos + 1 = Len(file)} :
      /\ \/ line' = Append(line, Sub(sender.pos + 1, e, TRUE)) /\ UNCHANGED <<faults, damaged>>
         \/ line' = Append(line, Sub(sender.pos + 1, e, FALSE)) /\ Fault /\ damaged' = TRUE
      /\ SenderStep([at  |-> IF ~e THEN "data"
                             ELSE IF sender.pos + 1 < Len(file) THEN "ack" ELSE "frame",
                     pos |-> sender.pos + 1])
  BY DEF SendChunk
<1>2. e \in BOOLEAN /\ (sender.pos + 1 = Len(file) => e)
  OBVIOUS
<1>3. damaged \in BOOLEAN
  BY DEF Inv, TypeOK
<1>4. PICK g \in BOOLEAN : /\ line' = Append(line, Sub(sender.pos + 1, e, g))
                           /\ ~g => damaged'
  OBVIOUS
<1>5. damaged' \in BOOLEAN /\ (damaged => damaged')
  <2>1. CASE UNCHANGED <<faults, damaged>>
    BY <1>3, <2>1
  <2>2. CASE damaged' = TRUE
    BY <2>2
  <2> QED BY <2>1, <2>2
<1>6. faults' \in 0..MaxFaults
  BY <1>1, Faulted DEF Inv
<1>7. UNCHANGED <<reply, resends>>
  BY DEF SendChunk
<1>8. /\ sender' = [at  |-> IF ~e THEN "data"
                            ELSE IF sender.pos + 1 < Len(file) THEN "ack" ELSE "frame",
                    pos |-> sender.pos + 1]
      /\ SenderStep(sender') /\ file' = file
  BY DEF SenderStep
<1>9. PICK y \in Frame : y = Sub(sender.pos + 1, e, g)
  <2>1. sender.pos + 1 \in 0..MaxChunks
    BY <1>1, Bounds
  <2>2. Sub(sender.pos + 1, e, g) \in Frame
    BY <1>2, <2>1 DEF Sub, Frame, Kinds
  <2> QED BY <2>2
<1>10. y.t = "sub" /\ y.pos = sender.pos + 1 /\ y.good = g /\ y.end = e
  BY <1>9 DEF Sub
<1>11. Sound(y) <=> g
  BY <1>1, <1>2, <1>10 DEF Sound
<1>12. InFrame(y) <=> ~e
  BY <1>2, <1>10 DEF InFrame
<1>13. /\ sender'.pos = y.pos /\ sender'.at = "data" => sender'.pos < Len(file)
       /\ sender'.at \in {"data", "ack", "frame"} /\ (sender'.at = "data" <=> ~e)
  BY <1>1, <1>2, <1>8, <1>10
<1>14. SentLast(y)'
  BY <1>8, <1>10, <1>12, <1>13 DEF SentLast, InFrame
<1>15. ASSUME NEW z \in Frame, SentLast(z) PROVE Follows(z, y)
  BY <1>1, <1>10, <1>15 DEF SentLast, Follows
<1>16. ~damaged' => sender'.at # "wait" /\ reply' \in Seq({"ZACK"})
  BY <1>1, <1>5, <1>7, <1>13 DEF Inv, StreamInv
<1>17. StreamInv'
  BY <1>1, <1>4, <1>5, <1>8, <1>9, <1>11, <1>14, <1>15, <1>16, SenderStream
<1>18. /\ sender' \in [at : {"idle", "wait", "frame", "data", "ack", "eof"}, pos : 0..MaxChunks]
       /\ sender'.at \in {"wait", "frame", "data", "ack", "eof"} /\ sender'.pos <= Len(file)
  BY <1>1, <1>8, Bounds
<1> QED BY <1>1, <1>4, <1>5, <1>6, <1>7, <1>8, <1>9, <1>10, <1>13, <1>17, <1>18, SenderGoesOn

\* An answer is heard, or none comes: the sender may go back to the start.
LEMMA SendOnStep ==
  ASSUME Inv, SendOn \/ SendUnasked
  PROVE  Inv'
<1>1. /\ at \in Uploading /\ reply \in Seq({"ZACK", "ZRPOS"}) /\ sender.pos \in 0..MaxChunks
      /\ faults \in 0..MaxFaults /\ Len(file) \in Nat /\ sender.pos <= Len(file)
      /\ sender.at \in {"wait", "frame", "data", "ack", "eof"} /\ resends \in 0..MaxResends
      /\ (sender.at = "data" => sender.pos < Len(file)) /\ damaged \in BOOLEAN
      /\ sender = [at |-> sender.at, pos |-> sender.pos]
  BY DEF SendOn, SendUnasked, Inv, TypeOK, IdleInv, Idle, LineInv
<1>2. /\ SenderStep(sender') /\ UNCHANGED <<line, faults, damaged>>
      /\ file' = file /\ reply' \in Seq({"ZACK", "ZRPOS"}) /\ resends' \in 0..MaxResends
  <2>1. /\ SenderStep(sender') /\ UNCHANGED <<line, faults, damaged>> /\ file' = file
    BY DEF SendOn, SendUnasked, SenderStep
  <2>2. CASE SendOn
    <3>1. reply # << >> /\ reply' = Tail(reply) /\ resends' = resends
      BY <2>2 DEF SendOn
    <3>2. reply' \in Seq({"ZACK", "ZRPOS"})
      BY <1>1, <3>1
    <3> QED BY <1>1, <2>1, <3>1, <3>2
  <2>3. CASE SendUnasked
    <3>1. reply' = reply /\ resends < MaxResends /\ resends' = resends + 1
      BY <2>3 DEF SendUnasked
    <3>2. resends' \in 0..MaxResends
      BY <1>1, <3>1, Bounds
    <3> QED BY <1>1, <2>1, <3>1, <3>2
  <2> QED BY <2>2, <2>3
<1>3. \/ sender' = [at |-> "frame", pos |-> 0]
      \/ sender.at = "ack" /\ sender' = [at |-> "frame", pos |-> sender.pos]
      \/ sender' = sender
  BY <1>1 DEF SendOn, SendUnasked, SenderStep
<1>4. /\ sender'.at \in {"wait", "frame", "data", "ack", "eof"} /\ sender'.pos <= Len(file)
      /\ sender'.at = "data" => sender'.pos < Len(file)
      /\ sender' \in [at : {"idle", "wait", "frame", "data", "ack", "eof"}, pos : 0..MaxChunks]
  BY <1>1, <1>3, Bounds
<1>5. ASSUME ~damaged
      PROVE  /\ sender'.at # "wait" /\ reply' \in Seq({"ZACK"})
             /\ \A z \in Frame : SentLast(z) => SentLast(z)'
  <2>1. IF sender.at = "wait" THEN reply = <<"ZRPOS">> ELSE reply \in Seq({"ZACK"})
    BY <1>1, <1>5 DEF Inv, StreamInv
  <2>2. /\ \/ sender.at \in {"wait", "eof"} /\ sender' = [at |-> "frame", pos |-> 0]
           \/ sender.at = "ack" /\ sender' = [at |-> "frame", pos |-> sender.pos]
           \/ sender.at # "wait" /\ sender' = sender
        /\ reply' \in Seq({"ZACK"})
    <3>1. CASE sender.at = "wait"
      <4>1. SendOn
        BY <3>1 DEF SendUnasked
      <4>2. Head(reply) = "ZRPOS" /\ Tail(reply) \in Seq({"ZACK"})
        <5>1. reply = <<"ZRPOS">> /\ <<"ZRPOS">> \in Seq({"ZRPOS"}) /\ Len(<<"ZRPOS">>) = 1
          BY <2>1, <3>1
        <5> QED BY <5>1
      <4>3. sender' = [at |-> "frame", pos |-> 0] /\ reply' \in Seq({"ZACK"})
        BY <4>1, <4>2 DEF SendOn, SenderStep
      <4> QED BY <3>1, <4>3
    <3>2. CASE sender.at # "wait" /\ SendOn
      <4>1. reply # << >> /\ Head(reply) = "ZACK" /\ Tail(reply) \in Seq({"ZACK"})
        BY <2>1, <3>2 DEF SendOn
      <4> QED BY <1>1, <3>2, <4>1 DEF SendOn, SenderStep
    <3>3. CASE sender.at # "wait" /\ SendUnasked
      BY <2>1, <3>3 DEF SendUnasked, SenderStep
    <3> QED BY <3>1, <3>2, <3>3
  <2>3. ASSUME NEW z \in Frame, SentLast(z) PROVE SentLast(z)'
    BY <1>2, <2>2, <2>3 DEF SentLast, InFrame
  <2> QED BY <2>2, <2>3
<1>6. StreamInv'
  BY <1>1, <1>2, <1>5, SenderStream
<1> QED BY <1>1, <1>2, <1>4, <1>6, SenderGoesOn

-----------------------------------------------------------------------------
(* Zmodem, the BBS receiving. *)

\* The file is opened and asked for from the start, or the transfer is over.
LEMMA ZHelloStep ==
  ASSUME Inv, ZHello
  PROVE  Inv'
<1>1. /\ at = "zhello" /\ Idle /\ job.dir = "up" /\ job.name \in Names
      /\ Len(file) \in 0..MaxChunks /\ file \in Seq(Chunk)
      /\ UNCHANGED <<catalogue, selected, job, file, got, damaged, dropped, begun, unkept>>
  BY Bounds DEF ZHello, Inv, TypeOK, JobInv, IdleInv, Uploading
<1>2. /\ disk \in [Names -> Seq(Chunk) \cup {Absent}] /\ got \in Seq(Chunk)
      /\ declined \in BOOLEAN /\ damaged \in BOOLEAN /\ dropped \in BOOLEAN
      /\ unmade \subseteq Names /\ faults \in 0..MaxFaults
  BY DEF Inv, TypeOK
<1>3. at \in Running
  BY <1>1 DEF Running, Places
<1>4. CASE \/ Returns("ok") /\ declined' = TRUE /\ UNCHANGED <<disk, unmade, faults>>
           \/ (Returns("err") \/ Returns("cancel")) /\ UNCHANGED <<disk, declined, unmade, faults>>
  <2>1. TransferLeaves
    BY <1>1, <1>4 DEF TransferLeaves
  <2>2. CASE Returns("ok") /\ declined' = TRUE /\ UNCHANGED <<disk, unmade, faults>>
    BY <1>1, <1>2, <1>3, <2>1, <2>2, Ended
  <2>3. CASE (Returns("err") \/ Returns("cancel")) /\ UNCHANGED <<disk, declined, unmade, faults>>
    BY <1>1, <1>2, <1>3, <2>1, <2>3, Ended
  <2> QED BY <1>4, <2>2, <2>3
<1>5. CASE Fault /\ Returns("err") /\ Unmade /\ UNCHANGED declined
  <2>1. faults' \in 0..MaxFaults
    BY <1>5, Faulted DEF Inv
  <2>2. /\ disk' \in [Names -> Seq(Chunk) \cup {Absent}] /\ unmade' \subseteq Names
        /\ \A n \in Names : disk[n] # Absent => disk'[n] # Absent \/ n \in unmade'
    BY <1>1, <1>2, <1>5 DEF Unmade
  <2>3. TransferLeaves
    BY <1>1, <1>5, <2>2 DEF TransferLeaves, Unmade
  <2> QED BY <1>1, <1>2, <1>3, <1>5, <2>1, <2>2, <2>3, Ended
<1>6. CASE /\ Opened /\ at' = "zhead" /\ fpos' = 0 /\ line' = << >> /\ Answers("ZRPOS")
           /\ sender' = [at |-> "wait", pos |-> 0] /\ UNCHANGED <<resends, result, declined, faults>>
  <2>1. /\ disk' \in [Names -> Seq(Chunk) \cup {Absent}] /\ disk'[job.name] = << >>
        /\ \A n \in Names : disk[n] # Absent => disk'[n] # Absent
    BY <1>1, <1>2, <1>6, AbsentIsNoFile DEF Opened
  <2>2. reply' = <<"ZRPOS">>
    BY <1>1, <1>6 DEF Idle, Answers
  <2>3. TransferTyped'
    <3>1. reply' \in Seq({"ZACK", "ZRPOS"})
      BY <2>2
    <3>2. sender' \in [at : {"idle", "wait", "frame", "data", "ack", "eof"}, pos : 0..MaxChunks]
      BY <1>6, Bounds
    <3> QED BY <1>1, <1>2, <1>6, <2>1, <3>1, <3>2, TypesKept, Bounds DEF TransferTyped, Opened
  <2>4. IdleInv' /\ FileInv' /\ PunterInv' /\ StreamedInv' /\ LineInv'
    <3>1. IdleInv' /\ FileInv' /\ PunterInv' /\ StreamedInv'
      BY <1>1, <1>6, <2>1, AbsentIsNoFile
      DEF IdleInv, FileInv, PunterInv, StreamedInv, Uploading
    <3>2. LineInv'
      BY <1>1, <1>6 DEF LineInv
    <3> QED BY <3>1, <3>2
  <2>5. StreamInv'
    <3> PICK x \in Frame : /\ x.t = "ZEOF" /\ x.pos = Len(file) /\ x.good /\ ~x.end
      <4> DEFINE x == Header("ZEOF", Len(file))
      <4>1. x \in Frame
        BY <1>1 DEF Header, Frame, Kinds
      <4>2. x.t = "ZEOF" /\ x.pos = Len(file) /\ x.good /\ ~x.end
        BY DEF Header
      <4> QED BY <4>1, <4>2
    <3>1. ~InFrame(x)
      BY DEF InFrame
    <3>2. Sound(x)'
      BY <1>1 DEF Sound
    <3>3. ReadLast(x)'
      BY <1>1, <1>6, <3>1 DEF ReadLast, InFrame
    <3>4. Chained(x, line)' /\ SentLast(x)'
      BY <1>1, <1>6, <3>1 DEF Chained, SentLast, InFrame
    <3>5. Traced(x)'
      BY <1>6, <3>2, <3>3, <3>4 DEF Traced
    <3>6. fpos' = Len(disk'[job.name]) /\ Begins(disk[job.name])'
      BY <1>1, <1>6, <2>1 DEF Begins
    <3> QED BY <1>1, <1>6, <2>2, <3>5, <3>6 DEF StreamInv
  <2>6. TransferLeaves
    BY <1>1, <1>6, <2>1 DEF TransferLeaves, Opened
  <2> QED BY <1>1, <1>6, <2>3, <2>4, <2>5, <2>6, Continued DEF Phases, Uploading
<1> QED BY <1>4, <1>5, <1>6 DEF ZHello

\* Undamaged, the next thing on the line is sound, and follows what was read last;
\* and what follows it is traced from there.
LEMMA ReadNext ==
  ASSUME Inv, at \in Uploading, ~damaged, line # << >>
  PROVE  /\ Head(line) \in Frame /\ Sound(Head(line))
         /\ sender.at # "wait" /\ reply \in Seq({"ZACK"})
         /\ fpos = Len(disk[job.name]) /\ Begins(disk[job.name])
         /\ Chained(Head(line), Tail(line))
         /\ SentLast(IF Tail(line) = << >> THEN Head(line) ELSE Tail(line)[Len(Tail(line))])
         /\ \E x \in Frame : Sound(x) /\ ReadLast(x) /\ Follows(x, Head(line))
<1>1. line \in Seq(Frame) /\ Head(line) = line[1] /\ Head(line) \in Frame /\ 1 \in DOMAIN line
  BY DEF Inv, TypeOK
<1>2. /\ fpos = Len(disk[job.name]) /\ Begins(disk[job.name])
      /\ sender.at # "wait" /\ reply \in Seq({"ZACK"})
      /\ \E x \in Frame : Traced(x)
  BY DEF Inv, StreamInv
<1> PICK x \in Frame : Traced(x)
  BY <1>2
<1>3. Sound(line[1]) /\ Follows(x, line[1])
  BY <1>1 DEF Traced, Chained
<1>4. /\ Tail(line) \in Seq(Frame) /\ Len(Tail(line)) = Len(line) - 1
      /\ \A i \in 1..Len(Tail(line)) : Tail(line)[i] = line[i + 1]
  BY <1>1
<1>5. Chained(Head(line), Tail(line))
  <2> SUFFICES ASSUME NEW i \in 1..Len(Tail(line))
               PROVE  /\ Sound(Tail(line)[i])
                      /\ Follows(IF i = 1 THEN Head(line) ELSE Tail(line)[i - 1], Tail(line)[i])
    <3>1. DOMAIN Tail(line) = 1..Len(Tail(line))
      BY <1>4
    <3> QED BY <3>1 DEF Chained
  <2>1. Tail(line)[i] = line[i + 1] /\ (i # 1 => Tail(line)[i - 1] = line[i])
        /\ i + 1 \in DOMAIN line /\ i + 1 # 1 /\ (i + 1) - 1 = i
    BY <1>1, <1>4
  <2>2. Sound(line[i + 1]) /\ Follows(line[i], line[i + 1])
    BY <2>1 DEF Traced, Chained
  <2> QED BY <1>1, <2>1, <2>2
<1>6. (IF Tail(line) = << >> THEN Head(line) ELSE Tail(line)[Len(Tail(line))]) = line[Len(line)]
  <2>1. CASE Len(line) = 1
    BY <1>1, <1>4, <2>1
  <2>2. CASE Len(line) > 1
    <3>1. /\ Len(line) - 1 \in 1..Len(Tail(line)) /\ (Len(line) - 1) + 1 = Len(line)
          /\ Len(Tail(line)) = Len(line) - 1
      BY <1>1, <1>4, <2>2
    <3>2. Tail(line)[Len(line) - 1] = line[Len(line)]
      BY <1>4, <3>1
    <3>3. Tail(line) # << >>
      BY <1>4, <3>1
    <3> QED BY <3>1, <3>2, <3>3
  <2> QED BY <1>1, <2>1, <2>2
<1>7. SentLast(line[Len(line)])
  BY DEF Traced
<1> QED BY <1>1, <1>2, <1>3, <1>5, <1>6, <1>7 DEF Traced

\* What is read from the line is gone, whatever it was read as.
LEMMA Received ==
  ASSUME Inv, at \in Uploading, at' \in Uploading, Receiving(at'), StreamInv',
         line' = line \/ (line # << >> /\ line' = Tail(line)),
         result' = result, UNCHANGED <<faults, unmade>>, fpos' \in Nat, reply' \in Seq({"ZACK", "ZRPOS"}),
         disk' = disk \/ \E s \in Seq(Chunk) : disk' = [disk EXCEPT ![job.name] = s]
  PROVE  Inv'
<1>1. UNCHANGED <<catalogue, selected, job, file, got, sender, resends, told, unkept>>
  BY DEF Receiving
<1>2. /\ disk' \in [Names -> Seq(Chunk) \cup {Absent}] /\ disk'[job.name] # Absent
      /\ \A n \in Names : disk[n] # Absent => disk'[n] # Absent
  <2>1. /\ disk \in [Names -> Seq(Chunk) \cup {Absent}] /\ disk[job.name] # Absent
        /\ job.name \in Names
    BY TypesKept, AbsentIsNoFile DEF Inv, TypeOK
  <2>2. CASE disk' = disk
    BY <2>1, <2>2
  <2>3. ASSUME NEW s \in Seq(Chunk), disk' = [disk EXCEPT ![job.name] = s]
        PROVE  /\ disk' \in [Names -> Seq(Chunk) \cup {Absent}] /\ disk'[job.name] # Absent
               /\ \A n \in Names : disk[n] # Absent => disk'[n] # Absent
    BY <2>1, <2>3, AbsentIsNoFile
  <2> QED BY <2>2, <2>3
<1>3. /\ line' \in Seq(Frame) /\ Len(line') <= Window
      /\ \A i \in DOMAIN line' : /\ line'[i].pos <= Len(file)
                                 /\ line'[i].t = "sub" => line'[i].pos > 0
  <2>1. /\ line \in Seq(Frame) /\ Len(line) <= Window
        /\ \A i \in DOMAIN line : /\ line[i].pos <= Len(file)
                                  /\ line[i].t = "sub" => line[i].pos > 0
    BY DEF Inv, TypeOK, LineInv
  <2>2. CASE line' = line
    BY <2>1, <2>2
  <2>3. CASE line # << >> /\ line' = Tail(line)
    <3>1. line' \in Seq(Frame) /\ Len(line') = Len(line) - 1
      BY <2>1, <2>3
    <3>2. DOMAIN line' = 1..(Len(line) - 1) /\ DOMAIN line = 1..Len(line)
      BY <2>1, <3>1
    <3>3. \A i \in DOMAIN line' : i + 1 \in DOMAIN line
      BY <2>1, <3>2
    <3>4. \A i \in DOMAIN line' : line'[i] = line[i + 1]
      <4>1. \A i \in 1..Len(Tail(line)) : Tail(line)[i] = line[i + 1]
        BY <2>1, <2>3
      <4>2. line' = Tail(line)
        BY <2>3
      <4>3. DOMAIN line' = 1..Len(line')
        BY <3>1
      <4> QED BY <4>1, <4>2, <4>3, Zenon
    <3> QED BY <2>1, <3>1, <3>3, <3>4, Bounds
  <2> QED BY <2>2, <2>3
<1>4. TransferTyped'
  BY <1>1, <1>2, <1>3, TypesKept DEF TransferTyped, history, told
<1>5. IdleInv' /\ FileInv' /\ PunterInv' /\ StreamedInv'
  BY <1>1, <1>2 DEF Inv, IdleInv, FileInv, PunterInv, StreamedInv, Uploading
<1>6. LineInv'
  BY <1>1, <1>3 DEF Inv, LineInv
<1>7. TransferLeaves
  BY <1>1, <1>2 DEF TransferLeaves, history, told
<1> QED BY <1>1, <1>4, <1>5, <1>6, <1>7, Continued DEF Phases

\* The trace goes on from what was read, if it says where the receiver is now.
LEMMA ReadStream ==
  ASSUME Inv, at \in Uploading, at' \in Uploading, Receiving(at'),
         line # << >>, line' = Tail(line),
         ~damaged => /\ fpos' = Len(disk'[job.name]) /\ Begins(disk'[job.name])
                     /\ reply' \in Seq({"ZACK"})
                     /\ \A y \in Frame : y = Head(line) => ReadLast(y)'
  PROVE  StreamInv'
<1>1. UNCHANGED <<catalogue, selected, job, file, got, sender, resends, told, unkept>>
  BY DEF Receiving
<1> SUFFICES ASSUME ~damaged PROVE StreamInv'
  BY <1>1 DEF StreamInv, history, told
<1>2. /\ Head(line) \in Frame /\ Sound(Head(line)) /\ sender.at # "wait"
      /\ Chained(Head(line), Tail(line))
      /\ SentLast(IF Tail(line) = << >> THEN Head(line) ELSE Tail(line)[Len(Tail(line))])
  BY ReadNext
<1> PICK y \in Frame : y = Head(line)
  BY <1>2
<1>3. Sound(y)'
  BY <1>1, <1>2 DEF Sound
<1>4. Chained(y, line)'
  <2>1. Chained(y, line') /\ file' = file
    BY <1>1, <1>2
  <2> QED BY <2>1, SMTT(30) DEF Chained, Sound, Follows
<1>5. SentLast(IF line = << >> THEN y ELSE line[Len(line)])'
  BY <1>1, <1>2 DEF SentLast
<1>6. Traced(y)'
  BY <1>3, <1>4, <1>5 DEF Traced
<1>7. Begins(disk[job.name])'
  BY <1>1 DEF Begins
<1> QED BY <1>1, <1>2, <1>6, <1>7 DEF StreamInv

\* A header, or a chunk that is dropped: nothing is written.
LEMMA ZReadStep ==
  ASSUME Inv, ZHead \/ ZHunt \/ ZEof \/ ZMixed \/ ZSkip
  PROVE  Inv'
<1>1. /\ at \in {"zhead", "zsub", "zskip"} /\ Receiving(at') /\ at' \in Uploading
      /\ line # << >> /\ line' = Tail(line)
      /\ UNCHANGED <<disk, unmade, fpos, reply, result, faults>> /\ file' = file
  BY DEF ZHead, ZHunt, ZEof, ZMixed, ZSkip, Reads, Receiving, Uploading
<1>2. ASSUME ~damaged
      PROVE  /\ fpos' = Len(disk'[job.name]) /\ Begins(disk'[job.name])
             /\ reply' \in Seq({"ZACK"})
             /\ \A y \in Frame : y = Head(line) => ReadLast(y)'
  <2>1. /\ Head(line) \in Frame /\ Sound(Head(line)) /\ reply \in Seq({"ZACK"})
        /\ fpos = Len(disk[job.name]) /\ Begins(disk[job.name])
        /\ \E x \in Frame : Sound(x) /\ ReadLast(x) /\ Follows(x, Head(line))
    BY <1>1, <1>2, ReadNext DEF Uploading
  <2> PICK x \in Frame : Sound(x) /\ ReadLast(x) /\ Follows(x, Head(line))
    BY <2>1
  <2>2. ASSUME NEW y \in Frame, y = Head(line)
        PROVE  ReadLast(y)'
    <3>1. /\ fpos' = fpos /\ Len(file) \in Nat /\ fpos \in Nat /\ y.pos \in Nat
          /\ file \in Seq(Chunk)
      <4>1. fpos \in Nat /\ file \in Seq(Chunk)
        BY DEF Inv, TypeOK
      <4>2. y.pos \in Nat
        BY <2>2, Bounds DEF Frame
      <4> QED BY <1>1, <4>1, <4>2
    <3>2. CASE fpos = Len(file) /\ at \in {"zhead", "zskip"}
      <4>1. y.t = "ZDATA" => y.pos < fpos
        BY <2>1, <2>2, <3>2 DEF Sound
      <4>2. at' \in {"zhead", "zskip", "zfin"}
        BY <2>2, <3>2, <4>1 DEF ZHead, ZHunt, ZEof, ZMixed, ZSkip, Reads, Receiving
      <4> QED BY <1>1, <3>1, <3>2, <4>2 DEF ReadLast
    <3>3. CASE fpos < Len(file)
      <4>1. /\ fpos = x.pos \/ (fpos = 0 /\ x.t = "ZEOF")
            /\ at = IF InFrame(x) THEN "zsub" ELSE "zhead"
        BY <3>1, <3>3 DEF ReadLast
      <4>2. ZHead /\ y.t = "ZDATA" /\ y.pos = fpos
        <5>1. InFrame(x) => y.t = "sub"
          BY <2>2 DEF Follows
        <5>2. x.t = "ZEOF" => x.pos = Len(file) /\ ~InFrame(x)
          BY DEF Sound, InFrame
        <5>3. ~InFrame(x) => y.t = "ZDATA" /\ y.pos = fpos
          <6> SUFFICES ASSUME ~InFrame(x) PROVE y.t = "ZDATA" /\ y.pos = fpos
            OBVIOUS
          <6>1. \/ y.t = "ZDATA" /\ (y.pos = x.pos \/ (x.pos = Len(file) /\ y.pos = 0))
                \/ y.t = "ZEOF" /\ x.pos = Len(file) /\ (x.t = "sub" \/ file = << >>)
            BY <2>2 DEF Follows
          <6>2. y.t = "ZDATA" => y.pos < Len(file)
            BY <2>1, <2>2 DEF Sound
          <6> QED BY <3>1, <3>3, <4>1, <5>2, <6>1, <6>2
        <5> QED BY <2>2, <4>1, <5>1, <5>3 DEF ZHead, ZHunt, ZEof, ZMixed, ZSkip, Reads
      <4>3. at' = "zsub"
        BY <2>2, <3>1, <4>2 DEF ZHead, Receiving
      <4> QED BY <1>1, <3>1, <3>3, <4>2, <4>3 DEF ReadLast, InFrame
    <3>4. (fpos = Len(file) /\ at \in {"zhead", "zskip"}) \/ fpos < Len(file)
      BY <1>1 DEF ReadLast
    <3> QED BY <3>2, <3>3, <3>4
  <2>3. Begins(disk'[job.name])
    BY <1>1, <2>1 DEF Begins
  <2> QED BY <1>1, <2>1, <2>2, <2>3
<1>3. at \in Uploading
  BY <1>1 DEF Uploading
<1>4. StreamInv'
  BY <1>1, <1>2, <1>3, ReadStream
<1>5. fpos' \in Nat /\ reply' \in Seq({"ZACK", "ZRPOS"})
  BY <1>1 DEF Inv, TypeOK
<1> QED BY <1>1, <1>3, <1>4, <1>5, Received

\* A good chunk is written: undamaged, it is the one that comes next.
LEMMA ZSubStep ==
  ASSUME Inv, ZSub
  PROVE  Inv'
<1> DEFINE s == disk[job.name]
           t == Append(s, file[Head(line).pos])
<1>1. /\ at = "zsub" /\ at \in Uploading /\ Receiving(at') /\ at' \in Uploading
      /\ at' = IF Head(line).end THEN "zhead" ELSE "zsub"
      /\ line # << >> /\ line' = Tail(line) /\ Head(line).t = "sub" /\ Head(line).good
      /\ disk' = [disk EXCEPT ![job.name] = t] /\ fpos' = fpos + 1
      /\ UNCHANGED <<unmade, result, faults>> /\ file' = file /\ job' = job
      /\ reply' \in {reply, Append(reply, "ZACK")}
  BY DEF ZSub, Reads, Receiving, Uploading, Answers
<1>2. /\ s \in Seq(Chunk) /\ file \in Seq(Chunk) /\ job.name \in Names /\ fpos \in Nat
      /\ disk \in [Names -> Seq(Chunk) \cup {Absent}] /\ reply \in Seq({"ZACK", "ZRPOS"})
  BY <1>1, TypesKept DEF Inv, TypeOK
<1>3. Head(line).pos \in 1..Len(file)
  <2>1. line \in Seq(Frame) /\ 1 \in DOMAIN line /\ Head(line) = line[1] /\ line[1] \in Frame
    BY <1>1 DEF Inv, TypeOK
  <2>2. line[1].pos \in Nat /\ line[1].pos > 0 /\ line[1].pos <= Len(file)
    BY <1>1, <2>1, Bounds DEF Inv, LineInv, Frame
  <2> QED BY <1>2, <2>1, <2>2
<1>4. t \in Seq(Chunk) /\ disk'[job.name] = t
  BY <1>1, <1>2, <1>3
<1>5. ASSUME ~damaged
      PROVE  /\ fpos' = Len(disk'[job.name]) /\ Begins(disk'[job.name])
             /\ reply' \in Seq({"ZACK"})
             /\ \A y \in Frame : y = Head(line) => ReadLast(y)'
  <2>1. /\ Head(line) \in Frame /\ Sound(Head(line)) /\ reply \in Seq({"ZACK"})
        /\ fpos = Len(s) /\ Begins(s)
        /\ \E x \in Frame : Sound(x) /\ ReadLast(x) /\ Follows(x, Head(line))
    BY <1>1, <1>5, ReadNext
  <2> PICK x \in Frame : Sound(x) /\ ReadLast(x) /\ Follows(x, Head(line))
    BY <2>1
  <2>2. fpos < Len(file) /\ InFrame(x) /\ fpos = x.pos
    <3>1. fpos < Len(file) /\ InFrame(x)
      BY <1>1 DEF ReadLast
    <3>2. x.t # "ZEOF"
      BY <3>1 DEF InFrame
    <3> QED BY <1>1, <3>1, <3>2 DEF ReadLast
  <2>3. Head(line).pos = fpos + 1
    BY <1>1, <2>2 DEF Follows
  <2>4. t = Append(s, file[Len(s) + 1]) /\ Begins(t) /\ Len(t) = fpos + 1
    BY <1>2, <2>1, <2>2, <2>3, NextBegins
  <2>5. reply' \in Seq({"ZACK"})
    <3>1. Append(reply, "ZACK") \in Seq({"ZACK"})
      BY <2>1
    <3> QED BY <1>1, <2>1, <3>1
  <2>6. ASSUME NEW y \in Frame, y = Head(line) PROVE ReadLast(y)'
    <3>1. /\ y.t = "sub" /\ y.pos = fpos + 1 /\ fpos' = y.pos
          /\ (y.pos = Len(file) => y.end)
      BY <1>1, <2>1, <2>3, <2>6 DEF Sound
    <3>2. fpos' <= Len(file) /\ Len(file) \in Nat /\ fpos' \in Nat
      BY <1>2, <2>2, <3>1
    <3>3. at' = IF y.end THEN "zhead" ELSE "zsub"
      BY <1>1, <2>6
    <3>4. InFrame(y) <=> ~y.end
      BY <3>1 DEF InFrame
    <3>5. CASE fpos' = Len(file)
      BY <1>1, <3>1, <3>3, <3>5 DEF ReadLast
    <3>6. CASE fpos' < Len(file)
      BY <1>1, <3>1, <3>3, <3>4, <3>6 DEF ReadLast, InFrame
    <3> QED BY <3>2, <3>5, <3>6
  <2> HIDE DEF t
  <2> QED BY <1>1, <1>4, <2>4, <2>5, <2>6
<1>6. StreamInv'
  BY <1>1, <1>5, ReadStream
<1>7. fpos' \in Nat /\ reply' \in Seq({"ZACK", "ZRPOS"})
  <2>1. Append(reply, "ZACK") \in Seq({"ZACK", "ZRPOS"})
    BY <1>2
  <2>2. reply' \in Seq({"ZACK", "ZRPOS"})
    BY <1>1, <1>2, <2>1
  <2>3. fpos' \in Nat
    BY <1>1, <1>2
  <2> QED BY <2>2, <2>3
<1> HIDE DEF t
<1> QED BY <1>1, <1>4, <1>6, <1>7, Received

\* A damaged chunk: only damage brings one here, and the file starts over.
LEMMA ZBadStep ==
  ASSUME Inv, ZBad
  PROVE  Inv'
<1>1. /\ at \in {"zsub", "zgarbage"} /\ at \in Uploading /\ Receiving(at') /\ at' \in Uploading
      /\ at = "zsub" => ~Head(line).good
      /\ line # << >> /\ line' = Tail(line)
      /\ Opened /\ fpos' = 0 /\ Answers("ZRPOS") /\ UNCHANGED <<unmade, result, faults>>
  BY DEF ZBad, Spoilt, Opened, Receiving, Uploading
<1>2. damaged
  <2> SUFFICES ASSUME ~damaged PROVE FALSE
    OBVIOUS
  <2>1. Sound(Head(line)) /\ \E x \in Frame : ReadLast(x)
    BY <1>1, ReadNext
  <2>2. at = "zsub"
    BY <1>1, <2>1 DEF ReadLast
  <2> QED BY <1>1, <2>1, <2>2 DEF Sound
<1>3. StreamInv'
  BY <1>1, <1>2, ReadStream
<1>4. reply' \in Seq({"ZACK", "ZRPOS"})
  BY <1>1 DEF Inv, TypeOK, Answers
<1>5. \E s \in Seq(Chunk) : disk' = [disk EXCEPT ![job.name] = s]
  BY <1>1, AbsentIsNoFile DEF Opened
<1> QED BY <1>1, <1>3, <1>4, <1>5, Received

\* Silence in a frame that is dropped.
LEMMA ZSkipEndsStep ==
  ASSUME Inv, ZSkipEnds
  PROVE  Inv'
<1>1. /\ at = "zskip" /\ at' = "zhead" /\ Receiving(at')
      /\ UNCHANGED <<disk, unmade, fpos, line, reply, result, faults>>
      /\ UNCHANGED <<catalogue, selected, job, file, got, sender, resends, told, unkept>>
  BY DEF ZSkipEnds, Receiving
<1>2. at \in Uploading /\ at' \in Uploading
  BY <1>1 DEF Uploading
<1>3. StreamInv'
  <2> SUFFICES ASSUME ~damaged PROVE StreamInv'
    BY <1>1 DEF StreamInv, history, told
  <2>1. /\ fpos = Len(disk[job.name]) /\ Begins(disk[job.name])
        /\ sender.at # "wait" /\ reply \in Seq({"ZACK"}) /\ \E x \in Frame : Traced(x)
    BY <1>1, <1>2 DEF Inv, StreamInv
  <2> PICK x \in Frame : Traced(x)
    BY <2>1
  <2>2. fpos = Len(file)
    BY <1>1 DEF Traced, ReadLast
  <2>3. Sound(x)' /\ Chained(x, line)' /\ SentLast(IF line = << >> THEN x ELSE line[Len(line)])'
    BY <1>1 DEF Traced, Sound, Chained, Follows, SentLast
  <2>4. ReadLast(x)'
    BY <1>1, <2>2 DEF ReadLast
  <2>5. Traced(x)'
    BY <2>3, <2>4 DEF Traced
  <2>6. Begins(disk[job.name])'
    BY <1>1, <2>1 DEF Begins
  <2> QED BY <1>1, <2>1, <2>5, <2>6 DEF StreamInv
<1>4. fpos' \in Nat /\ reply' \in Seq({"ZACK", "ZRPOS"})
  BY <1>1 DEF Inv, TypeOK
<1> QED BY <1>1, <1>2, <1>3, <1>4, Received

\* The transfer ends: the file is whole after ZEOF, or nobody says it is.
LEMMA ZEndStep ==
  ASSUME Inv, ZDiskFails \/ ZFinished \/ ZGivesUp
  PROVE  Inv'
<1>1. /\ at \in Uploading /\ UNCHANGED <<catalogue, selected, job, file, got, told, unkept>>
      /\ (at = "zfin" /\ Returns("ok") /\ UNCHANGED disk) \/ Returns("err") \/ Returns("cancel")
      /\ UNCHANGED <<disk, unmade>> \/ Unmade
  BY DEF ZDiskFails, ZFinished, ZGivesUp, Uploading, Spoilt, history
<1>2. /\ disk \in [Names -> Seq(Chunk) \cup {Absent}] /\ got \in Seq(Chunk)
      /\ declined \in BOOLEAN /\ damaged \in BOOLEAN /\ dropped \in BOOLEAN
      /\ unmade \subseteq Names /\ faults \in 0..MaxFaults
      /\ job.name \in Names /\ job.dir = "up" /\ job.proto = "zmodem"
  BY <1>1, TypesKept DEF Inv, TypeOK, JobInv
<1>3. faults' \in 0..MaxFaults
  BY <1>2, Faulted DEF Inv, ZDiskFails, ZFinished, ZGivesUp
<1>4. /\ disk' \in [Names -> Seq(Chunk) \cup {Absent}]
      /\ unmade' \subseteq Names /\ unmade \subseteq unmade'
      /\ \A n \in Names : disk[n] # Absent => disk'[n] # Absent \/ n \in unmade'
  BY <1>1, <1>2 DEF Unmade
<1>5. TransferLeaves
  BY <1>1, <1>4 DEF TransferLeaves, told
<1>6. at \in Running
  BY <1>1 DEF Running, Places, Uploading
<1>7. CASE Returns("err") \/ Returns("cancel")
  BY <1>1, <1>2, <1>3, <1>4, <1>5, <1>6, <1>7, Ended DEF history, told
<1>8. CASE at = "zfin" /\ Returns("ok") /\ UNCHANGED disk
  <2>1. disk[job.name] # Absent
    BY <1>8 DEF Inv, FileInv, Uploading
  <2>2. ~damaged => disk[job.name] = file
    <3> SUFFICES ASSUME ~damaged PROVE disk[job.name] = file
      OBVIOUS
    <3>1. /\ fpos = Len(disk[job.name]) /\ Begins(disk[job.name])
          /\ \E x \in Frame : ReadLast(x)
      BY <1>1 DEF Inv, StreamInv, Traced
    <3>2. fpos = Len(file)
      BY <1>8, <3>1 DEF ReadLast
    <3> QED BY <1>1, <3>1, <3>2, TypesKept, BeginsAll
  <2> QED BY <1>1, <1>2, <1>3, <1>4, <1>5, <1>6, <1>8, <2>1, <2>2, Ended DEF told, Delivered
<1> QED BY <1>1, <1>7, <1>8

-----------------------------------------------------------------------------
(* Every step. *)

LEMMA StutterStep ==
  ASSUME Inv, UNCHANGED vars
  PROVE  Inv'
<1> USE DEF vars, catalogue, selected, zmodem, history, told
<1>1. TypeOK' /\ JobInv' /\ IdleInv' /\ LineInv'
  BY DEF Inv, TypeOK, JobInv, IdleInv, Idle, LineInv
<1>2. FileInv' /\ PunterInv' /\ StreamedInv'
  BY DEF Inv, FileInv, PunterInv, Begins, InPlace, StreamedInv
<1>3. CompleteIsWhole' /\ ListedIsThere' /\ CountInv' /\ CountsAgree'
  BY DEF Inv, CompleteIsWhole, Complete, Delivered, InPlace, ListedIsThere, CountInv, CountsAgree
<1>4. StreamInv'
  BY DEF Inv, StreamInv, Begins, Traced, Sound, ReadLast, Chained, Follows, SentLast
<1> QED BY <1>1, <1>2, <1>3, <1>4 DEF Inv

LEMMA StepKeeps == Inv /\ [Next]_vars => Inv'
BY AreaStep, DownloadStep, UploadStep, BookkeepingStep, PunterSendEnds, PunterSendBlockStep,
   PunterRecvBlockStep, PunterRecvEndStep, ZSendHelloStep, ZStreamStep, ZSendEndStep,
   SendFrameStep, SendChunkStep, SendOnStep, ZHelloStep, ZReadStep, ZSubStep, ZBadStep,
   ZSkipEndsStep, ZEndStep, StutterStep
DEF Next, Sender, Program

LEMMA InvHolds == Spec => []Inv
BY InitHolds, StepKeeps, PTL DEF Spec

\* Everything stays of its type: whatever the caller uploads, no area counts more
\* files than were uploaded, and none has more records than UD<n> holds.
THEOREM TypeCorrect == Spec => []TypeOK
BY InvHolds, PTL DEF Inv

\* TRANSFER COMPLETE is true of every file, in both directions and by both protocols,
\* with the exceptions that CompleteIsWhole names (fl_download, fl_upload): lost bytes
\* and a failed read that the drive did not report among them.
THEOREM CompleteFilesAreWhole == Spec => []CompleteIsWhole
BY InvHolds, PTL DEF Inv

\* What UD<n> lists can be opened (fl_upload and fentry_add after zmodem_recv or
\* punter_recv), whatever failed on the line or in the catalogue: unless nothing was
\* sent, or disk_open() has scratched that very file and failed to make it again.
THEOREM ListedFilesAreThere == Spec => []ListedIsThere
BY InvHolds, PTL DEF Inv

\* The count in UDS is that of the entries in UD<n>, through every change of area
\* (fl_upload, fl_load_area): unless an entry found no room or a save of this area's
\* records failed.
THEOREM CountsAlwaysAgree == Spec => []CountsAgree
BY InvHolds, PTL DEF Inv
=============================================================================
