------------------------------- MODULE RelSeq -------------------------------
(***************************************************************************)
(* The SEQ+REU record backend of the SIEC build (src/src/hal/rel_seq.c).   *)
(*                                                                         *)
(* A record set is a sequential file, kept whole in a region of the REU    *)
(* while the BBS runs.  rel_open() loads it, rel_read()/rel_write() work   *)
(* on the REU copy, and rel_close() writes the whole set back by           *)
(*      scratch <name>.NEW, write <name>.NEW, scratch <name>, rename.      *)
(* A machine reset may fall between any two of those disk operations, any  *)
(* of them may fail, and the boot sweep then has to make sense of the      *)
(* files it finds, with disk operations that fail in their turn and whose  *)
(* results it drops.  All UD<n> and B<n>.IDX sets share one region, WINDOW.*)
(*                                                                         *)
(* Only one rel_* call runs at a time (one caller, one thread), so a call  *)
(* is cut into steps only where the drive changes state; pc says where.    *)
(***************************************************************************)
EXTENDS Integers, Sequences

CONSTANTS
  Names,      \* the record sets the backend manages
  Windowed,   \* those that share the WINDOW region (UD<n>, B<n>.IDX)
  Window,     \* the WINDOW region itself (SEQ_REGION_WINDOW)
  Sweep,      \* the order in which rel_seq_sweep() probes Names
  Vals,       \* contents a caller writes into one record
  Blank,      \* an all-zero record, as a sparse write leaves behind
  MaxRecs,    \* s_max_recs: seq_region_capacity / record_size
  Absent,     \* "no such file" (DOS 62)
  NoName,     \* the empty s_name / s_window_name; also "no rel_open pending"
  Faults      \* the disk operations that may fail, of FaultKinds

FaultKinds ==
  { "select",   \* disk_select_partition() inside rel_open()
    "open",     \* KERNAL OPEN on the device fails
    "read",     \* disk_read() ends a load early; region_load() takes it for the end
    "write",    \* disk_write() reports an error
    "scratch",  \* a scratch is refused and the file stays
    "rename",   \* the rename is refused
    "reply",    \* scratch/rename is done but its status cannot be read (99)
    "probe" }   \* the sweep cannot select the partition, or misreads a probe

Rec == Vals \cup {Blank}
Contents == {s \in Seq(Rec) : Len(s) <= MaxRecs}

ASSUME NamesAssumption ==
  /\ Windowed \subseteq Names
  /\ Window \notin Names
  /\ NoName \notin Names
  /\ Sweep \in Seq(Names)
  /\ \A n \in Names : \E i \in 1..Len(Sweep) : Sweep[i] = n

ASSUME RecordsAssumption ==
  /\ MaxRecs \in Nat \ {0}
  /\ Absent \notin Seq(Rec)
  /\ Faults \subseteq FaultKinds

VARIABLES
  main,       \* main[n]: the file <n> on the drive
  new,        \* new[n]: the file <n>.NEW on the drive
  reu,        \* reu[r]: the records of region r, s_count_by_region[r] of them
  s_loaded,   \* fixed sets whose region came off disk this session
  s_window_name,
  s_name,     \* the set s_region, s_recsize, s_base, s_device describe
  s_open,
  s_pos,
  s_dirty,
  pc,         \* the step the running rel_* call or the boot sweep is at
  req,        \* the set a rel_open() in progress asks for, NoName in rel_close()
  swept,      \* how many names the boot sweep has handled
  written,    \* history: what the callers have written to each set so far
  acked,      \* history: what the last successful rel_close() left on disk
  exposed,    \* history: sets whose save failed with the live file gone
  damaged     \* history: sets a sweep that failed, or a load cut short, has
              \* shown to their callers as less than they were

files   == <<main, new>>
cache   == <<reu, s_loaded, s_window_name>>
handle  == <<s_name, s_open, s_pos, s_dirty>>
control == <<pc, req, swept>>
history == <<written, acked, exposed, damaged>>
vars    == <<files, cache, handle, control, history>>

-----------------------------------------------------------------------------
(* Regions and files. *)

Fixed   == Names \ Windowed
Regions == Fixed \cup {Window}

RegionOf(n) == IF n \in Windowed THEN Window ELSE n

\* What region_load() finds: an absent file is an empty set.
Live(n) == IF main[n] = Absent THEN << >> ELSE main[n]

\* What region_load() may make of the file: disk_read() does not tell an error
\* from the end.
Loaded(n) ==
  {Live(n)} \cup
  {SubSeq(Live(n), 1, k) : k \in IF "read" \in Faults THEN 0..Len(Live(n)) ELSE {}}

\* What a sweep without failures makes of the two files of a set.
Store(n) == IF main[n] # Absent THEN main[n]
            ELSE IF new[n] # Absent THEN new[n] ELSE << >>

\* Is the set resident in its region?
Cached(n) == IF n \in Windowed THEN s_window_name = n ELSE n \in s_loaded

\* rel_write() at record i: the gap past the high-water mark is zero-filled.
PutRec(s, i, v) ==
  [j \in 1..(IF i > Len(s) THEN i ELSE Len(s)) |->
     IF j = i THEN v ELSE IF j <= Len(s) THEN s[j] ELSE Blank]

IsPrefixOf(s, t) == Len(s) <= Len(t) /\ \A i \in 1..Len(s) : s[i] = t[i]

-----------------------------------------------------------------------------
Init ==
  /\ main \in [Names -> {Absent, << >>}]
  /\ new = [n \in Names |-> Absent]
  /\ reu = [r \in Regions |-> << >>]
  /\ s_loaded = {} /\ s_window_name = NoName
  /\ s_name = NoName /\ s_open = FALSE /\ s_pos = 0 /\ s_dirty = FALSE
  /\ pc = "boot" /\ req = NoName /\ swept = 0
  /\ written = [n \in Names |-> << >>]
  /\ acked = main
  /\ exposed = {} /\ damaged = {}

-----------------------------------------------------------------------------
(* The caller's side: open, position, read, write, close. *)

\* Mutant: rel_open() without the retry of a flush that failed earlier.
RelOpenNoRetry(n) ==
  /\ pc = "ready" /\ ~s_open
  /\ req' = n
  /\ pc' = "open"
  /\ UNCHANGED <<files, cache, handle, swept, history>>

\* rel_open(n) up to the retry of a flush that failed earlier.
RelOpen(n) ==
  /\ pc = "ready" /\ ~s_open
  /\ req' = n
  /\ pc' = IF s_dirty THEN "scratch_tmp" ELSE "open"
  /\ UNCHANGED <<files, cache, handle, swept, history>>

\* disk_select_partition() fails: rel_open() returns before it changes s_name.
OpenSelectFails ==
  /\ pc = "open" /\ "select" \in Faults
  /\ pc' = "ready" /\ req' = NoName
  /\ UNCHANGED <<files, cache, handle, swept, history>>

\* Mutant: a fault while loading is cached as an empty, loaded set.
OpenCachesFault ==
  /\ pc = "open"
  /\ s_name' = req /\ s_pos' = 1 /\ s_dirty' = FALSE /\ s_open' = TRUE
  /\ \/ Cached(req) /\ UNCHANGED cache
     \/ /\ ~Cached(req)
        /\ \/ reu' = [reu EXCEPT ![RegionOf(req)] = Live(req)]
           \/ "open" \in Faults /\ reu' = [reu EXCEPT ![RegionOf(req)] = << >>]
        /\ s_loaded' = IF req \in Windowed THEN s_loaded ELSE s_loaded \cup {req}
        /\ s_window_name' = IF req \in Windowed THEN req ELSE s_window_name
  /\ pc' = "ready" /\ req' = NoName
  /\ UNCHANGED <<files, swept, history>>

\* The rest of rel_open(): the handle is set up, then the set is loaded unless
\* it is resident.  A failed load returns with the handle already renamed; one
\* that a read error cuts short is taken for the whole set.
OpenSet ==
  /\ pc = "open"
  /\ s_name' = req /\ s_pos' = 1 /\ s_dirty' = FALSE
  /\ \/ Cached(req) /\ s_open' = TRUE /\ UNCHANGED <<cache, damaged>>
     \/ /\ ~Cached(req)
        /\ s_open' = TRUE
        /\ \E s \in Loaded(req) :
             /\ reu' = [reu EXCEPT ![RegionOf(req)] = s]
             /\ damaged' = IF s = Live(req) THEN damaged ELSE damaged \cup {req}
        /\ s_loaded' = IF req \in Windowed THEN s_loaded ELSE s_loaded \cup {req}
        /\ s_window_name' = IF req \in Windowed THEN req ELSE s_window_name
     \/ /\ ~Cached(req) /\ "open" \in Faults
        /\ UNCHANGED <<s_open, cache, damaged>>
  /\ pc' = "ready" /\ req' = NoName
  /\ UNCHANGED <<files, swept, written, acked, exposed>>

RelPosition(rec) ==
  /\ pc = "ready" /\ s_open
  /\ s_pos' = rec
  /\ UNCHANGED <<files, cache, s_name, s_open, s_dirty, control, history>>

RelRead ==
  /\ pc = "ready" /\ s_open
  /\ s_pos # 0 /\ s_pos <= Len(reu[RegionOf(s_name)])
  /\ s_pos' = s_pos + 1
  /\ UNCHANGED <<files, cache, s_name, s_open, s_dirty, control, history>>

\* Mutant: rel_write() without the capacity test (BBS_EFULL).
RelWriteNoLimit(v) ==
  /\ pc = "ready" /\ s_open
  /\ s_pos # 0
  /\ reu' = [reu EXCEPT ![RegionOf(s_name)] = PutRec(@, s_pos, v)]
  /\ written' = [written EXCEPT ![s_name] = PutRec(@, s_pos, v)]
  /\ s_dirty' = TRUE
  /\ s_pos' = s_pos + 1
  /\ UNCHANGED <<files, s_loaded, s_window_name, s_name, s_open, control,
                 acked, exposed, damaged>>

RelWrite(v) ==
  /\ pc = "ready" /\ s_open
  /\ s_pos # 0 /\ s_pos <= MaxRecs
  /\ reu' = [reu EXCEPT ![RegionOf(s_name)] = PutRec(@, s_pos, v)]
  /\ written' = [written EXCEPT ![s_name] = PutRec(@, s_pos, v)]
  /\ s_dirty' = TRUE
  /\ s_pos' = s_pos + 1
  /\ UNCHANGED <<files, s_loaded, s_window_name, s_name, s_open, control,
                 acked, exposed, damaged>>

\* rel_close(): a clean set needs no flush.
RelClose ==
  /\ pc = "ready" /\ s_open
  /\ IF s_dirty
       THEN pc' = "scratch_tmp" /\ UNCHANGED handle
       ELSE s_open' = FALSE /\ s_pos' = 0 /\ UNCHANGED <<pc, s_name, s_dirty>>
  /\ UNCHANGED <<files, cache, req, swept, history>>

\* rel_reset(): CONFIGURE calls it before it rebuilds a set.  s_dirty stays.
RelReset ==
  /\ pc = "ready"
  /\ s_open' = FALSE /\ s_pos' = 0
  /\ s_loaded' = {} /\ s_window_name' = NoName
  /\ UNCHANGED <<files, reu, s_name, s_dirty, control, history>>

-----------------------------------------------------------------------------
(* region_flush(), for rel_close() (req = NoName) or rel_open()'s retry. *)

\* Mutant: a failed flush is forgotten.
FlushForgets ==
  /\ pc' = "ready" /\ req' = NoName /\ s_dirty' = FALSE
  /\ IF req = NoName THEN s_open' = FALSE /\ s_pos' = 0
                     ELSE UNCHANGED <<s_open, s_pos>>
  /\ exposed' = IF main'[s_name] = Absent THEN exposed \cup {s_name} ELSE exposed
  /\ UNCHANGED <<cache, s_name, swept, written, acked, damaged>>

\* The flush gives up: s_dirty stays, and the call returns its error.
FlushFails ==
  /\ pc' = "ready" /\ req' = NoName
  /\ IF req = NoName THEN s_open' = FALSE /\ s_pos' = 0
                     ELSE UNCHANGED <<s_open, s_pos>>
  /\ exposed' = IF main'[s_name] = Absent THEN exposed \cup {s_name} ELSE exposed
  /\ UNCHANGED <<cache, s_name, s_dirty, swept, written, acked, damaged>>

\* Mutant: the live file goes before its successor is written.
FlushScratchBoth ==
  /\ pc = "scratch_tmp"
  /\ main' = [main EXCEPT ![s_name] = Absent]
  /\ new' = [new EXCEPT ![s_name] = Absent]
  /\ pc' = "create"
  /\ UNCHANGED <<cache, handle, req, swept, history>>

\* Scratch <name>.NEW; the result is ignored.
FlushScratchTmp ==
  /\ pc = "scratch_tmp"
  /\ \/ new' = [new EXCEPT ![s_name] = Absent]
     \/ "scratch" \in Faults /\ UNCHANGED new
  /\ pc' = "create"
  /\ UNCHANGED <<main, cache, handle, req, swept, history>>

\* Open <name>.NEW for writing.  A file the scratch left behind is not
\* replaced (DOS 63), and the writes that follow report an error.
FlushCreate ==
  /\ pc = "create"
  /\ \/ /\ new[s_name] = Absent
        /\ new' = [new EXCEPT ![s_name] = << >>]
        /\ pc' = "fill"
        /\ UNCHANGED <<main, cache, handle, req, swept, history>>
     \/ /\ new[s_name] # Absent \/ "open" \in Faults
        /\ UNCHANGED files
        /\ FlushFails

\* One record of the region goes to <name>.NEW; after the last one the file is
\* closed and complete.
FlushFill ==
  /\ pc = "fill"
  /\ LET r == reu[RegionOf(s_name)] IN
     \/ /\ Len(new[s_name]) < Len(r)
        /\ new' = [new EXCEPT ![s_name] = Append(@, r[Len(@) + 1])]
        /\ UNCHANGED <<main, cache, handle, control, history>>
     \/ /\ Len(new[s_name]) = Len(r)
        /\ pc' = "swap"
        /\ UNCHANGED <<files, cache, handle, req, swept, history>>
     \/ "write" \in Faults /\ UNCHANGED files /\ FlushFails

\* Scratch the live file; scratching an absent one is no error.
FlushScratchLive ==
  /\ pc = "swap"
  /\ \/ /\ main' = [main EXCEPT ![s_name] = Absent]
        /\ pc' = "rename"
        /\ UNCHANGED <<new, cache, handle, req, swept, history>>
     \/ "scratch" \in Faults /\ UNCHANGED files /\ FlushFails
     \/ /\ "reply" \in Faults
        /\ main' = [main EXCEPT ![s_name] = Absent]
        /\ UNCHANGED new
        /\ FlushFails

\* Rename <name>.NEW into place.  Only now is the set clean.
FlushRename ==
  /\ pc = "rename"
  /\ \/ /\ main' = [main EXCEPT ![s_name] = new[s_name]]
        /\ new' = [new EXCEPT ![s_name] = Absent]
        /\ s_dirty' = FALSE
        /\ IF req = NoName
             THEN pc' = "ready" /\ s_open' = FALSE /\ s_pos' = 0
             ELSE pc' = "open" /\ UNCHANGED <<s_open, s_pos>>
        /\ acked' = [acked EXCEPT ![s_name] = new[s_name]]
        /\ exposed' = exposed \ {s_name}
        /\ UNCHANGED <<cache, s_name, req, swept, written, damaged>>
     \/ "rename" \in Faults /\ UNCHANGED files /\ FlushFails
     \/ /\ "reply" \in Faults
        /\ main' = [main EXCEPT ![s_name] = new[s_name]]
        /\ new' = [new EXCEPT ![s_name] = Absent]
        /\ FlushFails

-----------------------------------------------------------------------------
(* Reset of the machine, and the boot sweep. *)

\* Power loss or reset: everything but the drive is gone.
Crash ==
  /\ pc' = "boot" /\ swept' = 0 /\ req' = NoName
  /\ reu' = [r \in Regions |-> << >>]
  /\ s_loaded' = {} /\ s_window_name' = NoName
  /\ s_name' = NoName /\ s_open' = FALSE /\ s_pos' = 0 /\ s_dirty' = FALSE
  /\ written' = [n \in Names |-> Store(n)]
  /\ acked' = [n \in Names |-> IF acked[n] = Absent THEN Absent ELSE Store(n)]
  /\ exposed' = {} /\ damaged' = {}
  /\ UNCHANGED files

\* Mutant: the sweep drops every <name>.NEW it finds.
RecoveredDropsTmp(n) == <<main[n], Absent>>

\* seq_recover_action() on the pair of files, and the disk operation it asks for.
Recovered(n) ==
  IF new[n] = Absent THEN <<main[n], Absent>>                  \* NONE
  ELSE IF main[n] # Absent THEN <<main[n], Absent>>            \* DROP_TMP
  ELSE <<new[n], Absent>>                                      \* PROMOTE

\* What the sweep may leave instead when one of its own operations fails: both
\* files as they were (no partition, <name>.NEW taken for absent, a rename onto a
\* live file that is there after all, or the scratch or rename refused), or
\* none, <name>.NEW scratched for the sake of a live file that does not exist.
Misrecovered(n) ==
  {<<main[n], new[n]>> :
     f \in Faults \cap {"probe", IF main[n] # Absent THEN "scratch" ELSE "rename"}}
  \cup {<<main[n], Absent>> : f \in Faults \cap {"probe"}}

\* One turn of rel_seq_sweep(): rel_seq_recover() for the next name.
BootRecover ==
  /\ pc = "boot" /\ swept < Len(Sweep)
  /\ LET n == Sweep[swept + 1] IN
       /\ main' = [main EXCEPT ![n] = Recovered(n)[1]]
       /\ new' = [new EXCEPT ![n] = Recovered(n)[2]]
       /\ acked' = [acked EXCEPT ![n] = Recovered(n)[1]]
  /\ swept' = swept + 1
  /\ UNCHANGED <<cache, handle, pc, req, written, exposed, damaged>>

\* The same with a failure, which nobody looks at.  A set of which no live file
\* is left although the sweep found it in <name>.NEW is damaged: region_load()
\* will take it for one that does not exist.
BootRecoverFails ==
  /\ pc = "boot" /\ swept < Len(Sweep)
  /\ LET n == Sweep[swept + 1] IN \E left \in Misrecovered(n) :
       /\ main' = [main EXCEPT ![n] = left[1]]
       /\ new' = [new EXCEPT ![n] = left[2]]
       /\ acked' = [acked EXCEPT ![n] = left[1]]
       /\ damaged' = IF left[1] = Absent /\ new[n] # Absent
                        THEN damaged \cup {n} ELSE damaged
  /\ swept' = swept + 1
  /\ UNCHANGED <<cache, handle, pc, req, written, exposed>>

BootDone ==
  /\ pc = "boot" /\ swept = Len(Sweep)
  /\ pc' = "ready"
  /\ UNCHANGED <<files, cache, handle, req, swept, history>>

-----------------------------------------------------------------------------
Next ==
  \/ \E n \in Names : RelOpen(n)
  \/ OpenSelectFails \/ OpenSet
  \/ \E rec \in 1..(MaxRecs + 1) : RelPosition(rec)
  \/ RelRead
  \/ \E v \in Vals : RelWrite(v)
  \/ RelClose \/ RelReset
  \/ FlushScratchTmp \/ FlushCreate \/ FlushFill
  \/ FlushScratchLive \/ FlushRename
  \/ Crash \/ BootRecover \/ BootRecoverFails \/ BootDone

Spec == Init /\ [][Next]_vars

-----------------------------------------------------------------------------
(* Properties. *)

\* Every variable holds a value its C counterpart can hold; in particular no
\* region ever holds more records than its capacity, so a flush never streams
\* past its neighbour in bank 2.
TypeOK ==
  /\ main \in [Names -> Contents \cup {Absent}]
  /\ new \in [Names -> Contents \cup {Absent}]
  /\ reu \in [Regions -> Contents]
  /\ s_loaded \in SUBSET Fixed
  /\ s_window_name \in Windowed \cup {NoName}
  /\ s_name \in Names \cup {NoName}
  /\ s_open \in BOOLEAN /\ s_dirty \in BOOLEAN
  /\ s_pos \in 0..(MaxRecs + 1)
  /\ pc \in {"boot", "ready", "open", "scratch_tmp", "create", "fill",
             "swap", "rename"}
  /\ req \in Names \cup {NoName}
  /\ swept \in 0..Len(Sweep)
  /\ written \in [Names -> Contents]
  /\ acked \in [Names -> Contents \cup {Absent}]
  /\ exposed \in SUBSET Names /\ damaged \in SUBSET Names

Pending(n) == s_dirty /\ s_name = n

\* A set that is resident and has no unsaved record is byte for byte the file:
\* skipping region_load() for it (rel_open's s_loaded and s_window_name tests)
\* never serves another set's records or an older version.
CacheCoherent ==
  \A n \in Names \ damaged :
    Cached(n) /\ ~Pending(n) => reu[RegionOf(n)] = Live(n)

\* What the next rel_open(n) would serve is what the callers last wrote to n,
\* across failed flushes, their retries, WINDOW changing hands and rel_reset():
\* a failed save is never silently discarded while the machine stays up.  Only
\* a sweep that failed on a set found in <name>.NEW alone, and a load cut short
\* by a read error, show a caller less (damaged).
View(n) == IF Pending(n) \/ Cached(n) THEN reu[RegionOf(n)] ELSE Live(n)
ViewIsLatest ==
  pc # "boot" => \A n \in Names \ damaged : View(n) = written[n]

\* At every moment a reset leaves a set the sweep can restore either to what the
\* last successful close saved or to what the caller was saving.  Three windows
\* are carved out: the first save of a set that never existed may leave a
\* prefix, a set whose save failed after its live file went is exposed, and a
\* damaged one has lost its records before.
Durable ==
  \A n \in Names \ (exposed \cup damaged) :
    \/ Store(n) \in {acked[n], written[n]}
    \/ acked[n] = Absent /\ IsPrefixOf(Store(n), written[n])

\* A set nobody is saving is on the drive exactly as its last caller left it,
\* whatever happened to the other sets in calls and in the sweep.
OthersUntouched ==
  \A n \in Names \ damaged : ~Pending(n) => Store(n) = written[n]

\* rel_seq.c:77 says of the set region_load() serves as empty: "genuinely absent
\* == empty set".  So while the set is clean no copy of it may be on the drive.
EmptyIsAbsent ==
  \A n \in Names : Cached(n) /\ ~Pending(n) /\ reu[RegionOf(n)] = << >>
                    => Store(n) = << >>

\* seq_region.h:33 says of a <name>.NEW found alone: "complete, rename it in".
\* So it must be a whole version of the set, saved or being saved.
PromotedIsComplete ==
  \A n \in Names :
    main[n] = Absent /\ new[n] # Absent /\ acked[n] # Absent
      => new[n] \in {acked[n], written[n]}
=============================================================================
