---------------------------- MODULE RelSeqProofs ----------------------------
(***************************************************************************)
(* RelSeq's invariants, for any number of sets, records and faults.        *)
(*                                                                         *)
(* None of CacheCoherent, ViewIsLatest, OthersUntouched and Durable is     *)
(* inductive alone: each step of a save is right only because of what the  *)
(* steps before it left behind.  IInv adds what those steps hand on.       *)
(***************************************************************************)
EXTENDS RelSeqStore, SequenceTheorems, TLAPS

FlushPc == {"scratch_tmp", "create", "fill", "swap", "rename"}

\* What each program counter says of the handle.
ControlInv ==
  /\ s_dirty \/ s_open => s_name \in Names
  /\ pc = "boot" => /\ ~s_dirty /\ ~s_open /\ req = NoName
                    /\ s_loaded = {} /\ s_window_name = NoName
  /\ pc = "ready" => req = NoName
  /\ pc = "open" => req \in Names /\ ~s_dirty /\ ~s_open
  /\ pc \in FlushPc => s_dirty /\ (req # NoName => ~s_open)

\* An open set is resident, and a set with unsaved records keeps WINDOW.
HandleInv ==
  /\ s_open => Cached(s_name)
  /\ s_dirty /\ s_name \in Windowed => s_window_name \in {s_name, NoName}

\* How much of a save is done.
FlushInv ==
  /\ pc = "fill" => /\ new[s_name] # Absent
                    /\ IsPrefixOf(new[s_name], reu[RegionOf(s_name)])
  /\ pc \in {"swap", "rename"} => new[s_name] = reu[RegionOf(s_name)]
  /\ pc = "rename" => main[s_name] = Absent

\* No save of n has been started since its last one succeeded.
Settled(n) == pc # "boot" /\ (Pending(n) => s_open /\ pc = "ready")

SettledInv ==
  \A n \in Names : Settled(n) =>
    /\ acked[n] = main[n]
    /\ n \notin damaged => Live(n) = Store(n)

\* What the sweep has handled is served as what it restored, unless it failed
\* on a set that had lost its live file.
SweptInv ==
  pc = "boot" => \A i \in 1..swept :
    /\ acked[Sweep[i]] = main[Sweep[i]]
    /\ Sweep[i] \notin damaged => Live(Sweep[i]) = Store(Sweep[i])

\* A live file is a whole version; one that is missing never existed, or is
\* about to be renamed into place, or its set is exposed.
DurableInv ==
  \A n \in Names \ damaged :
    /\ main[n] # Absent => main[n] \in {acked[n], written[n]}
    /\ pc # "boot" /\ main[n] = Absent /\ n \notin exposed =>
         \/ acked[n] = Absent /\ IsPrefixOf(Store(n), written[n])
         \/ pc = "rename" /\ n = s_name

Coherence == CacheCoherent /\ ViewIsLatest /\ OthersUntouched

IInv ==
  /\ TypeOK /\ ControlInv /\ HandleInv /\ FlushInv
  /\ SettledInv /\ SweptInv /\ DurableInv /\ Coherence

-----------------------------------------------------------------------------
(* Lemmas about records and prefixes. *)

\* A record write keeps a set within its region.
LEMMA PutRecInContents ==
  ASSUME NEW s \in Contents, NEW i \in 1..MaxRecs, NEW v \in Vals
  PROVE  PutRec(s, i, v) \in Contents
<1> DEFINE m == IF i > Len(s) THEN i ELSE Len(s)
<1>1. s \in Seq(Rec) /\ Len(s) \in Nat /\ Len(s) <= MaxRecs
  BY DEF Contents
<1>2. MaxRecs \in Nat /\ m \in Nat /\ m <= MaxRecs
  BY <1>1, RecordsAssumption
<1>3. PutRec(s, i, v) \in [1..m -> Rec]
  BY <1>1 DEF PutRec, Rec
<1>4. PutRec(s, i, v) \in Seq(Rec) /\ Len(PutRec(s, i, v)) = m
  BY <1>3
<1> QED BY <1>4 DEF Contents

\* An empty file is a set's first version.
LEMMA EmptyInContents == << >> \in Contents /\ Len(<< >>) = 0
BY RecordsAssumption DEF Contents

\* ... and a prefix of every other.
LEMMA EmptyIsPrefix == ASSUME NEW s \in Contents PROVE IsPrefixOf(<< >>, s)
BY DEF IsPrefixOf

\* One more record of the region in <name>.NEW leaves it a prefix.
LEMMA AppendNextIsPrefix ==
  ASSUME NEW s \in Contents, NEW t \in Contents,
         IsPrefixOf(s, t), Len(s) < Len(t)
  PROVE  /\ Append(s, t[Len(s) + 1]) \in Contents
         /\ IsPrefixOf(Append(s, t[Len(s) + 1]), t)
<1>1. s \in Seq(Rec) /\ t \in Seq(Rec) /\ Len(s) \in Nat /\ Len(t) \in Nat
      /\ Len(t) <= MaxRecs /\ MaxRecs \in Nat
  BY RecordsAssumption DEF Contents
<1>2. t[Len(s) + 1] \in Rec
  BY <1>1
<1>3. Append(s, t[Len(s) + 1]) \in Seq(Rec)
      /\ Len(Append(s, t[Len(s) + 1])) = Len(s) + 1
  BY <1>1
<1>4. \A i \in 1..(Len(s) + 1) : Append(s, t[Len(s) + 1])[i] = t[i]
  BY DEF IsPrefixOf
<1> QED BY <1>1 DEF Contents, IsPrefixOf

\* A prefix as long as the whole is the whole.
LEMMA FullPrefixIsEqual ==
  ASSUME NEW s \in Contents, NEW t \in Contents,
         IsPrefixOf(s, t), Len(s) = Len(t)
  PROVE  s = t
BY DEF Contents, IsPrefixOf

\* No version of a set is mistaken for a missing file.
LEMMA AbsentIsNoVersion == Absent \notin Contents
BY RecordsAssumption DEF Contents

\* The version a reset leaves is a version.
LEMMA StoreInContents == TypeOK => \A n \in Names : Store(n) \in Contents
BY EmptyInContents DEF TypeOK, Store

\* Nor is what a load takes for it: it is the file or its beginning.
LEMMA LoadedInContents ==
  TypeOK => \A n \in Names : Loaded(n) \subseteq Contents
<1> SUFFICES ASSUME TypeOK, NEW n \in Names, NEW s \in Loaded(n)
             PROVE  s \in Contents
  OBVIOUS
<1>1. Live(n) \in Contents
  BY EmptyInContents DEF TypeOK, Live
<1>2. CASE s = Live(n)
  BY <1>1, <1>2
<1>3. CASE \E k \in 0..Len(Live(n)) : s = SubSeq(Live(n), 1, k)
  <2> PICK k \in 0..Len(Live(n)) : s = SubSeq(Live(n), 1, k)
    BY <1>3
  <2>1. Live(n) \in Seq(Rec) /\ Len(Live(n)) \in Nat /\ Len(Live(n)) <= MaxRecs
    BY <1>1 DEF Contents
  <2>2. s \in Seq(Rec) /\ Len(s) = k
    BY <2>1
  <2> QED BY <2>1, <2>2, RecordsAssumption DEF Contents
<1> QED BY <1>2, <1>3 DEF Loaded

\* The positions the code starts from are within range.
LEMMA StartInRange ==
  /\ 0 \in 0..(MaxRecs + 1) /\ 1 \in 0..(MaxRecs + 1)
  /\ 0 \in 0..Len(Sweep)
BY RecordsAssumption

-----------------------------------------------------------------------------
(* The initial state, and one lemma per action: the step preserves IInv. *)

LEMMA InitIInv == Init => IInv
<1> SUFFICES ASSUME Init PROVE IInv
  OBVIOUS
<1>1. << >> \in Contents /\ (\A n \in Names : main[n] \in {Absent, << >>})
  BY EmptyInContents DEF Init
<1>2. TypeOK
  <2>1. /\ main \in [Names -> Contents \cup {Absent}]
        /\ new \in [Names -> Contents \cup {Absent}]
        /\ acked \in [Names -> Contents \cup {Absent}]
        /\ reu \in [Regions -> Contents]
        /\ written \in [Names -> Contents]
    BY <1>1 DEF Init
  <2> QED BY <2>1, StartInRange DEF Init, TypeOK
<1>3. ControlInv /\ HandleInv /\ FlushInv /\ SettledInv /\ SweptInv
  BY DEF Init, ControlInv, HandleInv, FlushInv, SettledInv, SweptInv, Settled, Live,
         Store, FlushPc
<1>4. DurableInv
  BY DEF Init, DurableInv
<1>5. Coherence
  BY NamesAssumption
  DEF Init, Coherence, CacheCoherent, ViewIsLatest, OthersUntouched, Cached, Store
<1> QED BY <1>2, <1>3, <1>4, <1>5 DEF IInv

\* rel_open() decides whether an earlier flush has to be retried.
LEMMA RelOpenStep ==
  ASSUME IInv, NEW n \in Names, RelOpen(n)
  PROVE  IInv'
<1>1. TypeOK'
  BY DEF IInv, RelOpen, files, cache, handle, history, TypeOK
<1>2. ControlInv'
  BY DEF IInv, RelOpen, handle, ControlInv, FlushPc
<1>3. HandleInv'
  BY DEF IInv, RelOpen, cache, handle, HandleInv
<1>4. FlushInv'
  BY DEF RelOpen, FlushInv
<1>5. SettledInv'
  BY DEF IInv, RelOpen, files, handle, history, SettledInv, Settled, Pending, Live, Store
<1>6. SweptInv'
  BY DEF RelOpen, SweptInv, Live, Store
<1>7. DurableInv'
  BY DEF IInv, RelOpen, files, history, DurableInv, Store
<1>8. CacheCoherent'
  BY DEF IInv, history, RelOpen, files, cache, handle, Coherence, CacheCoherent, Cached,
         Pending, Live
<1>9. ViewIsLatest'
  BY DEF IInv, RelOpen, files, cache, handle, history, Coherence, ViewIsLatest, View,
         Cached, Pending, Live
<1>10. OthersUntouched'
  BY DEF IInv, RelOpen, files, handle, history, Coherence, OthersUntouched, Pending,
         Store
<1> QED BY <1>1, <1>2, <1>3, <1>4, <1>5, <1>6, <1>7, <1>8, <1>9, <1>10
    DEF IInv, Coherence

\* rel_open() gives up before it touches the handle.
LEMMA OpenSelectFailsStep ==
  ASSUME IInv, OpenSelectFails
  PROVE  IInv'
<1>1. TypeOK'
  BY DEF IInv, OpenSelectFails, files, cache, handle, history, TypeOK
<1>2. ControlInv'
  BY DEF IInv, OpenSelectFails, handle, ControlInv, FlushPc
<1>3. HandleInv'
  BY DEF IInv, OpenSelectFails, handle, ControlInv, HandleInv
<1>4. FlushInv'
  BY DEF OpenSelectFails, FlushInv
<1>5. SettledInv'
  BY DEF IInv, OpenSelectFails, files, history, ControlInv, SettledInv, Settled,
         Pending, Live, Store
<1>6. SweptInv'
  BY DEF OpenSelectFails, SweptInv, Live, Store
<1>7. DurableInv'
  BY DEF IInv, OpenSelectFails, files, history, DurableInv, Store
<1>8. CacheCoherent'
  BY DEF IInv, history, OpenSelectFails, files, cache, ControlInv, Coherence, CacheCoherent,
         Cached, Pending, Live
<1>9. ViewIsLatest'
  BY DEF IInv, OpenSelectFails, files, cache, handle, history, Coherence,
         ViewIsLatest, View, Cached, Pending, Live
<1>10. OthersUntouched'
  BY DEF IInv, OpenSelectFails, files, history, ControlInv, Coherence,
         OthersUntouched, Pending, Store
<1> QED BY <1>1, <1>2, <1>3, <1>4, <1>5, <1>6, <1>7, <1>8, <1>9, <1>10
    DEF IInv, Coherence

\* rel_open() takes a resident set as it is, or loads it from its file.
LEMMA OpenSetStep ==
  ASSUME IInv, OpenSet
  PROVE  IInv'
<1>1. TypeOK'
  <2>1. req \in Names /\ Loaded(req) \subseteq Contents
    BY LoadedInContents DEF IInv, OpenSet, ControlInv
  <2>2. reu' \in [Regions -> Contents] /\ damaged' \in SUBSET Names
    BY <2>1 DEF IInv, OpenSet, TypeOK, cache
  <2>3. s_loaded' \in SUBSET Fixed /\ s_window_name' \in Windowed \cup {NoName}
    BY DEF IInv, OpenSet, TypeOK, ControlInv, cache, Fixed
  <2> QED BY <2>2, <2>3, StartInRange DEF IInv, OpenSet, TypeOK, files, ControlInv
<1>2. ControlInv'
  BY DEF IInv, OpenSet, ControlInv, FlushPc
<1>3. HandleInv'
  BY DEF IInv, OpenSet, cache, ControlInv, HandleInv, Cached
<1>4. FlushInv'
  BY DEF OpenSet, FlushInv
<1>5. SettledInv'
  BY DEF IInv, OpenSet, files, history, ControlInv, SettledInv, Settled, Pending, Live, Store
<1>6. SweptInv'
  BY DEF OpenSet, SweptInv, Live, Store
<1>7. DurableInv'
  BY DEF IInv, OpenSet, files, history, DurableInv, Store
<1>8. CacheCoherent'
  BY SMTT(20), NamesAssumption, RecordsAssumption
  DEF IInv, OpenSet, files, cache, history, TypeOK, ControlInv, FlushPc, Coherence,
      CacheCoherent, Cached, Pending, RegionOf, Regions, Fixed, Live
<1>9. ViewIsLatest'
  <2>1. \A n \in Names \ damaged : Live(n)' = written'[n]
    BY DEF IInv, OpenSet, ControlInv, Coherence, CacheCoherent, ViewIsLatest, View,
           Pending, Live, files
  <2> QED BY <1>8, <2>1 DEF OpenSet, CacheCoherent, ViewIsLatest, View, Pending
<1>10. OthersUntouched'
  BY DEF IInv, OpenSet, files, history, ControlInv, Coherence, OthersUntouched,
         Pending, Store
<1> QED BY <1>1, <1>2, <1>3, <1>4, <1>5, <1>6, <1>7, <1>8, <1>9, <1>10
    DEF IInv, Coherence

\* rel_position() moves s_pos.
LEMMA RelPositionStep ==
  ASSUME IInv, NEW rec \in 1..(MaxRecs + 1), RelPosition(rec)
  PROVE  IInv'
<1>1. TypeOK'
  BY DEF IInv, RelPosition, files, cache, control, history, TypeOK
<1>2. ControlInv'
  BY DEF IInv, RelPosition, control, ControlInv
<1>3. HandleInv'
  BY DEF IInv, RelPosition, cache, HandleInv, Cached
<1>4. FlushInv'
  BY DEF RelPosition, control, FlushInv
<1>5. SettledInv'
  BY DEF IInv, RelPosition, files, history, SettledInv, Settled, Live, Store
<1>6. SweptInv'
  BY DEF RelPosition, control, SweptInv, Live, Store
<1>7. DurableInv'
  BY DEF IInv, RelPosition, files, history, DurableInv, Store
<1>8. CacheCoherent'
  BY DEF IInv, history, RelPosition, files, cache, Coherence, CacheCoherent, Cached, Pending,
         Live
<1>9. ViewIsLatest'
  BY DEF IInv, RelPosition, files, cache, history, Coherence, ViewIsLatest, View,
         Cached, Pending, Live
<1>10. OthersUntouched'
  BY DEF IInv, RelPosition, files, history, Coherence, OthersUntouched, Pending, Store
<1> QED BY <1>1, <1>2, <1>3, <1>4, <1>5, <1>6, <1>7, <1>8, <1>9, <1>10
    DEF IInv, Coherence

\* rel_read() advances s_pos.
LEMMA RelReadStep ==
  ASSUME IInv, RelRead
  PROVE  IInv'
<1>1. TypeOK'
  <2>1. s_name \in Names /\ RegionOf(s_name) \in Regions
    BY DEF IInv, RelRead, ControlInv, RegionOf, Regions, Fixed
  <2>2. s_pos \in 0..(MaxRecs + 1) /\ s_pos <= MaxRecs
    BY <2>1, RecordsAssumption DEF IInv, RelRead, TypeOK, Contents
  <2>3. s_pos' \in 0..(MaxRecs + 1)
    BY <2>2, RecordsAssumption DEF RelRead
  <2> QED BY <2>3 DEF IInv, RelRead, files, cache, control, history, TypeOK
<1>2. ControlInv'
  BY DEF IInv, RelRead, control, ControlInv
<1>3. HandleInv'
  BY DEF IInv, RelRead, cache, HandleInv, Cached
<1>4. FlushInv'
  BY DEF RelRead, control, FlushInv
<1>5. SettledInv'
  BY DEF IInv, RelRead, files, history, SettledInv, Settled, Live, Store
<1>6. SweptInv'
  BY DEF RelRead, control, SweptInv, Live, Store
<1>7. DurableInv'
  BY DEF IInv, RelRead, files, history, DurableInv, Store
<1>8. CacheCoherent'
  BY DEF IInv, history, RelRead, files, cache, Coherence, CacheCoherent, Cached, Pending, Live
<1>9. ViewIsLatest'
  BY DEF IInv, RelRead, files, cache, history, Coherence, ViewIsLatest, View, Cached,
         Pending, Live
<1>10. OthersUntouched'
  BY DEF IInv, RelRead, files, history, Coherence, OthersUntouched, Pending, Store
<1> QED BY <1>1, <1>2, <1>3, <1>4, <1>5, <1>6, <1>7, <1>8, <1>9, <1>10
    DEF IInv, Coherence

\* rel_write() changes the region and what was written alike.
LEMMA RelWriteStep ==
  ASSUME IInv, NEW v \in Vals, RelWrite(v)
  PROVE  IInv'
<1>1. TypeOK'
  <2>1. s_name \in Names /\ RegionOf(s_name) \in Regions /\ s_pos \in 1..MaxRecs
    BY DEF IInv, RelWrite, TypeOK, ControlInv, RegionOf, Regions, Fixed
  <2>2. PutRec(reu[RegionOf(s_name)], s_pos, v) \in Contents
    BY <2>1, PutRecInContents DEF IInv, TypeOK
  <2>3. PutRec(written[s_name], s_pos, v) \in Contents
    BY <2>1, PutRecInContents DEF IInv, TypeOK
  <2>4. reu' \in [Regions -> Contents] /\ written' \in [Names -> Contents]
    BY <2>2, <2>3 DEF IInv, TypeOK, RelWrite
  <2>5. s_pos' \in 0..(MaxRecs + 1)
    BY <2>1, RecordsAssumption DEF RelWrite
  <2> QED BY <2>4, <2>5 DEF IInv, TypeOK, RelWrite, files, control
<1>2. ControlInv'
  BY DEF IInv, RelWrite, control, ControlInv
<1>3. HandleInv'
  BY DEF IInv, RelWrite, HandleInv, Cached
<1>4. FlushInv'
  BY DEF RelWrite, control, FlushInv
<1>5. SettledInv'
  BY DEF IInv, RelWrite, files, SettledInv, Settled, Live, Store
<1>6. SweptInv'
  BY DEF RelWrite, control, SweptInv, Live, Store
<1>7. DurableInv'
  <2>1. \A n \in Names : written'[n] \in Contents
    BY <1>1 DEF TypeOK
  <2>2. /\ acked[s_name] = main[s_name] /\ s_name \in Names
        /\ s_name \notin damaged => Live(s_name) = Store(s_name)
    BY DEF IInv, RelWrite, ControlInv, SettledInv, Settled
  <2>3. \A n \in Names \ {s_name} : written'[n] = written[n]
    BY DEF RelWrite
  <2>4. s_name \notin damaged => Store(s_name)' = << >> \/ main[s_name] # Absent
    BY <2>2 DEF RelWrite, Live, Store, files
  <2>5. \A n \in Names \ {s_name} : Store(n)' = Store(n)
    BY DEF RelWrite, Store, files
  <2>6. main' = main /\ pc' = pc /\ UNCHANGED <<s_name, acked, exposed, damaged>>
    BY DEF RelWrite, files, control
  <2>7. ASSUME NEW n \in Names \ damaged', n # s_name
        PROVE  /\ main'[n] # Absent => main'[n] \in {acked'[n], written'[n]}
               /\ pc' # "boot" /\ main'[n] = Absent /\ n \notin exposed' =>
                    acked'[n] = Absent /\ IsPrefixOf(Store(n)', written'[n])
    BY <2>3, <2>5, <2>6, <2>7 DEF IInv, DurableInv, RelWrite
  <2>8. ASSUME s_name \notin damaged'
        PROVE  /\ main'[s_name] # Absent => main'[s_name] = acked'[s_name]
               /\ main'[s_name] = Absent =>
                    acked'[s_name] = Absent /\ IsPrefixOf(Store(s_name)', written'[s_name])
    BY <2>1, <2>2, <2>4, <2>6, <2>8, EmptyIsPrefix
  <2> SUFFICES ASSUME NEW n \in Names \ damaged'
               PROVE  /\ main'[n] # Absent => main'[n] \in {acked'[n], written'[n]}
                      /\ pc' # "boot" /\ main'[n] = Absent /\ n \notin exposed' =>
                           acked'[n] = Absent /\ IsPrefixOf(Store(n)', written'[n])
    BY DEF DurableInv
  <2>9. CASE n = s_name
    BY <2>6, <2>8, <2>9
  <2> QED BY <2>7, <2>9
<1>8. CacheCoherent'
  BY NamesAssumption, AbsentIsNoVersion
  DEF IInv, RelWrite, files, TypeOK, HandleInv, Coherence, CacheCoherent, Cached,
      Pending, RegionOf, Regions, Fixed, Live
<1>9. ViewIsLatest'
  BY SMTT(20), NamesAssumption, AbsentIsNoVersion
  DEF IInv, RelWrite, files, TypeOK, ControlInv, HandleInv, FlushPc, Coherence,
      CacheCoherent, ViewIsLatest, OthersUntouched, View, Cached, Pending, RegionOf,
      Regions, Fixed, Live, Store, SettledInv, Settled
<1>10. OthersUntouched'
  BY DEF IInv, RelWrite, files, Coherence, OthersUntouched, Pending, Store
<1> QED BY <1>1, <1>2, <1>3, <1>4, <1>5, <1>6, <1>7, <1>8, <1>9, <1>10
    DEF IInv, Coherence

\* rel_close() of a dirty set starts a flush.
LEMMA RelCloseStep ==
  ASSUME IInv, RelClose
  PROVE  IInv'
<1>1. TypeOK'
  BY StartInRange DEF IInv, RelClose, files, cache, handle, history, TypeOK
<1>2. ControlInv'
  BY DEF IInv, RelClose, handle, ControlInv
<1>3. HandleInv'
  BY DEF IInv, RelClose, cache, handle, HandleInv, Cached
<1>4. FlushInv'
  BY DEF RelClose, FlushInv
<1>5. SettledInv'
  BY DEF IInv, RelClose, files, history, SettledInv, Settled, Live, Store
<1>6. SweptInv'
  BY DEF RelClose, SweptInv, Live, Store
<1>7. DurableInv'
  BY DEF IInv, RelClose, files, history, DurableInv, Store
<1>8. CacheCoherent'
  BY DEF IInv, history, RelClose, files, cache, handle, Coherence, CacheCoherent, Cached,
         Pending, Live
<1>9. ViewIsLatest'
  BY DEF IInv, RelClose, files, cache, handle, history, Coherence, ViewIsLatest, View,
         Cached, Pending, Live
<1>10. OthersUntouched'
  BY DEF IInv, RelClose, files, handle, history, Coherence, OthersUntouched, Pending,
         Store
<1> QED BY <1>1, <1>2, <1>3, <1>4, <1>5, <1>6, <1>7, <1>8, <1>9, <1>10
    DEF IInv, Coherence

\* rel_reset() forgets what is resident, not what is unsaved.
LEMMA RelResetStep ==
  ASSUME IInv, RelReset
  PROVE  IInv'
<1>1. TypeOK'
  BY StartInRange DEF IInv, RelReset, files, control, history, TypeOK
<1>2. ControlInv'
  BY DEF IInv, RelReset, control, ControlInv
<1>3. HandleInv'
  BY DEF RelReset, HandleInv
<1>4. FlushInv'
  BY DEF RelReset, control, FlushInv
<1>5. SettledInv'
  BY DEF IInv, RelReset, files, history, SettledInv, Settled, Pending, Live, Store
<1>6. SweptInv'
  BY DEF RelReset, control, SweptInv, Live, Store
<1>7. DurableInv'
  BY DEF IInv, RelReset, files, history, DurableInv, Store
<1>8. CacheCoherent'
  BY NamesAssumption DEF RelReset, CacheCoherent, Cached
<1>9. ViewIsLatest'
  BY NamesAssumption
  DEF IInv, RelReset, files, history, Coherence, ViewIsLatest, OthersUntouched, View,
      Cached, Pending, Live, Store, SettledInv, Settled
<1>10. OthersUntouched'
  BY DEF IInv, RelReset, files, history, Coherence, OthersUntouched, Pending, Store
<1> QED BY <1>1, <1>2, <1>3, <1>4, <1>5, <1>6, <1>7, <1>8, <1>9, <1>10
    DEF IInv, Coherence

\* A flush that stops anywhere leaves the other sets alone, and leaves the
\* live file of its own a whole version, or missing and the set exposed.
LEMMA FlushFailsStep ==
  ASSUME IInv, pc \in FlushPc,
         main' \in [Names -> Contents \cup {Absent}],
         new' \in [Names -> Contents \cup {Absent}],
         \A n \in Names \ {s_name} : main'[n] = main[n] /\ new'[n] = new[n],
         main'[s_name] # Absent /\ s_name \notin damaged =>
           main'[s_name] \in {acked[s_name], written[s_name]},
         FlushFails
  PROVE  IInv'
<1>1. TypeOK'
  BY StartInRange DEF IInv, TypeOK, ControlInv, FlushFails, cache
<1>2. ControlInv'
  BY DEF IInv, FlushFails, ControlInv
<1>3. HandleInv'
  BY DEF IInv, FlushFails, cache, HandleInv, Cached
<1>4. FlushInv'
  BY DEF FlushFails, FlushInv
<1>5. SettledInv'
  BY DEF IInv, ControlInv, SettledInv, Settled, Pending, FlushFails, Live, Store
<1>6. SweptInv'
  BY DEF FlushFails, SweptInv, Live, Store
<1>7. DurableInv'
  <2>1. \A n \in Names \ {s_name} : Store(n)' = Store(n)
    BY DEF Store
  <2> QED BY <2>1 DEF IInv, DurableInv, FlushFails, FlushPc
<1>8. CacheCoherent'
  BY DEF IInv, history, FlushFails, cache, ControlInv, Coherence, CacheCoherent, Cached,
         Pending, Live
<1>9. ViewIsLatest'
  BY DEF IInv, FlushFails, cache, ControlInv, Coherence, ViewIsLatest, View, Cached,
         Pending, Live
<1>10. OthersUntouched'
  BY DEF IInv, FlushFails, ControlInv, Coherence, OthersUntouched, Pending, Store
<1> QED BY <1>1, <1>2, <1>3, <1>4, <1>5, <1>6, <1>7, <1>8, <1>9, <1>10
    DEF IInv, Coherence

\* The flush scratches a stale <name>.NEW.
LEMMA FlushScratchTmpStep ==
  ASSUME IInv, FlushScratchTmp
  PROVE  IInv'
<1>1. TypeOK'
  BY DEF IInv, FlushScratchTmp, cache, handle, history, TypeOK
<1>2. ControlInv'
  BY DEF IInv, FlushScratchTmp, handle, ControlInv, FlushPc
<1>3. HandleInv'
  BY DEF IInv, FlushScratchTmp, cache, handle, HandleInv, Cached
<1>4. FlushInv'
  BY DEF FlushScratchTmp, FlushInv
<1>5. SettledInv'
  BY DEF IInv, FlushScratchTmp, handle, history, TypeOK, SettledInv, Settled, Pending, Live, Store
<1>6. SweptInv'
  BY DEF FlushScratchTmp, SweptInv, Live, Store
<1>7. DurableInv'
  <2>1. \A n \in Names : IsPrefixOf(<< >>, written[n])
    BY EmptyIsPrefix DEF IInv, TypeOK
  <2>2. \A n \in Names : Store(n)' = Store(n) \/ Store(n)' = << >>
    BY DEF IInv, TypeOK, FlushScratchTmp, Store
  <2> QED BY <2>1, <2>2 DEF IInv, DurableInv, FlushScratchTmp, history
<1>8. CacheCoherent'
  BY DEF IInv, history, FlushScratchTmp, cache, handle, Coherence, CacheCoherent, Cached,
         Pending, Live
<1>9. ViewIsLatest'
  BY DEF IInv, FlushScratchTmp, cache, handle, history, Coherence, ViewIsLatest, View,
         Cached, Pending, Live
<1>10. OthersUntouched'
  BY DEF IInv, FlushScratchTmp, handle, history, TypeOK, ControlInv, FlushPc,
         Coherence, OthersUntouched, Pending, Store
<1> QED BY <1>1, <1>2, <1>3, <1>4, <1>5, <1>6, <1>7, <1>8, <1>9, <1>10
    DEF IInv, Coherence

\* The flush opens <name>.NEW.
LEMMA FlushCreateStep ==
  ASSUME IInv, FlushCreate
  PROVE  IInv'
<1>1. CASE FlushFails /\ UNCHANGED files
  BY <1>1, FlushFailsStep
  DEF IInv, TypeOK, ControlInv, DurableInv, FlushCreate, FlushPc, files
<1>2. CASE /\ pc = "create" /\ pc' = "fill" /\ new[s_name] = Absent
           /\ new' = [new EXCEPT ![s_name] = << >>]
           /\ UNCHANGED <<main, cache, handle, req, swept, history>>
  <2> USE DEF cache, handle, history
  <2>0. s_name \in Names /\ Pending(s_name) /\ RegionOf(s_name) \in Regions
    BY <1>2 DEF IInv, ControlInv, FlushPc, Pending, RegionOf, Regions, Fixed
  <2>1. TypeOK'
    BY <1>2, EmptyInContents DEF IInv, TypeOK
  <2>2. ControlInv' /\ HandleInv'
    BY <1>2 DEF IInv, ControlInv, HandleInv, FlushPc, Cached
  <2>3. FlushInv'
    BY <1>2, <2>0, EmptyIsPrefix, AbsentIsNoVersion, EmptyInContents
    DEF IInv, TypeOK, FlushInv
  <2>4. SettledInv' /\ SweptInv'
    BY <1>2, <2>0 DEF IInv, SettledInv, SweptInv, Settled, Pending, Live, Store
  <2>5. \A n \in Names : Store(n)' = Store(n)
    BY <1>2 DEF Store
  <2>6. DurableInv' /\ Coherence'
    BY <1>2, <2>5
    DEF IInv, DurableInv, Coherence, CacheCoherent, ViewIsLatest, OthersUntouched,
        View, Pending, Cached, Live
  <2> QED BY <2>1, <2>2, <2>3, <2>4, <2>6 DEF IInv
<1> QED BY <1>1, <1>2 DEF FlushCreate

\* The flush writes one record, or finds <name>.NEW complete.
LEMMA FlushFillStep ==
  ASSUME IInv, FlushFill
  PROVE  IInv'
<1> DEFINE r == reu[RegionOf(s_name)]
<1>0. /\ s_name \in Names /\ Pending(s_name) /\ RegionOf(s_name) \in Regions
      /\ new[s_name] \in Contents /\ r \in Contents /\ IsPrefixOf(new[s_name], r)
      /\ s_name \notin damaged => r = written[s_name]
  BY DEF IInv, TypeOK, ControlInv, FlushInv, FlushFill, FlushPc, Pending, RegionOf,
         Regions, Fixed, Coherence, ViewIsLatest, View
<1>1. CASE FlushFails /\ UNCHANGED files
  BY <1>1, FlushFailsStep
  DEF IInv, TypeOK, ControlInv, DurableInv, FlushFill, FlushPc, files
<1>2. CASE /\ pc = "fill" /\ Len(new[s_name]) < Len(r)
           /\ new' = [new EXCEPT ![s_name] = Append(@, r[Len(@) + 1])]
           /\ UNCHANGED <<main, cache, handle, control, history>>
  <2> USE DEF cache, handle, control, history
  <2>0. new'[s_name] \in Contents /\ IsPrefixOf(new'[s_name], r)
    BY <1>0, <1>2, AppendNextIsPrefix
  <2>1. TypeOK'
    BY <1>2, <2>0 DEF IInv, TypeOK
  <2>2. ControlInv' /\ HandleInv'
    BY <1>2 DEF IInv, ControlInv, HandleInv, Cached
  <2>3. FlushInv'
    BY <1>2, <2>0, AbsentIsNoVersion DEF FlushInv
  <2>4. SettledInv' /\ SweptInv'
    BY <1>0, <1>2 DEF IInv, SettledInv, SweptInv, Settled, Pending, Live, Store
  <2>5. \A n \in Names : Store(n)' = IF n = s_name /\ main[n] = Absent
                                       THEN new'[n] ELSE Store(n)
    BY <1>2, <2>0, AbsentIsNoVersion DEF IInv, TypeOK, Store
  <2>6. DurableInv'
    BY <1>0, <1>2, <2>0, <2>5 DEF IInv, DurableInv
  <2>7. Coherence'
    BY <1>0, <1>2, <2>5
    DEF IInv, Coherence, CacheCoherent, ViewIsLatest, OthersUntouched, View, Pending,
        Cached, Live
  <2> QED BY <2>1, <2>2, <2>3, <2>4, <2>6, <2>7 DEF IInv
<1>3. CASE /\ pc = "fill" /\ Len(new[s_name]) = Len(r) /\ pc' = "swap"
           /\ UNCHANGED <<files, cache, handle, req, swept, history>>
  <2> USE DEF files, cache, handle, history
  <2>1. TypeOK' /\ ControlInv' /\ HandleInv'
    BY <1>3 DEF IInv, TypeOK, ControlInv, HandleInv, FlushPc, Cached
  <2>2. FlushInv'
    BY <1>0, <1>3, FullPrefixIsEqual DEF FlushInv
  <2>3. SettledInv' /\ SweptInv' /\ DurableInv'
    BY <1>3 DEF IInv, SettledInv, SweptInv, DurableInv, Settled, Pending, Store, Live
  <2>4. Coherence'
    BY <1>3
    DEF IInv, Coherence, CacheCoherent, ViewIsLatest, OthersUntouched, View, Pending,
        Cached, Live, Store
  <2> QED BY <2>1, <2>2, <2>3, <2>4 DEF IInv
<1> QED BY <1>1, <1>2, <1>3 DEF FlushFill

\* The flush scratches the live file.
LEMMA FlushScratchLiveStep ==
  ASSUME IInv, FlushScratchLive
  PROVE  IInv'
<1>0. pc = "swap" /\ s_name \in Names /\ Pending(s_name)
  BY DEF IInv, ControlInv, FlushPc, FlushScratchLive, Pending
<1>1. CASE FlushFails /\ new' = new
           /\ (main' = main \/ main' = [main EXCEPT ![s_name] = Absent])
  <2>1. main' \in [Names -> Contents \cup {Absent}]
    BY <1>1 DEF IInv, TypeOK
  <2>2. \A n \in Names \ {s_name} : main'[n] = main[n]
    BY <1>1 DEF IInv, TypeOK
  <2>3. main'[s_name] # Absent => main'[s_name] = main[s_name]
    BY <1>1 DEF IInv, TypeOK
  <2> QED BY <1>0, <1>1, FlushFailsStep DEF IInv, TypeOK, DurableInv, FlushPc
<1>2. CASE /\ pc' = "rename" /\ main' = [main EXCEPT ![s_name] = Absent]
           /\ UNCHANGED <<new, cache, handle, req, swept, history>>
  <2> USE DEF cache, handle, history
  <2>0. main'[s_name] = Absent /\ \A n \in Names \ {s_name} : main'[n] = main[n]
    BY <1>0, <1>2 DEF IInv, TypeOK
  <2>1. TypeOK'
    BY <1>2 DEF IInv, TypeOK
  <2>2. ControlInv' /\ HandleInv' /\ FlushInv'
    BY <1>0, <1>2, <2>0 DEF IInv, ControlInv, HandleInv, FlushInv, FlushPc, Cached
  <2>3. SettledInv' /\ SweptInv'
    BY <1>0, <1>2 DEF IInv, SettledInv, SweptInv, Settled, Pending, Live, Store
  <2>4. DurableInv'
    BY <1>0, <1>2 DEF IInv, DurableInv, Store
  <2>5. Coherence'
    BY <1>0, <1>2
    DEF IInv, Coherence, CacheCoherent, ViewIsLatest, OthersUntouched, View, Pending,
        Cached, Live, Store
  <2> QED BY <2>1, <2>2, <2>3, <2>4, <2>5 DEF IInv
<1> QED BY <1>1, <1>2 DEF FlushScratchLive, files

\* The flush renames <name>.NEW into place.
LEMMA FlushRenameStep ==
  ASSUME IInv, FlushRename
  PROVE  IInv'
<1>a. /\ pc = "rename" /\ s_name \in Names /\ Pending(s_name)
      /\ new[s_name] = reu[RegionOf(s_name)] /\ RegionOf(s_name) \in Regions
  BY DEF IInv, ControlInv, FlushInv, FlushPc, FlushRename, Pending, RegionOf, Regions,
         Fixed
<1>b. new[s_name] \in Contents
  BY <1>a DEF IInv, TypeOK
<1>c. s_name \notin damaged => new[s_name] = written[s_name]
  BY <1>a DEF IInv, Coherence, ViewIsLatest, View
<1>0. /\ pc = "rename" /\ s_name \in Names /\ Pending(s_name)
      /\ s_name \notin damaged => new[s_name] = written[s_name]
      /\ new[s_name] \in Contents /\ new[s_name] = reu[RegionOf(s_name)]
  BY <1>a, <1>b, <1>c
<1> DEFINE Renamed == /\ main' = [main EXCEPT ![s_name] = new[s_name]]
                      /\ new' = [new EXCEPT ![s_name] = Absent]
<1>1. ASSUME Renamed
      PROVE  /\ main' \in [Names -> Contents \cup {Absent}]
             /\ new' \in [Names -> Contents \cup {Absent}]
             /\ main'[s_name] = new[s_name] /\ new'[s_name] = Absent
             /\ \A n \in Names \ {s_name} : main'[n] = main[n] /\ new'[n] = new[n]
  BY <1>0, <1>1 DEF IInv, TypeOK
<1>2. CASE FlushFails /\ UNCHANGED files
  BY <1>0, <1>2, FlushFailsStep DEF IInv, TypeOK, DurableInv, FlushPc, files
<1>3. CASE FlushFails /\ Renamed
  BY <1>0, <1>1, <1>3, FlushFailsStep DEF FlushPc
<1>4. CASE /\ Renamed /\ s_dirty' = FALSE
           /\ IF req = NoName
                THEN pc' = "ready" /\ s_open' = FALSE /\ s_pos' = 0
                ELSE pc' = "open" /\ UNCHANGED <<s_open, s_pos>>
           /\ acked' = [acked EXCEPT ![s_name] = new[s_name]]
           /\ exposed' = exposed \ {s_name}
           /\ UNCHANGED <<cache, s_name, req, swept, written, damaged>>
  <2> USE DEF cache
  <2>0. acked'[s_name] = new[s_name]
        /\ \A n \in Names \ {s_name} : acked'[n] = acked[n]
    BY <1>0, <1>4 DEF IInv, TypeOK
  <2>1. TypeOK'
    BY <1>0, <1>1, <1>4, StartInRange DEF IInv, TypeOK
  <2>2. ControlInv' /\ HandleInv' /\ FlushInv'
    BY <1>4 DEF IInv, TypeOK, ControlInv, HandleInv, FlushInv, FlushPc
  <2>3. SettledInv' /\ SweptInv'
    BY <1>0, <1>1, <1>4, <2>0 DEF IInv, SettledInv, SweptInv, Settled, Pending, Live, Store
  <2>4. DurableInv'
    BY <1>0, <1>1, <1>4, <2>0, AbsentIsNoVersion DEF IInv, DurableInv, Store
  <2>5. CacheCoherent' /\ OthersUntouched'
    BY <1>0, <1>1, <1>4, AbsentIsNoVersion
    DEF IInv, Coherence, CacheCoherent, OthersUntouched, Pending, Cached, Live, Store
  <2>6. ViewIsLatest'
    BY <1>0, <1>1, <1>4, AbsentIsNoVersion
    DEF IInv, Coherence, ViewIsLatest, View, Pending, Cached, Live
  <2> QED BY <2>1, <2>2, <2>3, <2>4, <2>5, <2>6 DEF IInv, Coherence
<1> QED BY <1>2, <1>3, <1>4 DEF FlushRename

\* A reset leaves what the sweep would restore.
LEMMA CrashStep ==
  ASSUME IInv, Crash
  PROVE  IInv'
<1>1. TypeOK'
  <2>1. << >> \in Contents /\ \A n \in Names : Store(n) \in Contents
    BY EmptyInContents, StoreInContents DEF IInv
  <2>2. /\ reu' \in [Regions -> Contents]
        /\ written' \in [Names -> Contents]
        /\ acked' \in [Names -> Contents \cup {Absent}]
    BY <2>1 DEF Crash
  <2> QED BY <2>2, StartInRange DEF IInv, TypeOK, Crash, files
<1>2. ControlInv'
  BY DEF Crash, ControlInv, FlushPc
<1>3. HandleInv'
  BY DEF Crash, HandleInv
<1>4. FlushInv'
  BY DEF Crash, FlushInv
<1>5. SettledInv'
  BY DEF Crash, SettledInv, Settled, Live, Store
<1>6. SweptInv'
  BY DEF Crash, SweptInv, Live, Store
<1>7. DurableInv'
  BY DEF Crash, files, DurableInv, Store
<1>8. CacheCoherent'
  BY NamesAssumption DEF Crash, CacheCoherent, Cached
<1>9. ViewIsLatest'
  BY DEF Crash, ViewIsLatest
<1>10. OthersUntouched'
  BY DEF Crash, files, OthersUntouched, Store
<1> QED BY <1>1, <1>2, <1>3, <1>4, <1>5, <1>6, <1>7, <1>8, <1>9, <1>10
    DEF IInv, Coherence

\* The sweep restores one set.
LEMMA BootRecoverStep ==
  ASSUME IInv, BootRecover
  PROVE  IInv'
<1>1. TypeOK'
  <2>1. Sweep[swept + 1] \in Names /\ swept' \in 0..Len(Sweep)
    BY SMTT(20), NamesAssumption DEF IInv, TypeOK, BootRecover
  <2> QED BY <2>1 DEF IInv, TypeOK, BootRecover, Recovered, cache, handle
<1>2. ControlInv'
  BY DEF IInv, BootRecover, cache, handle, ControlInv
<1>3. HandleInv'
  BY DEF IInv, BootRecover, handle, ControlInv, HandleInv
<1>4. FlushInv'
  BY DEF BootRecover, FlushInv
<1>5. SettledInv'
  BY DEF BootRecover, SettledInv, Settled, Live, Store
<1>6. SweptInv'
  <2>1. Sweep[swept + 1] \in Names /\ swept \in Nat /\ swept' = swept + 1
        /\ \A i \in 1..swept : Sweep[i] \in Names
    <3>1. Sweep \in Seq(Names) /\ swept \in 0..Len(Sweep)
      BY NamesAssumption DEF IInv, TypeOK
    <3>2. swept < Len(Sweep) /\ swept' = swept + 1
      BY DEF BootRecover
    <3> QED BY <3>1, <3>2
  <2> PICK n \in Names : n = Sweep[swept + 1]
    BY <2>1
  <2>2. new'[n] = Absent /\ acked'[n] = main'[n]
    BY DEF IInv, TypeOK, BootRecover, Recovered
  <2>3. \A i \in 1..swept :
          /\ acked'[Sweep[i]] = main'[Sweep[i]]
          /\ Sweep[i] \notin damaged' => Live(Sweep[i])' = Store(Sweep[i])'
    <3> SUFFICES ASSUME NEW i \in 1..swept
                 PROVE  /\ acked'[Sweep[i]] = main'[Sweep[i]]
                        /\ Sweep[i] \notin damaged' => Live(Sweep[i])' = Store(Sweep[i])'
      OBVIOUS
    <3>1. CASE Sweep[i] = n
      BY <2>1, <2>2, <3>1 DEF Live, Store
    <3>2. CASE Sweep[i] # n
      <4>1. /\ main'[Sweep[i]] = main[Sweep[i]] /\ new'[Sweep[i]] = new[Sweep[i]]
            /\ acked'[Sweep[i]] = acked[Sweep[i]] /\ damaged' = damaged
        BY <2>1, <3>2 DEF IInv, TypeOK, BootRecover
      <4>2. /\ acked[Sweep[i]] = main[Sweep[i]]
            /\ Sweep[i] \notin damaged => Live(Sweep[i]) = Store(Sweep[i])
        BY DEF IInv, SweptInv, BootRecover
      <4> QED BY <4>1, <4>2 DEF Live, Store
    <3> QED BY <3>1, <3>2
  <2>4. Live(n)' = Store(n)'
    BY <2>2 DEF Live, Store
  <2>5. \A i \in 1..swept' : i \in 1..swept \/ i = swept + 1
    BY <2>1
  <2> QED BY <2>2, <2>3, <2>4, <2>5 DEF SweptInv
<1>7. DurableInv'
  BY DEF IInv, BootRecover, TypeOK, DurableInv
<1>8. CacheCoherent'
  BY NamesAssumption, RecordsAssumption
  DEF IInv, BootRecover, cache, handle, ControlInv, CacheCoherent, Cached
<1>9. ViewIsLatest'
  BY DEF BootRecover, ViewIsLatest
<1>10. OthersUntouched'
  BY DEF IInv, BootRecover, Recovered, TypeOK, ControlInv, Coherence, OthersUntouched,
         Pending, Store
<1> QED BY <1>1, <1>2, <1>3, <1>4, <1>5, <1>6, <1>7, <1>8, <1>9, <1>10
    DEF IInv, Coherence

\* A turn of the sweep that fails leaves the files as they were, or a damaged set.
LEMMA BootRecoverFailsStep ==
  ASSUME IInv, BootRecoverFails
  PROVE  IInv'
<1> PICK n \in Names : n = Sweep[swept + 1]
  BY SMTT(20), NamesAssumption DEF IInv, TypeOK, BootRecoverFails
<1> PICK left \in Misrecovered(n) :
      /\ main' = [main EXCEPT ![n] = left[1]]
      /\ new' = [new EXCEPT ![n] = left[2]]
      /\ acked' = [acked EXCEPT ![n] = left[1]]
      /\ damaged' = IF left[1] = Absent /\ new[n] # Absent
                       THEN damaged \cup {n} ELSE damaged
  BY DEF BootRecoverFails
<1>0. /\ pc = "boot" /\ swept \in 0..Len(Sweep) /\ swept < Len(Sweep)
      /\ swept' = swept + 1
      /\ UNCHANGED <<cache, handle, pc, req, written, exposed>>
  BY DEF IInv, TypeOK, BootRecoverFails
<1>1. left[1] = main[n] /\ left[2] \in {new[n], Absent}
  BY DEF Misrecovered
<1>2. main' = main /\ acked'[n] = main[n]
      /\ \A m \in Names \ {n} : new'[m] = new[m] /\ acked'[m] = acked[m]
  BY <1>1 DEF IInv, TypeOK
<1>3. ASSUME n \notin damaged'
      PROVE  Store(n)' = Store(n) /\ (main[n] # Absent \/ new[n] = Absent)
  <2>1. main[n] # Absent \/ new[n] = Absent
    BY <1>1, <1>3
  <2>2. new'[n] = left[2]
    BY DEF IInv, TypeOK
  <2> QED BY <1>1, <1>2, <2>1, <2>2 DEF Store
<1>4. \A m \in Names : m \notin damaged' => m \notin damaged /\ Store(m)' = Store(m)
  BY <1>2, <1>3 DEF Store
<1>5. TypeOK'
  <2>1. /\ left[1] \in Contents \cup {Absent} /\ left[2] \in Contents \cup {Absent}
        /\ swept' \in 0..Len(Sweep)
    BY <1>0, <1>1 DEF IInv, TypeOK
  <2> QED BY <1>0, <2>1 DEF IInv, TypeOK, cache, handle
<1>6. ControlInv' /\ HandleInv' /\ FlushInv' /\ SettledInv'
  BY <1>0 DEF IInv, cache, handle, ControlInv, HandleInv, FlushInv, SettledInv, Settled,
              FlushPc, Cached
<1>7. SweptInv'
  <2>1. \A i \in 1..swept : Sweep[i] \in Names
    BY <1>0, NamesAssumption
  <2>2. acked'[n] = main'[n] /\ (n \notin damaged' => Live(n)' = Store(n)')
    BY <1>1, <1>2, <1>3 DEF Live, Store
  <2>3. \A i \in 1..swept :
          /\ acked'[Sweep[i]] = main'[Sweep[i]]
          /\ Sweep[i] \notin damaged' => Live(Sweep[i])' = Store(Sweep[i])'
    BY <1>0, <1>2, <1>4, <2>1, <2>2 DEF IInv, SweptInv, Live
  <2> QED BY <1>0, <2>2, <2>3 DEF SweptInv
<1>8. DurableInv'
  BY <1>0, <1>2, <1>4 DEF IInv, DurableInv
<1>9. CacheCoherent' /\ ViewIsLatest'
  BY <1>0, NamesAssumption
  DEF IInv, cache, handle, ControlInv, CacheCoherent, ViewIsLatest, Cached
<1>10. OthersUntouched'
  BY <1>0, <1>4 DEF IInv, ControlInv, Coherence, OthersUntouched, Pending
<1> QED BY <1>5, <1>6, <1>7, <1>8, <1>9, <1>10 DEF IInv, Coherence

\* After the sweep no set has a <name>.NEW.
LEMMA BootDoneStep ==
  ASSUME IInv, BootDone
  PROVE  IInv'
<1>0. \A n \in Names : /\ acked[n] = main[n]
                       /\ n \notin damaged => Live(n) = Store(n)
  BY NamesAssumption DEF IInv, SweptInv, BootDone
<1>1. TypeOK'
  BY DEF IInv, BootDone, files, cache, handle, history, TypeOK
<1>2. ControlInv'
  BY DEF IInv, BootDone, handle, ControlInv, FlushPc
<1>3. HandleInv'
  BY DEF IInv, BootDone, handle, ControlInv, HandleInv
<1>4. FlushInv'
  BY DEF BootDone, FlushInv
<1>5. SettledInv'
  BY <1>0 DEF BootDone, SettledInv, files, history, Live, Store
<1>6. SweptInv'
  BY DEF BootDone, SweptInv, Live, Store
<1>7. DurableInv'
  BY <1>0, EmptyIsPrefix
  DEF IInv, TypeOK, BootDone, DurableInv, Live, Store, files, history
<1>8. CacheCoherent'
  BY DEF IInv, history, BootDone, files, cache, ControlInv, Coherence, CacheCoherent, Cached,
         Pending, Live
<1>9. ViewIsLatest'
  BY <1>0, NamesAssumption
  DEF IInv, ControlInv, Coherence, OthersUntouched, BootDone, ViewIsLatest, View,
      Pending, Cached, Live, Store, files, cache, handle, history
<1>10. OthersUntouched'
  BY DEF IInv, BootDone, files, history, ControlInv, Coherence, OthersUntouched,
         Pending, Store
<1> QED BY <1>1, <1>2, <1>3, <1>4, <1>5, <1>6, <1>7, <1>8, <1>9, <1>10
    DEF IInv, Coherence

-----------------------------------------------------------------------------
(* The theorems. *)

LEMMA StutterStep == ASSUME IInv, UNCHANGED vars PROVE IInv'
BY DEF vars, files, cache, handle, control, history, IInv, TypeOK, ControlInv,
       HandleInv, FlushInv, SettledInv, SweptInv, DurableInv, Coherence,
       CacheCoherent, ViewIsLatest, OthersUntouched, View, Settled, Pending, Cached,
       Live, Store

\* The code keeps everything IInv says, however the calls of rel.h, the failures
\* of the drive, the resets and the sweep are interleaved.
THEOREM Inductive == Spec => []IInv
<1>1. ASSUME IInv, [Next]_vars PROVE IInv'
  <2>1. CASE UNCHANGED vars
    BY <1>1, <2>1, StutterStep
  <2>2. CASE \E n \in Names : RelOpen(n)
    BY <1>1, <2>2, RelOpenStep
  <2>3. CASE OpenSelectFails \/ OpenSet
    BY <1>1, <2>3, OpenSelectFailsStep, OpenSetStep
  <2>4. CASE \E rec \in 1..(MaxRecs + 1) : RelPosition(rec)
    BY <1>1, <2>4, RelPositionStep
  <2>5. CASE \E v \in Vals : RelWrite(v)
    BY <1>1, <2>5, RelWriteStep
  <2>6. CASE RelRead \/ RelClose \/ RelReset
    BY <1>1, <2>6, RelReadStep, RelCloseStep, RelResetStep
  <2>7. CASE \/ FlushScratchTmp \/ FlushCreate \/ FlushFill
             \/ FlushScratchLive \/ FlushRename
    BY <1>1, <2>7, FlushScratchTmpStep, FlushCreateStep, FlushFillStep,
       FlushScratchLiveStep, FlushRenameStep
  <2>8. CASE Crash \/ BootRecover \/ BootRecoverFails \/ BootDone
    BY <1>1, <2>8, CrashStep, BootRecoverStep, BootRecoverFailsStep, BootDoneStep
  <2> QED BY <1>1, <2>1, <2>2, <2>3, <2>4, <2>5, <2>6, <2>7, <2>8 DEF Next
<1> QED BY InitIInv, <1>1, PTL DEF Spec

\* Every variable stays within the range of its C counterpart: no region outgrows
\* its capacity (rel_write's BBS_EFULL), no step of a flush indexes no set.
THEOREM TypeCorrect == Spec => []TypeOK
<1>1. IInv => TypeOK
  BY DEF IInv
<1> QED BY Inductive, <1>1, PTL

\* A resident clean set that is not damaged equals its file: rel_open() may skip
\* region_load().
THEOREM CacheIsCoherent == Spec => []CacheCoherent
<1>1. IInv => CacheCoherent
  BY DEF IInv, Coherence
<1> QED BY Inductive, <1>1, PTL

\* What rel_open() will serve is what was last written, failed saves included, of
\* every set that neither a sweep that failed nor a load cut short has damaged.
THEOREM ViewIsAlwaysLatest == Spec => []ViewIsLatest
<1>1. IInv => ViewIsLatest
  BY DEF IInv, Coherence
<1> QED BY Inductive, <1>1, PTL

\* Saving one set, or failing to, never changes another on the drive, nor does the
\* sweep, its own failures on that other set apart (damaged).
THEOREM OthersStayUntouched == Spec => []OthersUntouched
<1>1. IInv => OthersUntouched
  BY DEF IInv, Coherence
<1> QED BY Inductive, <1>1, PTL

\* A reset at any moment leaves a set that is not exposed or damaged in its old or new
\* version, or in a prefix of the first one it ever had.
THEOREM SavesAreDurable == Spec => []Durable
<1>1. IInv => Durable
  <2> SUFFICES ASSUME IInv, NEW n \in Names \ (exposed \cup damaged)
               PROVE  \/ Store(n) \in {acked[n], written[n]}
                      \/ acked[n] = Absent /\ IsPrefixOf(Store(n), written[n])
    BY DEF Durable
  <2>1. CASE main[n] # Absent
    BY <2>1 DEF IInv, DurableInv, Store
  <2>2. CASE pc = "boot"
    BY <2>2 DEF IInv, ControlInv, Coherence, OthersUntouched, Pending
  <2>3. CASE pc = "rename" /\ n = s_name
    <3>1. Pending(n) /\ new[n] = reu[RegionOf(n)]
      BY <2>3 DEF IInv, ControlInv, FlushInv, FlushPc, Pending
    <3>2. new[n] = written[n] /\ new[n] # Absent
      BY <2>3, <3>1, AbsentIsNoVersion DEF IInv, TypeOK, Coherence, ViewIsLatest, View
    <3> QED BY <3>2, <2>1 DEF Store
  <2> QED BY <2>1, <2>2, <2>3 DEF IInv, DurableInv
<1> QED BY Inductive, <1>1, PTL

-----------------------------------------------------------------------------
(* RelSeq implements RecordStore: every step of the calls, of the drive and of *)
(* the sweep is a step of the abstract store, or one its callers do not see.   *)

\* No scratch of the live file and no rename of a save or of the sweep fails
\* half-way, no probe of the sweep fails, and no load is cut short: the faults
\* that leave a set without its live file, or show its callers less than it.
NoSwapFaults == Faults \cap {"read", "rename", "reply", "probe"} = {}

\* Without them a set that has been saved lacks its live file only while it is
\* renamed into place; after a reset there, the sweep finds the whole <name>.NEW.
SwapInv ==
  /\ damaged = {}
  /\ \A n \in Names : acked[n] # Absent /\ main[n] = Absent =>
       new[n] # Absent /\ (pc # "boot" => pc = "rename" /\ n = s_name)

\* A step that changes no set's saved version, content or standing is invisible.
LEMMA InvisibleStep ==
  ASSUME written' = written,
         \A n \in Names : Store(n)' = Store(n),
         \A n \in Names : (acked[n] # Absent)' <=> acked[n] # Absent
  PROVE  UNCHANGED R!svars
<1>1. [n \in Names |-> Store(n)]' = [n \in Names |-> Store(n)]
  OBVIOUS
<1>2. [n \in Names |-> acked[n] # Absent]' = [n \in Names |-> acked[n] # Absent]
  OBVIOUS
<1> QED BY <1>1, <1>2 DEF R!svars

\* A step in which one set's saved version becomes what its caller wrote.
LEMMA SaveStep ==
  ASSUME NEW n \in Names,
         written' = written,
         Store(n)' = written[n],
         \A m \in Names \ {n} : Store(m)' = Store(m),
         \A m \in Names \ {n} : (acked[m] # Absent)' <=> acked[m] # Absent,
         acked[n] # Absent => (acked[n] # Absent)'
  PROVE  R!Save(n)
<1>1. [m \in Names |-> Store(m)]'
        = [[m \in Names |-> Store(m)] EXCEPT ![n] = written[n]]
  OBVIOUS
<1>2. [m \in Names |-> acked[m] # Absent]'
        \in {[m \in Names |-> acked[m] # Absent],
             [[m \in Names |-> acked[m] # Absent] EXCEPT ![n] = TRUE]}
  OBVIOUS
<1> QED BY <1>1, <1>2 DEF R!Save

\* One in which the set has never been saved, and a prefix of it is left.
LEMMA FirstSaveStep ==
  ASSUME NEW n \in Names, NEW k \in 0..Len(written[n]),
         acked[n] = Absent,
         written' = written, acked' = acked,
         Store(n)' = SubSeq(written[n], 1, k),
         \A m \in Names \ {n} : Store(m)' = Store(m)
  PROVE  R!FirstSave(n)
<1>1. [m \in Names |-> Store(m)]'
        = [[m \in Names |-> Store(m)] EXCEPT ![n] = SubSeq(written[n], 1, k)]
  OBVIOUS
<1>2. [m \in Names |-> acked[m] # Absent]' = [m \in Names |-> acked[m] # Absent]
  OBVIOUS
<1>3. ~[m \in Names |-> acked[m] # Absent][n]
  OBVIOUS
<1> QED BY <1>1, <1>2, <1>3 DEF R!FirstSave

\* What a flush streams is what the caller has written to the set.
LEMMA FlushedIsWritten ==
  ASSUME IInv, SwapInv, pc \in FlushPc
  PROVE  /\ s_name \in Names /\ s_dirty
         /\ RegionOf(s_name) \in Regions
         /\ reu[RegionOf(s_name)] = written[s_name]
         /\ written[s_name] \in Contents
<1>1. s_name \in Names /\ s_dirty /\ pc # "boot"
  BY DEF IInv, ControlInv, FlushPc
<1>2. View(s_name) = written[s_name] /\ View(s_name) = reu[RegionOf(s_name)]
  BY <1>1 DEF IInv, SwapInv, Coherence, ViewIsLatest, View, Pending
<1> QED BY <1>1, <1>2 DEF IInv, TypeOK, RegionOf, Regions, Fixed

\* The prefix that one more record makes of <name>.NEW.
LEMMA AppendNextIsSubSeq ==
  ASSUME NEW s \in Contents, NEW t \in Contents,
         IsPrefixOf(s, t), Len(s) < Len(t)
  PROVE  Append(s, t[Len(s) + 1]) = SubSeq(t, 1, Len(s) + 1)
<1> DEFINE k == Len(s) + 1
           a == Append(s, t[k])
           b == SubSeq(t, 1, k)
<1>1. s \in Seq(Rec) /\ t \in Seq(Rec) /\ Len(s) \in Nat /\ Len(t) \in Nat
      /\ k \in 1..Len(t) /\ t[k] \in Rec
  BY DEF Contents
<1>2. a \in Seq(Rec) /\ Len(a) = k
  BY <1>1
<1>3. \A i \in 1..k : a[i] = t[i]
  BY <1>1 DEF IsPrefixOf
<1>4. b \in Seq(Rec) /\ Len(b) = k /\ \A i \in 1..k : b[i] = t[i]
  BY <1>1
<1> QED BY <1>2, <1>3, <1>4

-----------------------------------------------------------------------------
(* SwapInv is kept. *)

LEMMA InitSwapInv == Init => SwapInv
BY DEF Init, SwapInv

\* What can still fail in the sweep is the scratch of a stale <name>.NEW.
LEMMA RefusedScratchOnly ==
  ASSUME NoSwapFaults, IInv, BootRecoverFails,
         NEW n \in Names, n = Sweep[swept + 1]
  PROVE  /\ main[n] # Absent /\ UNCHANGED <<main, new, written, damaged>>
         /\ acked' = [acked EXCEPT ![n] = main[n]]
<1>1. "probe" \notin Faults /\ "rename" \notin Faults
  BY DEF NoSwapFaults
<1> PICK left \in Misrecovered(n) :
      /\ main' = [main EXCEPT ![n] = left[1]]
      /\ new' = [new EXCEPT ![n] = left[2]]
      /\ acked' = [acked EXCEPT ![n] = left[1]]
      /\ damaged' = IF left[1] = Absent /\ new[n] # Absent
                       THEN damaged \cup {n} ELSE damaged
  BY DEF BootRecoverFails
<1>2. main[n] # Absent /\ left = <<main[n], new[n]>>
  BY <1>1 DEF Misrecovered
<1>3. left[1] = main[n] /\ left[2] = new[n]
  BY <1>2
<1> QED BY <1>2, <1>3 DEF BootRecoverFails, IInv, TypeOK

LEMMA SwapInvStep ==
  ASSUME NoSwapFaults, IInv, IInv', SwapInv, [Next]_vars
  PROVE  SwapInv'
<1> USE DEF SwapInv
<1>1. CASE UNCHANGED <<files, pc, s_name, acked, damaged>>
  BY <1>1 DEF files
<1>2. CASE \/ \E n \in Names : RelOpen(n)
           \/ OpenSelectFails
           \/ \E rec \in 1..(MaxRecs + 1) : RelPosition(rec)
           \/ RelRead
           \/ \E v \in Vals : RelWrite(v)
           \/ RelClose \/ RelReset
  BY <1>2 DEF RelOpen, OpenSelectFails, OpenSet, RelPosition, RelRead, RelWrite,
              RelClose, RelReset, files, control, history, handle
<1>12. CASE OpenSet
  <2>1. \A n \in Names : Loaded(n) = {Live(n)}
    BY DEF Loaded, NoSwapFaults
  <2>2. req \in Names
    BY <1>12 DEF OpenSet, IInv, ControlInv
  <2>3. pc = "open" /\ pc' = "ready" /\ UNCHANGED <<main, new, acked, damaged>>
    BY <1>12, <2>1, <2>2 DEF OpenSet, files
  <2> QED BY <2>3
<1>3. CASE FlushScratchTmp
  BY <1>3 DEF FlushScratchTmp, handle, history, IInv, TypeOK
<1>4. CASE FlushCreate
  BY <1>4 DEF FlushCreate, FlushFails, files, handle, history, IInv, TypeOK
<1>5. CASE FlushFill
  BY <1>5 DEF FlushFill, FlushFails, files, handle, history, control, IInv, TypeOK
<1>6. CASE FlushScratchLive
  <2>1. pc = "swap" /\ new[s_name] # Absent
    BY <1>6, FlushedIsWritten, AbsentIsNoVersion
    DEF FlushScratchLive, IInv, FlushInv, FlushPc
  <2>2. CASE UNCHANGED <<main, new, acked, damaged>>
    BY <2>1, <2>2
  <2>3. CASE /\ main' = [main EXCEPT ![s_name] = Absent] /\ pc' = "rename"
             /\ UNCHANGED <<new, s_name, acked, damaged>>
    BY <2>1, <2>3 DEF IInv, TypeOK
  <2> QED BY <1>6, <2>2, <2>3
      DEF FlushScratchLive, FlushFails, NoSwapFaults, files, handle, history
<1>7. CASE FlushRename
  BY <1>7 DEF FlushRename, NoSwapFaults, IInv, FlushInv, TypeOK
<1>8. CASE Crash
  BY <1>8 DEF Crash, files
<1>9. CASE BootRecover
  BY <1>9 DEF BootRecover, Recovered, IInv, TypeOK
<1>10. CASE BootDone
  <2>1. \A n \in Names : acked[n] = main[n]
    BY <1>10, NamesAssumption DEF BootDone, IInv, SweptInv
  <2> QED BY <1>10, <2>1 DEF BootDone, files, history
<1>11. CASE BootRecoverFails
  <2> PICK n \in Names : n = Sweep[swept + 1]
    BY <1>11, SMTT(20), NamesAssumption DEF BootRecoverFails, IInv, TypeOK
  <2>1. /\ main[n] # Absent /\ UNCHANGED <<main, new, written, damaged>>
        /\ acked' = [acked EXCEPT ![n] = main[n]]
    BY <1>11, RefusedScratchOnly
  <2> QED BY <1>11, <2>1 DEF BootRecoverFails, IInv, TypeOK
<1> QED BY <1>1, <1>2, <1>3, <1>4, <1>5, <1>6, <1>7, <1>8, <1>9, <1>10, <1>11, <1>12
    DEF Next, vars, files, control, handle, history

-----------------------------------------------------------------------------
(* Each step of RelSeq is a step of RecordStore or invisible. *)

\* The abstract store starts with the files the drive starts with.
LEMMA InitIsStoreInit == Init => R!Init
<1> SUFFICES ASSUME Init PROVE R!Init
  OBVIOUS
<1>1. \A n \in Names : Store(n) = << >>
  BY DEF Init, Store
<1>2. [n \in Names |-> Store(n)] = [n \in Names |-> << >>]
  BY <1>1
<1>3. [n \in Names |-> acked[n] # Absent] \in [Names -> BOOLEAN]
  OBVIOUS
<1> QED BY <1>2, <1>3 DEF Init, R!Init

\* The caller's side, rel_write() apart, and the end of the sweep.
LEMMA QuietStep ==
  ASSUME UNCHANGED <<main, new, written, acked>>
  PROVE  UNCHANGED R!svars
<1>1. \A n \in Names : Store(n)' = Store(n)
  BY DEF Store
<1>2. \A n \in Names : (acked[n] # Absent)' <=> acked[n] # Absent
  OBVIOUS
<1> QED BY <1>1, <1>2, InvisibleStep

\* rel_write() edits a set while every other one is as saved.
LEMMA WriteIsEdit ==
  ASSUME IInv, SwapInv, NEW v \in Vals, RelWrite(v)
  PROVE  \E n \in Names, i \in 1..MaxRecs : R!Edit(n, i, v)
<1> PICK n \in Names, i \in 1..MaxRecs : n = s_name /\ i = s_pos
  BY RecordsAssumption DEF IInv, TypeOK, ControlInv, RelWrite
<1>2. \A m \in Names \ {n} : written[m] = [k \in Names |-> Store(k)][m]
  BY DEF IInv, SwapInv, Coherence, OthersUntouched, Pending
<1>3. written' = [written EXCEPT ![n] = R!Put(@, i, v)]
  BY DEF RelWrite, PutRec, R!Put
<1>4. [m \in Names |-> Store(m)]' = [m \in Names |-> Store(m)]
  BY DEF RelWrite, files, Store
<1>5. [m \in Names |-> acked[m] # Absent]' = [m \in Names |-> acked[m] # Absent]
  BY DEF RelWrite
<1> QED BY <1>2, <1>3, <1>4, <1>5 DEF R!Edit

\* While <name>.NEW is made, what a reset would leave changes only for a set
\* that has no live file, because it has never been saved.
LEMMA ScratchTmpSimulated ==
  ASSUME IInv, SwapInv, FlushScratchTmp
  PROVE  (\E n \in Names : R!FirstSave(n)) \/ UNCHANGED R!svars
<1> PICK n \in Names : n = s_name
  BY FlushedIsWritten DEF FlushScratchTmp, FlushPc
<1>1. written[n] \in Contents
  BY FlushedIsWritten DEF FlushScratchTmp, FlushPc
<1>2. UNCHANGED <<main, written, acked>> /\ (\A m \in Names \ {n} : new'[m] = new[m])
  BY DEF FlushScratchTmp, history, IInv, TypeOK
<1>3. \A m \in Names \ {n} : Store(m)' = Store(m)
  BY <1>2 DEF Store
<1>4. CASE main[n] # Absent
  <2>1. Store(n)' = Store(n)
    BY <1>2, <1>4 DEF Store
  <2> QED BY <1>2, <1>3, <2>1, InvisibleStep
<1>5. CASE UNCHANGED new
  BY <1>2, <1>5, QuietStep
<1>6. CASE main[n] = Absent /\ new' = [new EXCEPT ![n] = Absent]
  <2>1. acked[n] = Absent
    BY <1>1, <1>6 DEF SwapInv, FlushScratchTmp
  <2>2. Store(n)' = << >>
    BY <1>1, <1>2, <1>6 DEF Store, IInv, TypeOK
  <2>3. 0 \in 0..Len(written[n]) /\ SubSeq(written[n], 1, 0) = << >>
    BY <1>1 DEF Contents
  <2> QED BY <1>1, <1>2, <1>3, <2>1, <2>2, <2>3, FirstSaveStep
<1> QED BY <1>4, <1>5, <1>6 DEF FlushScratchTmp

\* An empty <name>.NEW is worth no more than a missing one.
LEMMA CreateSimulated ==
  ASSUME IInv, SwapInv, FlushCreate
  PROVE  UNCHANGED R!svars
<1> PICK n \in Names : n = s_name
  BY FlushedIsWritten DEF FlushCreate, FlushPc
<1>2. UNCHANGED <<main, written, acked>>
  BY DEF FlushCreate, FlushFails, files, history
<1>3. CASE new[n] = Absent /\ new' = [new EXCEPT ![n] = << >>]
  <2>1. << >> # Absent
    BY EmptyInContents, AbsentIsNoVersion
  <2>2. \A m \in Names : Store(m)' = Store(m)
    BY <1>2, <1>3, <2>1 DEF Store, IInv, TypeOK
  <2> QED BY <1>2, <2>2, InvisibleStep
<1>4. CASE UNCHANGED new
  BY <1>2, <1>4, QuietStep
<1> QED BY <1>3, <1>4 DEF FlushCreate, files

\* Every record that follows is one more of a first save.
LEMMA FillSimulated ==
  ASSUME IInv, SwapInv, FlushFill
  PROVE  (\E n \in Names : R!FirstSave(n)) \/ UNCHANGED R!svars
<1> PICK n \in Names : n = s_name
  BY FlushedIsWritten DEF FlushFill, FlushPc
<1> DEFINE r == reu[RegionOf(n)]
           t == new[n]
<1>1. /\ r = written[n] /\ r \in Contents
      /\ t \in Contents /\ IsPrefixOf(t, r)
  BY FlushedIsWritten DEF FlushFill, FlushPc, IInv, TypeOK, FlushInv
<1>2. UNCHANGED <<main, written, acked>>
  BY DEF FlushFill, FlushFails, files, history
<1>3. CASE UNCHANGED new
  BY <1>2, <1>3, QuietStep
<1>4. CASE Len(t) < Len(r) /\ new' = [new EXCEPT ![n] = Append(t, r[Len(t) + 1])]
  <2>1. \A m \in Names \ {n} : Store(m)' = Store(m)
    BY <1>2, <1>4 DEF Store, IInv, TypeOK
  <2>2. CASE main[n] # Absent
    <3>1. Store(n)' = Store(n)
      BY <1>2, <2>2 DEF Store
    <3> QED BY <1>2, <2>1, <3>1, InvisibleStep
  <2>3. CASE main[n] = Absent
    <3>1. acked[n] = Absent
      BY <1>1, <2>3 DEF SwapInv, FlushFill
    <3>2. /\ Append(t, r[Len(t) + 1]) = SubSeq(r, 1, Len(t) + 1)
          /\ Append(t, r[Len(t) + 1]) \in Contents
      BY <1>1, <1>4, AppendNextIsSubSeq, AppendNextIsPrefix
    <3>3. Len(t) + 1 \in 0..Len(written[n])
      BY <1>1, <1>4 DEF Contents
    <3>4. new'[n] = SubSeq(written[n], 1, Len(t) + 1) /\ new'[n] # Absent
      BY <1>1, <1>4, <3>2, AbsentIsNoVersion DEF IInv, TypeOK
    <3>5. Store(n)' = SubSeq(written[n], 1, Len(t) + 1)
      BY <1>2, <2>3, <3>4 DEF Store
    <3> QED BY <1>1, <1>2, <2>1, <3>1, <3>3, <3>5, FirstSaveStep
  <2> QED BY <2>2, <2>3
<1> QED BY <1>3, <1>4 DEF FlushFill, files

\* The scratch of the live file is where a save takes effect: <name>.NEW is
\* complete, and from here on the sweep would promote it.
LEMMA ScratchLiveSimulated ==
  ASSUME NoSwapFaults, IInv, SwapInv, FlushScratchLive
  PROVE  (\E n \in Names : R!Save(n)) \/ UNCHANGED R!svars
<1> PICK n \in Names : n = s_name
  BY FlushedIsWritten DEF FlushScratchLive, FlushPc
<1>1. /\ new[n] = written[n]
      /\ new[n] # Absent
  BY FlushedIsWritten, AbsentIsNoVersion
  DEF FlushScratchLive, FlushPc, IInv, FlushInv
<1>2. CASE UNCHANGED <<main, new, written, acked>>
  BY <1>2, QuietStep
<1>3. CASE /\ main' = [main EXCEPT ![n] = Absent]
           /\ UNCHANGED <<new, written, acked>>
  <2>1. \A m \in Names \ {n} : Store(m)' = Store(m)
    BY <1>3 DEF Store, IInv, TypeOK
  <2>2. Store(n)' = written[n]
    BY <1>1, <1>3 DEF Store, IInv, TypeOK
  <2> QED BY <1>1, <1>3, <2>1, <2>2, SaveStep
<1> QED BY <1>2, <1>3
    DEF FlushScratchLive, FlushFails, NoSwapFaults, files, history

\* The rename moves the saved version, and is where a first save takes effect.
LEMMA RenameSimulated ==
  ASSUME NoSwapFaults, IInv, SwapInv, FlushRename
  PROVE  \E n \in Names : R!Save(n)
<1> PICK n \in Names : n = s_name
  BY FlushedIsWritten DEF FlushRename, FlushPc
<1>1. /\ new[n] = written[n]
      /\ new[n] # Absent
  BY FlushedIsWritten, AbsentIsNoVersion
  DEF FlushRename, FlushPc, IInv, FlushInv
<1>2. /\ main' = [main EXCEPT ![n] = new[n]]
      /\ new' = [new EXCEPT ![n] = Absent]
      /\ acked' = [acked EXCEPT ![n] = new[n]]
      /\ UNCHANGED written
  BY DEF FlushRename, NoSwapFaults
<1>3. \A m \in Names \ {n} : Store(m)' = Store(m)
  BY <1>2 DEF Store, IInv, TypeOK
<1>4. Store(n)' = written[n]
  BY <1>1, <1>2 DEF Store, IInv, TypeOK
<1>5. \A m \in Names \ {n} : (acked[m] # Absent)' <=> acked[m] # Absent
  BY <1>2 DEF IInv, TypeOK
<1>6. (acked[n] # Absent)'
  BY <1>1, <1>2 DEF IInv, TypeOK
<1> QED BY <1>1, <1>2, <1>3, <1>4, <1>5, <1>6, SaveStep

\* A reset of the machine is a reset of the store.
LEMMA CrashIsReset ==
  ASSUME IInv, Crash
  PROVE  R!Reset
<1>1. written' = [n \in Names |-> Store(n)]
  BY DEF Crash
<1>2. [n \in Names |-> Store(n)]' = [n \in Names |-> Store(n)]
  BY DEF Crash, files, Store
<1>3. \A n \in Names : Store(n) # Absent
  BY StoreInContents, AbsentIsNoVersion DEF IInv
<1>4. \A n \in Names : (acked[n] # Absent)' <=> acked[n] # Absent
  BY <1>3 DEF Crash
<1>5. [n \in Names |-> acked[n] # Absent]' = [n \in Names |-> acked[n] # Absent]
  BY <1>4
<1> QED BY <1>1, <1>2, <1>5 DEF R!Reset

\* A turn of the sweep changes no saved version; it may find the beginning of a
\* set that was being saved for the first time, and keep it.
LEMMA RecoverSimulated ==
  ASSUME IInv, SwapInv, BootRecover
  PROVE  \/ \E n \in Names : R!Adopt(n)
         \/ UNCHANGED R!svars
<1> PICK n \in Names : n = Sweep[swept + 1]
  BY SMTT(20), NamesAssumption DEF BootRecover, IInv, TypeOK
<1>2. /\ main' = [main EXCEPT ![n] = Recovered(n)[1]]
      /\ new' = [new EXCEPT ![n] = Recovered(n)[2]]
      /\ acked' = [acked EXCEPT ![n] = Recovered(n)[1]]
      /\ written' = written
  BY DEF BootRecover
<1>3. \A m \in Names : Store(m)' = Store(m)
  BY <1>2 DEF Store, Recovered, IInv, TypeOK
<1>4. \A m \in Names \ {n} : (acked[m] # Absent)' <=> acked[m] # Absent
  BY <1>2 DEF IInv, TypeOK
<1>5. acked[n] # Absent => (acked[n] # Absent)'
  BY <1>2 DEF SwapInv, Recovered, IInv, TypeOK
<1>6. CASE (acked[n] # Absent)' <=> acked[n] # Absent
  <2>1. \A m \in Names : (acked[m] # Absent)' <=> acked[m] # Absent
    BY <1>4, <1>6
  <2> QED BY <1>2, <1>3, <2>1, InvisibleStep
<1>7. CASE acked[n] = Absent /\ (acked[n] # Absent)'
  <2>1. written[n] = [m \in Names |-> Store(m)][n]
    BY DEF BootRecover, IInv, SwapInv, ControlInv, Coherence, OthersUntouched, Pending
  <2>2. [m \in Names |-> Store(m)]' = [m \in Names |-> Store(m)]
    BY <1>3
  <2>3. [m \in Names |-> acked[m] # Absent]'
          = [[m \in Names |-> acked[m] # Absent] EXCEPT ![n] = TRUE]
    BY <1>4, <1>7
  <2> QED BY <1>2, <2>1, <2>2, <2>3 DEF R!Adopt
<1> QED BY <1>5, <1>6, <1>7

\* So does a turn in which only the scratch of <name>.NEW is refused.
LEMMA RecoverFailsSimulated ==
  ASSUME NoSwapFaults, IInv, SwapInv, BootRecoverFails
  PROVE  \/ \E n \in Names : R!Adopt(n)
         \/ UNCHANGED R!svars
<1> PICK n \in Names : n = Sweep[swept + 1]
  BY SMTT(20), NamesAssumption DEF BootRecoverFails, IInv, TypeOK
<1>1. /\ main[n] # Absent /\ UNCHANGED <<main, new, written>>
      /\ acked' = [acked EXCEPT ![n] = main[n]]
  BY RefusedScratchOnly
<1>2. \A m \in Names : Store(m)' = Store(m)
  BY <1>1 DEF Store
<1>3. [m \in Names |-> Store(m)]' = [m \in Names |-> Store(m)]
  BY <1>2
<1>4. (\A m \in Names \ {n} : acked'[m] = acked[m]) /\ acked'[n] # Absent
  BY <1>1 DEF IInv, TypeOK
<1>5. [m \in Names |-> acked[m] # Absent]'
        = [[m \in Names |-> acked[m] # Absent] EXCEPT ![n] = TRUE]
  BY <1>4
<1>6. written[n] = [m \in Names |-> Store(m)][n]
  BY DEF BootRecoverFails, IInv, SwapInv, ControlInv, Coherence, OthersUntouched,
         Pending
<1> QED BY <1>1, <1>3, <1>5, <1>6 DEF R!Adopt

\* The step simulation.
LEMMA NextSimulated ==
  ASSUME NoSwapFaults, IInv, SwapInv, [Next]_vars
  PROVE  [R!Next]_(R!svars)
<1>1. CASE UNCHANGED vars
  BY <1>1, QuietStep DEF vars, files, history
<1>2. CASE \/ \E n \in Names : RelOpen(n)
           \/ OpenSelectFails \/ OpenSet
           \/ \E rec \in 1..(MaxRecs + 1) : RelPosition(rec)
           \/ RelRead \/ RelClose \/ RelReset \/ BootDone
  <2>1. UNCHANGED <<main, new, written, acked>>
    BY <1>2 DEF RelOpen, OpenSelectFails, OpenSet, RelPosition, RelRead, RelClose,
                RelReset, BootDone, files, history
  <2> QED BY <2>1, QuietStep
<1>3. CASE \E v \in Vals : RelWrite(v)
  BY <1>3, WriteIsEdit DEF R!Next
<1>4. CASE FlushScratchTmp \/ FlushFill
  BY <1>4, ScratchTmpSimulated, FillSimulated DEF R!Next
<1>5. CASE FlushCreate
  BY <1>5, CreateSimulated
<1>6. CASE FlushScratchLive \/ FlushRename
  BY <1>6, ScratchLiveSimulated, RenameSimulated DEF R!Next
<1>7. CASE Crash
  BY <1>7, CrashIsReset DEF R!Next
<1>8. CASE BootRecover \/ BootRecoverFails
  BY <1>8, RecoverSimulated, RecoverFailsSimulated DEF R!Next
<1> QED BY <1>1, <1>2, <1>3, <1>4, <1>5, <1>6, <1>7, <1>8 DEF Next

\* rel_seq.c keeps the promise of RecordStore as long as no rename is refused, no
\* reply is lost, no load is cut short and the sweep's probes are answered: a save
\* takes effect as a whole and at one disk operation, whatever else fails, in the
\* save or in the sweep, and wherever the machine is reset.
THEOREM SavesAreAtomic == NoSwapFaults => (Spec => AtomicSaves)
<1> SUFFICES ASSUME NoSwapFaults PROVE Spec => AtomicSaves
  OBVIOUS
<1>1. Init => SwapInv
  BY InitSwapInv
<1>2. ASSUME IInv, IInv', SwapInv, [Next]_vars PROVE SwapInv'
  BY <1>2, SwapInvStep
<1>3. Spec => []SwapInv
  BY Inductive, <1>1, <1>2, PTL DEF Spec
<1>4. ASSUME IInv, SwapInv, [Next]_vars PROVE [R!Next]_(R!svars)
  BY <1>4, NextSimulated
<1>5. Init => R!Init
  BY InitIsStoreInit
<1> QED BY Inductive, <1>3, <1>4, <1>5, PTL DEF Spec, AtomicSaves, R!Spec
=============================================================================
