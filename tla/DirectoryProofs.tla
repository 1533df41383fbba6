--------------------------- MODULE DirectoryProofs ---------------------------
(***************************************************************************)
(* Theorems about Directory, for any numbers of boards, areas, polls,      *)
(* doors, entries and failures.                                            *)
(*                                                                         *)
(* A step that touches the record sets writes one slot, once or twice      *)
(* (Wrote), and may stop anywhere on the way.  A number once given to a    *)
(* board, an area or a poll stays with it: in the set as read, in what a   *)
(* reset leaves, and from the one to the other (Grows).  What is kept      *)
(* under the number of a board or an area, and what the SysOp was told of  *)
(* it, therefore always mean the same entry (ContentInv, SaidInv).  A slot *)
(* of doors is given again, but only when those it was given to are gone   *)
(* (SaidForm).  The lists rank the live entries without a tie (BoardRankIs,*)
(* NumberRank), and a rank is in one place of the pages (OnePlace).        *)
(***************************************************************************)
EXTENDS Directory, Integers, FiniteSetTheorems, WellFoundedInduction, TLAPS

\* The record sets, and what calls come to.
Views ==
  {v \in [Kinds -> UNION {[Slots(k) -> Entries(k)] : k \in Kinds}] :
     \A k \in Kinds : v[k] \in [Slots(k) -> Entries(k)]}
Outcomes == [view : Views, disk : Views, fails : 0 .. MaxFaults, ok : BOOLEAN]
Put(v, k, i, r) == [v EXCEPT ![k][i] = r]

\* An entry is where it was put.
Fits(r, k, i, n, pl) == r.born # 0 => r.born \in 1 .. n /\ pl[r.born] = <<k, i>>
Placed(v, n, pl) == \A k \in Kinds : \A i \in Slots(k) : Fits(v[k][i], k, i, n, pl)

Places == UNION {{k} \X Slots(k) : k \in Kinds}

SetsTyped ==
  /\ view \in Views /\ disk \in Views /\ fails \in 0 .. MaxFaults
  /\ Placed(view, next, place) /\ Placed(disk, next, place)
  /\ next \in Serials /\ place \in [1 .. MaxEntries -> {<< >>} \cup Places]
  /\ \A s \in 1 .. next : place[s] \in Places
ContentTyped ==
  /\ index \in [Slots("boards") -> Serials] /\ bodies \in [Slots("boards") -> Serials]
  /\ pointers \in [Slots("boards") -> Serials] /\ entries \in [Slots("areas") -> Serials]
FormTyped ==
  /\ at \in {"off", "menu", "board", "door"} /\ how \in {"none", "new", "old"}
  /\ tag \in {"", "tag"}
  /\ at = "board" => /\ form \in BoardRecords /\ form.born \in 1 .. next
                     /\ id \in Slots("boards") /\ place[form.born] = <<"boards", id>>
  /\ at = "door" => /\ form \in AreaRecords /\ form.born \in 1 .. next
                    /\ id \in Slots("doors") /\ place[form.born] = <<"doors", id>>

\* Numbers that are never given again.
Numbered == {"boards", "areas", "polls"}
Grows(v, w) ==
  \A k \in Numbered : \A i \in Slots(k) : v[k][i].born \in {0, w[k][i].born}

ContentInv ==
  /\ Grows(disk, view)
  /\ \A b \in Slots("boards") :
       {index[b], bodies[b], pointers[b]} \subseteq {0, disk.boards[b].born}
  /\ \A a \in Slots("areas") : entries[a] \in {0, disk.areas[a].born}
FormKept == at = "board" => view.boards[id].born = form.born

TypeInv == SetsTyped /\ ContentTyped /\ FormTyped
Inv == TypeInv /\ ContentInv /\ FormKept

\* A step writes one slot, with r, or with q and then r.
Wrote(k, i, q, r) ==
  <<disk', view'>> \in
    {<<disk, view>>, <<view, view>>, <<view, Put(view, k, i, q)>>,
     <<Put(view, k, i, q), Put(view, k, i, q)>>,
     <<Put(view, k, i, q), Put(view, k, i, r)>>,
     <<Put(view, k, i, r), Put(view, k, i, r)>>}

\* It does so, and the SysOp is told of entry s, which it is about: what it was
\* to become, after a failure, what it has become, or one of two things.
Tells(k, i, s, q, r) ==
  /\ Wrote(k, i, q, r)
  /\ \/ said' = Tried(s, Seen(r)) /\ q = r
     \/ said' = Told(s, Seen(r)) /\ {disk', view'} \subseteq {Put(view, k, i, r)}
     \/ /\ said' = [said EXCEPT ![s] = {Seen(q), Seen(r)}]
        /\ {disk', view'} \subseteq {Put(view, k, i, q), Put(view, k, i, r)}

-----------------------------------------------------------------------------
(* Constants, records and sets of numbers. *)

LEMMA Bounds ==
  /\ MaxBoards \in Nat \ {0} /\ MaxAreas \in Nat \ {0} /\ MaxPolls \in Nat \ {0}
  /\ MaxDoors \in Nat \ {0} /\ PerPage \in Nat \ {0}
  /\ MaxFaults \in Nat /\ MaxEntries \in Nat /\ 0 \in Levels /\ 2 \in Options
BY DirectoryAssumption

LEMMA SlotsAre ==
  /\ Slots("boards") = 1 .. MaxBoards /\ Slots("areas") = 1 .. MaxAreas
  /\ Slots("polls") = 1 .. MaxPolls /\ Slots("doors") = 1 .. MaxDoors
  /\ \A k \in Kinds : Slots(k) \subseteq Nat
<1>1. \A k \in Kinds : Max[k] \in Nat
  BY Bounds DEF Kinds, Max
<1> QED BY <1>1 DEF Slots, Max, Kinds

LEMMA UnusedFields == Unused.born = 0 /\ Unused.title = " " /\ ~IsLive(Unused) /\ Seen(Unused) = Gone
<1>1. Unused.born = 0 /\ Unused.title = " "
  BY DEF Unused
<1> QED BY <1>1 DEF IsLive, Seen, Gone

LEMMA EntriesAre ==
  /\ Entries("boards") = {Unused} \cup BoardRecords
  /\ Entries("areas") = {Unused} \cup AreaRecords
  /\ Entries("polls") = {Unused} \cup VoteRecords
  /\ Entries("doors") = {Unused} \cup AreaRecords
  /\ \A k \in Kinds : Entries(k) \in
       {{Unused} \cup BoardRecords, {Unused} \cup AreaRecords, {Unused} \cup VoteRecords}
  /\ \A k \in Kinds : Unused \in Entries(k)
BY DEF Entries, Kinds

LEMMA EntryCases ==
  ASSUME NEW k \in Kinds, NEW r \in Entries(k)
  PROVE  \/ r = Unused
         \/ k = "boards" /\ r \in BoardRecords
         \/ k \in {"areas", "doors"} /\ r \in AreaRecords
         \/ k = "polls" /\ r \in VoteRecords
<1>1. CASE k = "boards"
  BY <1>1, EntriesAre, Zenon
<1>2. CASE k = "areas"
  BY <1>2, EntriesAre, Zenon
<1>3. CASE k = "polls"
  BY <1>3, EntriesAre, Zenon
<1>4. CASE k = "doors"
  BY <1>4, EntriesAre, Zenon
<1> QED BY <1>1, <1>2, <1>3, <1>4 DEF Kinds

LEMMA EntryFields ==
  ASSUME NEW k \in Kinds, NEW r \in Entries(k)
  PROVE  r.born \in Serials /\ r.title \in Titles
<1>1. CASE r = Unused
  <2>1. 0 \in Serials /\ " " \in Titles
    BY Bounds DEF Serials, Titles
  <2> QED BY <1>1, <2>1, UnusedFields
<1>2. CASE r \in BoardRecords
  BY <1>2 DEF BoardRecords
<1>3. CASE r \in AreaRecords
  BY <1>3 DEF AreaRecords
<1>4. CASE r \in VoteRecords
  BY <1>4 DEF VoteRecords
<1> QED BY <1>1, <1>2, <1>3, <1>4, EntryCases

\* The record of a deleted board, area or poll.
LEMMA Blanked ==
  ASSUME NEW k \in Kinds, NEW r \in Entries(k), IsLive(r)
  PROVE  LET b == [r EXCEPT !.title = " "] IN
         b \in Entries(k) /\ b.born = r.born /\ Seen(b) = Gone
<1> DEFINE b == [r EXCEPT !.title = " "]
<1>1. r # Unused
  BY UnusedFields DEF IsLive
<1>2. CASE k = "boards" /\ r \in BoardRecords
  <2>1. b \in BoardRecords /\ b.born = r.born /\ b.title = " "
    BY <1>2 DEF BoardRecords, Titles
  <2> QED BY <1>2, <2>1, EntriesAre, Zenon DEF Seen, IsLive
<1>3. CASE k \in {"areas", "doors"} /\ r \in AreaRecords
  <2>1. b \in AreaRecords /\ b.born = r.born /\ b.title = " "
    BY <1>3 DEF AreaRecords, Titles
  <2> QED BY <1>3, <2>1, EntriesAre, Zenon DEF Seen, IsLive
<1>4. CASE k = "polls" /\ r \in VoteRecords
  <2>1. b \in VoteRecords /\ b.born = r.born /\ b.title = " "
    BY <1>4 DEF VoteRecords, Titles
  <2> QED BY <1>4, <2>1, EntriesAre, Zenon DEF Seen, IsLive
<1> QED BY <1>1, <1>2, <1>3, <1>4, EntryCases, Zenon

LEMMA PutView ==
  ASSUME NEW v \in Views, NEW k \in Kinds, NEW i \in Slots(k), NEW r \in Entries(k)
  PROVE  /\ Put(v, k, i, r) \in Views
         /\ Put(v, k, i, r)[k][i] = r
         /\ \A l \in Kinds : \A j \in Slots(l) :
              <<l, j>> # <<k, i>> => Put(v, k, i, r)[l][j] = v[l][j]
<1> DEFINE w == Put(v, k, i, r)
<1>1. v[k] \in [Slots(k) -> Entries(k)] /\ DOMAIN v = Kinds
  BY DEF Views
<1>2. w = [v EXCEPT ![k] = [v[k] EXCEPT ![i] = r]]
  BY <1>1 DEF Put
<1>3. [v[k] EXCEPT ![i] = r] \in [Slots(k) -> Entries(k)]
  BY <1>1
<1>4. w[k] = [v[k] EXCEPT ![i] = r] /\ \A l \in Kinds \ {k} : w[l] = v[l]
  BY <1>1, <1>2
<1>5. w \in [Kinds -> UNION {[Slots(l) -> Entries(l)] : l \in Kinds}]
  BY <1>2, <1>3 DEF Views
<1>6. \A l \in Kinds : w[l] \in [Slots(l) -> Entries(l)]
  BY <1>3, <1>4 DEF Views
<1>7. w \in Views
  BY <1>5, <1>6 DEF Views
<1> QED BY <1>1, <1>4, <1>7

-----------------------------------------------------------------------------
(* What a sequence of calls may come to. *)

\* How an outcome p of a save to W differs from the state o before it.
Between(o, p, W) ==
  /\ p \in Outcomes
  /\ <<p.disk, p.view>> \in {<<o.disk, o.view>>, <<o.view, o.view>>, <<o.view, W>>, <<W, W>>}
  /\ p.ok => p.disk = W /\ p.view = W

LEMMA FaultBound ==
  ASSUME NEW o \in Outcomes, NEW f, Fault(f, o)
  PROVE  o.fails + 1 \in 0 .. MaxFaults
<1>1. o.fails \in 0 .. MaxFaults /\ o.fails < MaxFaults
  BY DEF Fault, Outcomes
<1> QED BY <1>1, Bounds

LEMMA OpenOut ==
  ASSUME NEW o \in Outcomes, NEW p \in Open(o)
  PROVE  /\ p \in Outcomes /\ p.view = o.view /\ p.disk \in {o.disk, o.view}
         /\ p.ok => o.ok /\ p.disk = o.view
<1>1. CASE p = [o EXCEPT !.disk = o.view]
  BY <1>1 DEF Outcomes
<1>2. ASSUME Fault("open", o), NEW d \in {o.disk, o.view},
             p = [o EXCEPT !.disk = d, !.ok = FALSE, !.fails = @ + 1]
      PROVE  p \in Outcomes /\ p.view = o.view /\ p.disk = d /\ ~p.ok
  BY <1>2, FaultBound DEF Outcomes
<1> QED BY <1>1, <1>2 DEF Open

LEMMA WriteOut ==
  ASSUME NEW o \in Outcomes, NEW k \in Kinds, NEW i \in Slots(k), NEW r \in Entries(k)
  PROVE  LET w == Write(o, k, i, r) IN
         /\ w \in Outcomes /\ w.view = Put(o.view, k, i, r)
         /\ w.disk = o.disk /\ w.fails = o.fails /\ w.ok = o.ok
<1>1. o.view \in Views
  BY DEF Outcomes
<1>2. Put(o.view, k, i, r) \in Views
  BY <1>1, PutView
<1>3. Write(o, k, i, r) = [o EXCEPT !.view = Put(o.view, k, i, r)]
  BY DEF Write, Put, Outcomes
<1> QED BY <1>2, <1>3 DEF Outcomes

LEMMA SaveOut ==
  ASSUME NEW o \in Outcomes, NEW k \in Kinds, NEW i \in Slots(k), NEW r \in Entries(k),
         NEW p \in Save(o, k, i, r)
  PROVE  Between(o, p, Put(o.view, k, i, r)) /\ (p.ok => o.ok)
<1> DEFINE W == Put(o.view, k, i, r)
<1>1. PICK q \in Open(o) :
        p \in IF ~q.ok THEN {q}
              ELSE {[Write(q, k, i, r) EXCEPT !.disk = Write(q, k, i, r).view]} \cup
                   {[Write(q, k, i, r) EXCEPT !.ok = FALSE, !.fails = @ + 1] :
                      x \in IF Fault("flush", q) THEN {1} ELSE {}}
  BY DEF Save
<1>2. /\ q \in Outcomes /\ q.view = o.view /\ q.disk \in {o.disk, o.view}
      /\ q.ok => o.ok /\ q.disk = o.view
  BY OpenOut
<1>3. CASE ~q.ok
  BY <1>1, <1>2, <1>3 DEF Between
<1>4. CASE q.ok
  <2> DEFINE w == Write(q, k, i, r)
  <2>1. /\ w \in Outcomes /\ w.view = W
        /\ w.disk = o.view /\ w.fails = q.fails /\ w.ok = q.ok
    <3>1. /\ w \in Outcomes /\ w.view = Put(q.view, k, i, r)
          /\ w.disk = q.disk /\ w.fails = q.fails /\ w.ok = q.ok
      BY <1>2, WriteOut
    <3> HIDE DEF w
    <3> QED BY <1>2, <1>4, <3>1
  <2> HIDE DEF w, W
  <2>2. CASE p = [w EXCEPT !.disk = w.view]
    <3>1. p \in Outcomes /\ p.view = W /\ p.disk = W
      BY <2>1, <2>2 DEF Outcomes
    <3> QED BY <1>2, <1>4, <3>1 DEF Between, W
  <2>3. CASE Fault("flush", q) /\ p = [w EXCEPT !.ok = FALSE, !.fails = @ + 1]
    <3>1. w.fails + 1 \in 0 .. MaxFaults
      BY <1>2, <2>1, <2>3, FaultBound
    <3>2. p \in Outcomes /\ p.view = W /\ p.disk = o.view /\ ~p.ok
      BY <2>1, <2>3, <3>1 DEF Outcomes
    <3> QED BY <3>2 DEF Between, W
  <2> QED BY <1>1, <1>4, <2>2, <2>3 DEF w
<1> QED BY <1>3, <1>4

\* The record that Delete() writes.
Blank(r) == [r EXCEPT !.title = " "]

LEMMA DeleteOut ==
  ASSUME NEW o \in Outcomes, NEW k \in Kinds, NEW i \in Slots(k),
         NEW p \in Delete(o, k, i)
  PROVE  /\ Between(o, p, Put(o.view, k, i, Blank(o.view[k][i])))
         /\ p.ok => IsLive(o.view[k][i])
         /\ ~IsLive(o.view[k][i]) => p.view = o.view /\ p.disk \in {o.disk, o.view}
<1> DEFINE r == Blank(o.view[k][i])
           W == Put(o.view, k, i, r)
<1>1. PICK q \in Open(o) :
        p \in IF q.ok /\ IsLive(q.view[k][i])
              THEN Save(q, k, i, [q.view[k][i] EXCEPT !.title = " "])
              ELSE {[q EXCEPT !.ok = FALSE]}
  BY DEF Delete
<1>2. /\ q \in Outcomes /\ q.view = o.view /\ q.disk \in {o.disk, o.view}
      /\ q.ok => o.ok /\ q.disk = o.view
  BY OpenOut
<1>3. CASE ~(q.ok /\ IsLive(q.view[k][i]))
  <2>1. p = [q EXCEPT !.ok = FALSE]
    BY <1>1, <1>3
  <2>2. p \in Outcomes /\ p.view = o.view /\ p.disk \in {o.disk, o.view} /\ p.ok = FALSE
    BY <1>2, <2>1 DEF Outcomes
  <2> HIDE DEF W
  <2> QED BY <2>2 DEF Between, W
<1>4. CASE q.ok /\ IsLive(q.view[k][i])
  <2>1. o.view[k][i] \in Entries(k)
    BY DEF Outcomes, Views
  <2>2. r \in Entries(k)
    BY <1>2, <1>4, <2>1, Blanked DEF Blank
  <2>3. p \in Save(q, k, i, r)
    BY <1>1, <1>2, <1>4 DEF Blank
  <2>4. Between(q, p, Put(q.view, k, i, r))
    BY <1>2, <2>2, <2>3, SaveOut
  <2>5. Between(q, p, W)
    BY <1>2, <2>4
  <2> HIDE DEF W, r
  <2>6. Between(o, p, W)
    BY <1>2, <1>4, <2>5 DEF Between
  <2> QED BY <1>2, <1>4, <2>6 DEF W, r
<1> QED BY <1>3, <1>4

LEMMA NowOut ==
  ASSUME SetsTyped
  PROVE  /\ Now \in Outcomes /\ Now.view = view /\ Now.disk = disk /\ Now.ok = TRUE
         /\ Now.fails = fails
BY DEF SetsTyped, Now, Outcomes

LEMMA KeepOut ==
  ASSUME NEW o \in Outcomes, NEW p, NEW W, Between(o, p, W), Keep(p), o.view = view, o.disk = disk
  PROVE  /\ <<disk', view'>> \in {<<disk, view>>, <<view, view>>, <<view, W>>, <<W, W>>}
         /\ fails' \in 0 .. MaxFaults
         /\ p.ok => disk' = W /\ view' = W
BY DEF Between, Keep, Outcomes

-----------------------------------------------------------------------------
(* Numbers. *)

\* A set of natural numbers up to a bound has a greatest one, if it has one at all.
LEMMA HasLeast ==
  ASSUME NEW S, S \subseteq Nat, S # {}
  PROVE  \E x \in S : \A y \in S : x <= y
<1>1. \E x \in S : \A y \in S : ~ (<<y, x>> \in OpToRel(<, Nat))
  BY WFMin, NatLessThanWellFounded
<1>2. \E x \in S : \A y \in S : ~ (y < x)
  BY <1>1, Zenon DEF OpToRel
<1> QED BY <1>2

LEMMA GreatestIs ==
  ASSUME NEW m \in Nat, NEW S, S \subseteq 1 .. m
  PROVE  Greatest(S) \in 0 .. m /\ \A j \in S : j <= Greatest(S)
<1> DEFINE T == {n \in Nat : \A j \in S : j <= n}
<1>1. T \subseteq Nat /\ m \in T
  OBVIOUS
<1>2. PICK g \in T : \A n \in T : g <= n
  BY <1>1, HasLeast
<1>3. CASE g \in S \cup {0}
  <2>1. \E i \in S \cup {0} : \A j \in S : j <= i
    BY <1>2, <1>3
  <2>2. Greatest(S) \in S \cup {0} /\ \A j \in S : j <= Greatest(S)
    BY <2>1 DEF Greatest
  <2>3. S \cup {0} \subseteq 0 .. m
    OBVIOUS
  <2> QED BY <2>2, <2>3, Zenon
<1>4. CASE g \notin S \cup {0}
  <2>1. g - 1 \in Nat /\ \A j \in S : j <= g - 1
    BY <1>2, <1>4
  <2> QED BY <1>2, <2>1
<1> QED BY <1>3, <1>4

\* The number of a new board, area or poll has never been used.
LEMMA NewNumber ==
  ASSUME NEW k \in Numbered, Greatest(UsedIds(k)) + 1 <= Max[k]
  PROVE  LET i == Greatest(UsedIds(k)) + 1 IN i \in Slots(k) /\ view[k][i].born = 0
<1> DEFINE g == Greatest(UsedIds(k))
<1>1. Max[k] \in Nat /\ Slots(k) = 1 .. Max[k]
  BY Bounds DEF Max, Slots, Numbered, Kinds
<1>2. UsedIds(k) \subseteq 1 .. Max[k]
  BY <1>1 DEF UsedIds
<1>3. g \in 0 .. Max[k] /\ \A j \in UsedIds(k) : j <= g
  BY <1>1, <1>2, GreatestIs
<1> HIDE DEF g
<1>4. g + 1 \in Slots(k) /\ g + 1 \notin UsedIds(k)
  BY <1>1, <1>3 DEF g
<1> QED BY <1>4 DEF UsedIds, g

\* What is picked from a list is a live entry.
LEMMA PickedLive ==
  ASSUME NEW k \in Kinds, NEW i \in Pick(k)
  PROVE  i \in Slots(k) /\ IsLive(view[k][i])
<1>1. PICK p, d : i \in Page(view, k, p, d)
  BY DEF Pick
<1>2. i \in LiveIds(view, k)
  BY <1>1 DEF Page, BoardsPage, AreasPage, VotesPage, DoorsPage, BoardByIndex, AreaByIndex,
     VoteByIndex, DoorByIndex, Nth, Kinds
<1> QED BY <1>2 DEF LiveIds

-----------------------------------------------------------------------------
(* What a write does to the sets. *)

LEMMA GrowsPut ==
  ASSUME NEW v \in Views, NEW k \in Kinds, NEW i \in Slots(k), NEW q \in Entries(k),
         k \in Numbered => v[k][i].born \in {0, q.born}
  PROVE  Grows(v, Put(v, k, i, q))
<1>1. ASSUME NEW l \in Numbered, NEW j \in Slots(l)
      PROVE  v[l][j].born \in {0, Put(v, k, i, q)[l][j].born}
  <2>1. l \in Kinds
    BY DEF Numbered, Kinds
  <2>2. CASE <<l, j>> = <<k, i>>
    BY <2>2, PutView
  <2>3. CASE <<l, j>> # <<k, i>>
    BY <2>1, <2>3, PutView
  <2> QED BY <2>2, <2>3
<1> QED BY <1>1 DEF Grows

LEMMA GrowsPuts ==
  ASSUME NEW v \in Views, NEW k \in Kinds, NEW i \in Slots(k), NEW q \in Entries(k),
         NEW r \in Entries(k), k \in Numbered => q.born = r.born
  PROVE  Grows(Put(v, k, i, q), Put(v, k, i, r))
<1>1. ASSUME NEW l \in Numbered, NEW j \in Slots(l)
      PROVE  Put(v, k, i, q)[l][j].born \in {0, Put(v, k, i, r)[l][j].born}
  <2>1. l \in Kinds
    BY DEF Numbered, Kinds
  <2>2. CASE <<l, j>> = <<k, i>>
    BY <2>2, PutView
  <2>3. CASE <<l, j>> # <<k, i>>
    BY <2>1, <2>3, PutView
  <2> QED BY <2>2, <2>3
<1> QED BY <1>1 DEF Grows

LEMMA GrowsTrans ==
  ASSUME NEW u, NEW v, NEW w, Grows(u, v), Grows(v, w)
  PROVE  Grows(u, w)
BY DEF Grows

LEMMA GrowsSelf ==
  ASSUME NEW v
  PROVE  Grows(v, v)
BY DEF Grows

LEMMA WroteGrows ==
  ASSUME view \in Views, disk \in Views, Grows(disk, view),
         NEW k \in Kinds, NEW i \in Slots(k), NEW q \in Entries(k), NEW r \in Entries(k),
         Wrote(k, i, q, r),
         k \in Numbered => view[k][i].born \in {0, q.born} /\ q.born = r.born
  PROVE  Grows(disk', view') /\ Grows(disk, disk') /\ Grows(view, view')
<1> DEFINE A == Put(view, k, i, q)  B == Put(view, k, i, r)
<1>1. Grows(view, A) /\ Grows(view, B)
  BY GrowsPut
<1>2. Grows(A, B)
  BY GrowsPuts
<1>3. Grows(disk, A) /\ Grows(disk, B)
  BY <1>1, GrowsTrans
<1>4. Grows(A, A) /\ Grows(B, B) /\ Grows(view, view) /\ Grows(disk, disk)
  BY GrowsSelf
<1>5. <<disk', view'>> \in {<<disk, view>>, <<view, view>>, <<view, A>>, <<A, A>>, <<A, B>>, <<B, B>>}
  BY DEF Wrote
<1> HIDE DEF A, B
<1> QED BY <1>1, <1>2, <1>3, <1>4, <1>5

\* The history goes on.
Later ==
  /\ next' \in Serials /\ next <= next'
  /\ place' \in [1 .. MaxEntries -> {<< >>} \cup Places]
  /\ \A s \in 1 .. next : place'[s] = place[s]
  /\ \A s \in 1 .. next' : place'[s] \in Places

LEMMA PlacedLater ==
  ASSUME NEW v \in Views, Placed(v, next, place), next \in Serials, Later
  PROVE  Placed(v, next', place')
<1>1. ASSUME NEW k \in Kinds, NEW i \in Slots(k)
      PROVE  Fits(v[k][i], k, i, next', place')
  <2>1. v[k][i].born # 0 => v[k][i].born \in 1 .. next /\ place[v[k][i].born] = <<k, i>>
    BY DEF Placed, Fits
  <2>2. 1 .. next \subseteq 1 .. next'
    BY Bounds DEF Later, Serials
  <2> QED BY <2>1, <2>2 DEF Fits, Later
<1> QED BY <1>1 DEF Placed

LEMMA PlacedPut ==
  ASSUME NEW v \in Views, NEW n, NEW pl, Placed(v, n, pl),
         NEW k \in Kinds, NEW i \in Slots(k), NEW r \in Entries(k), Fits(r, k, i, n, pl)
  PROVE  Placed(Put(v, k, i, r), n, pl)
<1>1. ASSUME NEW l \in Kinds, NEW j \in Slots(l)
      PROVE  Fits(Put(v, k, i, r)[l][j], l, j, n, pl)
  <2>1. CASE <<l, j>> = <<k, i>>
    BY <2>1, PutView
  <2>2. CASE <<l, j>> # <<k, i>>
    <3>1. Put(v, k, i, r)[l][j] = v[l][j]
      BY <2>2, PutView
    <3> QED BY <3>1 DEF Placed
  <2> QED BY <2>1, <2>2
<1> QED BY <1>1 DEF Placed

LEMMA WroteTyped ==
  ASSUME SetsTyped, Later, fails' \in 0 .. MaxFaults,
         NEW k \in Kinds, NEW i \in Slots(k), NEW q \in Entries(k), NEW r \in Entries(k),
         Wrote(k, i, q, r), Fits(q, k, i, next', place'), Fits(r, k, i, next', place')
  PROVE  SetsTyped'
<1> DEFINE A == Put(view, k, i, q)  B == Put(view, k, i, r)
           Good(v) == v \in Views /\ Placed(v, next', place')
<1>1. Good(view) /\ Good(disk)
  BY PlacedLater DEF SetsTyped
<1>2. Good(A) /\ Good(B)
  BY <1>1, PlacedPut, PutView
<1>3. disk' \in {disk, view, A, B} /\ view' \in {view, A, B}
  BY DEF Wrote
<1> HIDE DEF A, B
<1>4. Good(view') /\ Good(disk')
  BY <1>1, <1>2, <1>3
<1> QED BY <1>4 DEF SetsTyped, Later

\* What is kept under the numbers is kept or scratched.
Shrunk ==
  /\ ContentTyped'
  /\ \A b \in Slots("boards") :
       index'[b] \in {0, index[b]} /\ bodies'[b] \in {0, bodies[b]} /\ pointers'[b] \in {0, pointers[b]}
  /\ \A a \in Slots("areas") : entries'[a] \in {0, entries[a]}

LEMMA SameShrunk ==
  ASSUME ContentTyped, UNCHANGED content
  PROVE  Shrunk
BY DEF Shrunk, ContentTyped, content

LEMMA ContentKept ==
  ASSUME ContentInv, Shrunk, Grows(disk', view'), Grows(disk, disk')
  PROVE  ContentInv'
<1>1. ASSUME NEW b \in Slots("boards")
      PROVE  {index'[b], bodies'[b], pointers'[b]} \subseteq {0, disk'.boards[b].born}
  BY DEF ContentInv, Shrunk, Grows, Numbered
<1>2. ASSUME NEW a \in Slots("areas")
      PROVE  entries'[a] \in {0, disk'.areas[a].born}
  BY DEF ContentInv, Shrunk, Grows, Numbered
<1> QED BY <1>1, <1>2 DEF ContentInv

LEMMA WroteInv ==
  ASSUME Inv, Later, fails' \in 0 .. MaxFaults, Shrunk,
         NEW k \in Kinds, NEW i \in Slots(k), NEW q \in Entries(k), NEW r \in Entries(k),
         Wrote(k, i, q, r), Fits(q, k, i, next', place'), Fits(r, k, i, next', place'),
         k \in Numbered => view[k][i].born \in {0, q.born} /\ q.born = r.born
  PROVE  SetsTyped' /\ ContentTyped' /\ ContentInv'
<1>1. SetsTyped'
  BY WroteTyped DEF Inv, TypeInv
<1>2. Grows(disk', view') /\ Grows(disk, disk')
  BY WroteGrows DEF Inv, TypeInv, SetsTyped, ContentInv
<1>3. ContentInv'
  BY <1>2, ContentKept DEF Inv
<1> QED BY <1>1, <1>3 DEF Shrunk

LEMMA OldLater ==
  ASSUME SetsTyped, Old
  PROVE  Later
BY Bounds DEF SetsTyped, Old, Later, Serials

LEMMA NewLater ==
  ASSUME SetsTyped, NEW k \in Kinds, NEW i \in Slots(k), New(k, i)
  PROVE  /\ Later /\ next' = next + 1 /\ place'[next + 1] = <<k, i>>
         /\ next + 1 \in 1 .. next' /\ next + 1 \in Serials /\ next + 1 \in 1 .. MaxEntries
<1>1. next \in Nat /\ next < MaxEntries /\ MaxEntries \in Nat
  BY Bounds DEF SetsTyped, New, Serials
<1>2. <<k, i>> \in Places
  BY DEF Places
<1>3. next' = next + 1 /\ place' = [place EXCEPT ![next + 1] = <<k, i>>]
  BY DEF New
<1>4. /\ next + 1 \in 1 .. next' /\ next + 1 \in Serials /\ next + 1 \in 1 .. MaxEntries
      /\ next' \in Serials /\ next <= next' /\ 1 .. next' = 1 .. next \cup {next + 1}
      /\ next + 1 \notin 1 .. next
  BY <1>1, <1>3 DEF Serials
<1>5. place' \in [1 .. MaxEntries -> {<< >>} \cup Places]
  BY <1>2, <1>3 DEF SetsTyped
<1>6. /\ place'[next + 1] = <<k, i>>
      /\ \A s \in 1 .. next : place'[s] = place[s]
  BY <1>1, <1>3, <1>4 DEF SetsTyped
<1>7. \A s \in 1 .. next' : place'[s] \in Places
  BY <1>2, <1>4, <1>6 DEF SetsTyped
<1> QED BY <1>3, <1>4, <1>5, <1>6, <1>7 DEF Later

LEMMA PutPut ==
  ASSUME NEW v \in Views, NEW k \in Kinds, NEW i \in Slots(k),
         NEW q \in Entries(k), NEW r \in Entries(k)
  PROVE  Put(Put(v, k, i, q), k, i, r) = Put(v, k, i, r)
<1>1. DOMAIN v = Kinds /\ DOMAIN v[k] = Slots(k)
  BY DEF Views
<1> QED BY <1>1 DEF Put

\* Saves and deletions from where the program is.
LEMMA SaveNow ==
  ASSUME SetsTyped, NEW k \in Kinds, NEW i \in Slots(k), NEW r \in Entries(k),
         NEW p \in Save(Now, k, i, r), Keep(p)
  PROVE  /\ Wrote(k, i, r, r) /\ fails' \in 0 .. MaxFaults
         /\ p.ok => disk' = Put(view, k, i, r) /\ view' = Put(view, k, i, r)
<1>1. Between(Now, p, Put(view, k, i, r))
  BY NowOut, SaveOut
<1>2. /\ <<disk', view'>> \in {<<disk, view>>, <<view, view>>, <<view, Put(view, k, i, r)>>,
                               <<Put(view, k, i, r), Put(view, k, i, r)>>}
      /\ fails' \in 0 .. MaxFaults
      /\ p.ok => disk' = Put(view, k, i, r) /\ view' = Put(view, k, i, r)
  BY <1>1, NowOut, KeepOut, Zenon
<1> QED BY <1>2 DEF Wrote

LEMMA DeleteNow ==
  ASSUME SetsTyped, NEW k \in Kinds, NEW i \in Slots(k), IsLive(view[k][i]),
         NEW p \in Delete(Now, k, i), NEW o, Keep(o), o.view = p.view, o.disk = p.disk,
         o.fails \in 0 .. MaxFaults
  PROVE  LET r == Blank(view[k][i]) IN
         /\ Wrote(k, i, r, r) /\ fails' \in 0 .. MaxFaults
         /\ r \in Entries(k) /\ r.born = view[k][i].born /\ Seen(r) = Gone
         /\ p.ok => disk' = Put(view, k, i, r) /\ view' = Put(view, k, i, r)
<1> DEFINE r == Blank(view[k][i])
<1>1. Between(Now, p, Put(view, k, i, r))
  BY NowOut, DeleteOut
<1>2. view[k][i] \in Entries(k)
  BY DEF SetsTyped, Views
<1>3. r \in Entries(k) /\ r.born = view[k][i].born /\ Seen(r) = Gone
  BY <1>2, Blanked DEF Blank
<1> HIDE DEF r
<1>4. disk' = p.disk /\ view' = p.view /\ fails' \in 0 .. MaxFaults
  BY DEF Keep
<1>5. /\ <<p.disk, p.view>> \in {<<disk, view>>, <<view, view>>, <<view, Put(view, k, i, r)>>,
                                 <<Put(view, k, i, r), Put(view, k, i, r)>>}
      /\ p.ok => p.disk = Put(view, k, i, r) /\ p.view = Put(view, k, i, r)
  BY <1>1, NowOut DEF Between
<1>6. Wrote(k, i, r, r)
  BY <1>4, <1>5 DEF Wrote
<1> QED BY <1>3, <1>4, <1>5, <1>6 DEF r

-----------------------------------------------------------------------------
(* The steps. *)

LEMMA NoForm ==
  ASSUME at' \in {"off", "menu"}, how' \in {"none", "new", "old"}, tag' \in {"", "tag"}
  PROVE  FormTyped' /\ FormKept'
BY DEF FormTyped, FormKept

LEMMA ShutForm ==
  ASSUME at' \in {"off", "menu"}, ClosedForm
  PROVE  FormTyped' /\ FormKept'
BY NoForm DEF ClosedForm

LEMMA MenuStays ==
  ASSUME Inv, at \in {"off", "menu"}, UNCHANGED <<at, editor>>
  PROVE  FormTyped' /\ FormKept'
BY NoForm DEF Inv, TypeInv, FormTyped, editor

LEMMA InvParts ==
  ASSUME SetsTyped' /\ ContentTyped' /\ ContentInv', FormTyped' /\ FormKept'
  PROVE  Inv'
BY DEF Inv, TypeInv

\* Entry i of k as it is goes with the history.
LEMMA OldFits ==
  ASSUME SetsTyped, Later, NEW k \in Kinds, NEW i \in Slots(k), NEW r,
         r.born = view[k][i].born
  PROVE  Fits(r, k, i, next', place')
<1>1. Placed(view, next', place')
  BY PlacedLater DEF SetsTyped
<1> QED BY <1>1 DEF Placed, Fits

LEMMA Untouched ==
  ASSUME Inv, Later, fails' \in 0 .. MaxFaults, Shrunk, view' = view, disk' \in {disk, view}
  PROVE  SetsTyped' /\ ContentTyped' /\ ContentInv'
<1>1. "doors" \in Kinds /\ 1 \in Slots("doors") /\ Unused \in Entries("doors")
  BY Bounds, SlotsAre, EntriesAre DEF Kinds
<1>2. Fits(Unused, "doors", 1, next', place')
  BY UnusedFields DEF Fits
<1>3. Wrote("doors", 1, Unused, Unused)
  BY DEF Wrote
<1>4. "doors" \notin Numbered
  BY DEF Numbered
<1> QED BY <1>1, <1>2, <1>3, <1>4, WroteInv

\* A save from the menu: of a new entry, or of an old one changed.
LEMMA SaveStep ==
  ASSUME Inv, at = "menu", Later, NEW k \in Kinds, NEW i \in Slots(k), NEW r \in Entries(k),
         NEW p \in Save(Now, k, i, r), Keep(p), Fits(r, k, i, next', place'),
         k \in Numbered => view[k][i].born \in {0, r.born},
         UNCHANGED <<content, at, editor>>
  PROVE  Inv'
<1>1. Wrote(k, i, r, r) /\ fails' \in 0 .. MaxFaults
  BY SaveNow DEF Inv, TypeInv
<1>2. SetsTyped' /\ ContentTyped' /\ ContentInv'
  BY <1>1, SameShrunk, WroteInv DEF Inv, TypeInv
<1>3. FormTyped' /\ FormKept'
  BY MenuStays
<1> QED BY <1>2, <1>3, InvParts

LEMMA EditStep ==
  ASSUME Inv, at = "menu", Old, NEW k \in Kinds, NEW i \in Slots(k), NEW r \in Entries(k),
         NEW p \in Save(Now, k, i, r), Keep(p), r.born = view[k][i].born,
         UNCHANGED <<content, at, editor>>
  PROVE  Inv'
<1>1. Later /\ Fits(r, k, i, next', place')
  BY OldLater, OldFits DEF Inv, TypeInv
<1> QED BY <1>1, SaveStep

LEMMA DeleteStep ==
  ASSUME Inv, at = "menu", Old, NEW k \in Kinds, NEW i \in Slots(k), IsLive(view[k][i]),
         NEW p \in Delete(Now, k, i), NEW o, Keep(o), o.view = p.view, o.disk = p.disk,
         o.fails \in 0 .. MaxFaults, Shrunk, UNCHANGED <<at, editor>>
  PROVE  Inv'
<1> DEFINE r == Blank(view[k][i])
<1>1. /\ Wrote(k, i, r, r) /\ fails' \in 0 .. MaxFaults
      /\ r \in Entries(k) /\ r.born = view[k][i].born
  BY DeleteNow DEF Inv, TypeInv
<1> HIDE DEF r
<1>2. Later /\ Fits(r, k, i, next', place')
  BY <1>1, OldLater, OldFits DEF Inv, TypeInv
<1>3. SetsTyped' /\ ContentTyped' /\ ContentInv'
  BY <1>1, <1>2, WroteInv
<1>4. FormTyped' /\ FormKept'
  BY MenuStays
<1> QED BY <1>3, <1>4, InvParts

\* The number of a new board, area or poll, and its record.
LEMMA NewFits ==
  ASSUME Inv, NEW k \in Kinds, NEW i \in Slots(k), New(k, i), NEW r, r.born = next + 1
  PROVE  Later /\ Fits(r, k, i, next', place')
<1>1. /\ Later /\ next' = next + 1 /\ place'[next + 1] = <<k, i>>
      /\ next + 1 \in 1 .. next'
  BY NewLater DEF Inv, TypeInv
<1> QED BY <1>1 DEF Fits

LEMMA LiveEntry ==
  ASSUME Inv, NEW k \in Kinds, NEW i \in Pick(k)
  PROVE  /\ i \in Slots(k) /\ IsLive(view[k][i]) /\ view[k][i] \in Entries(k)
         /\ view[k][i] # Unused
<1>1. i \in Slots(k) /\ IsLive(view[k][i])
  BY PickedLive
<1>2. view[k][i] \in Entries(k)
  BY <1>1 DEF Inv, TypeInv, SetsTyped, Views
<1>3. view[k][i] # Unused
  BY <1>1, UnusedFields
<1> QED BY <1>1, <1>2, <1>3

LEMMA InvStart == ASSUME Inv, Start PROVE Inv'
<1>1. Old /\ Shrunk
  BY SameShrunk DEF Start, Old, history, Inv, TypeInv
<1>2. Later /\ fails' \in 0 .. MaxFaults /\ view' = view /\ disk' = disk
  BY <1>1, OldLater DEF Start, sets, Inv, TypeInv, SetsTyped
<1>3. FormTyped' /\ FormKept'
  BY NoForm DEF Start, editor, Inv, TypeInv, FormTyped
<1> QED BY <1>1, <1>2, <1>3, Untouched, InvParts

\* What a reset leaves is the set on the disk: no number is given back by it.
LEMMA InvReset == ASSUME Inv, Reset PROVE Inv'
<1>1. SetsTyped'
  BY DEF Reset, history, Inv, TypeInv, SetsTyped
<1>2. Shrunk
  BY SameShrunk DEF Reset, Inv, TypeInv
<1>3. Grows(disk', view') /\ Grows(disk, disk')
  BY GrowsSelf DEF Reset
<1>4. ContentInv'
  BY <1>2, <1>3, ContentKept DEF Inv
<1>5. FormTyped' /\ FormKept'
  BY ShutForm DEF Reset
<1> QED BY <1>1, <1>2, <1>4, <1>5, InvParts DEF Shrunk

LEMMA SameSets ==
  ASSUME SetsTyped, UNCHANGED <<sets, history>>
  PROVE  SetsTyped'
BY DEF SetsTyped, sets, history

LEMMA InvVisit ==
  ASSUME Inv, NEW b \in Slots("boards"), Visit(b)
  PROVE  Inv'
<1> DEFINE s == disk.boards[b].born
<1>1. SetsTyped'
  BY SameSets DEF Visit, Inv, TypeInv
<1>2. s \in Serials
  <2>1. "boards" \in Kinds /\ disk["boards"][b] \in Entries("boards")
    BY DEF Inv, TypeInv, SetsTyped, Views, Kinds
  <2> QED BY <2>1, EntryFields
<1>3. /\ index' = [index EXCEPT ![b] = IF @ = 0 THEN s ELSE @]
      /\ bodies' = [bodies EXCEPT ![b] = IF @ = 0 THEN s ELSE @]
      /\ pointers' = [pointers EXCEPT ![b] = s] /\ entries' = entries
      /\ disk' = disk /\ view' = view
  BY DEF Visit, sets
<1> HIDE DEF s
<1>4. ContentTyped'
  BY <1>2, <1>3 DEF Inv, TypeInv, ContentTyped
<1>5. ASSUME NEW c \in Slots("boards")
      PROVE  {index'[c], bodies'[c], pointers'[c]} \subseteq {0, disk'.boards[c].born}
  <2>1. {index[c], bodies[c], pointers[c]} \subseteq {0, disk.boards[c].born}
    BY DEF Inv, ContentInv
  <2>2. CASE c = b
    BY <1>3, <2>1, <2>2 DEF s, Inv, TypeInv, ContentTyped
  <2>3. CASE c # b
    BY <1>3, <2>1, <2>3 DEF Inv, TypeInv, ContentTyped
  <2> QED BY <2>2, <2>3
<1>6. ContentInv'
  BY <1>3, <1>5 DEF Inv, ContentInv
<1>7. FormTyped' /\ FormKept'
  BY MenuStays DEF Visit
<1> QED BY <1>1, <1>4, <1>6, <1>7, InvParts

LEMMA InvUpload ==
  ASSUME Inv, NEW a \in Slots("areas"), Upload(a)
  PROVE  Inv'
<1> DEFINE s == disk.areas[a].born
<1>1. SetsTyped'
  BY SameSets DEF Upload, Inv, TypeInv
<1>2. s \in Serials
  <2>1. "areas" \in Kinds /\ disk["areas"][a] \in Entries("areas")
    BY DEF Inv, TypeInv, SetsTyped, Views, Kinds
  <2> QED BY <2>1, EntryFields
<1>3. /\ entries' = [entries EXCEPT ![a] = IF @ = 0 THEN s ELSE @]
      /\ index' = index /\ bodies' = bodies /\ pointers' = pointers
      /\ disk' = disk /\ view' = view
  BY DEF Upload, sets
<1> HIDE DEF s
<1>4. ContentTyped'
  BY <1>2, <1>3 DEF Inv, TypeInv, ContentTyped
<1>5. ASSUME NEW c \in Slots("areas")
      PROVE  entries'[c] \in {0, disk'.areas[c].born}
  BY <1>3 DEF Inv, ContentInv, s, TypeInv, ContentTyped
<1>6. ContentInv'
  BY <1>3, <1>5 DEF Inv, ContentInv
<1>7. FormTyped' /\ FormKept'
  BY MenuStays DEF Upload
<1> QED BY <1>1, <1>4, <1>6, <1>7, InvParts

LEMMA InvBrowse == ASSUME Inv, Browse PROVE Inv'
<1>1. PICK o \in Open(Now) : Keep(o)
  BY DEF Browse, Opened
<1>2. o \in Outcomes /\ o.view = view /\ o.disk \in {disk, view}
  BY NowOut, OpenOut DEF Inv, TypeInv
<1>3. fails' \in 0 .. MaxFaults /\ view' = view /\ disk' \in {disk, view}
  BY <1>1, <1>2 DEF Keep, Outcomes
<1>4. Later /\ Shrunk
  BY SameShrunk, OldLater DEF Browse, Old, history, Inv, TypeInv
<1>5. FormTyped' /\ FormKept'
  BY MenuStays DEF Browse
<1> QED BY <1>3, <1>4, <1>5, Untouched, InvParts

LEMMA InvAreasCreate ==
  ASSUME Inv, NEW t \in Titles, NEW l \in Levels, AreasCreate(t, l)
  PROVE  Inv'
<1> DEFINE i == NextArea  rec == AreaRecord(next + 1, t, l)
<1>1. "areas" \in Numbered /\ "areas" \in Kinds /\ Max["areas"] = MaxAreas
  BY DEF Numbered, Kinds, Max
<1>2. i \in Slots("areas") /\ view["areas"][i].born = 0
  BY <1>1, NewNumber DEF AreasCreate, NextArea
<1>3. New("areas", i)
  BY DEF AreasCreate
<1>4. next + 1 \in Serials
  BY <1>1, <1>2, <1>3, NewLater DEF Inv, TypeInv
<1>5. rec \in AreaRecords /\ rec.born = next + 1
  BY <1>4 DEF AreaRecord, AreaRecords
<1>6. PICK p \in Save(Now, "areas", i, rec) : Keep(p)
  BY DEF AreasCreate
<1>7. at = "menu" /\ UNCHANGED <<content, at, editor>>
  BY DEF AreasCreate
<1> HIDE DEF rec, i
<1>8. Later /\ Fits(rec, "areas", i, next', place')
  BY <1>1, <1>2, <1>3, <1>5, NewFits
<1>9. rec \in Entries("areas")
  BY <1>5, EntriesAre
<1> QED BY <1>1, <1>2, <1>6, <1>7, <1>8, <1>9, SaveStep

LEMMA InvAreasEdit ==
  ASSUME Inv, NEW i \in Slots("areas"), NEW l \in Levels, AreasEdit(i, l)
  PROVE  Inv'
<1> DEFINE rec == [view.areas[i] EXCEPT !.level = l]
<1>1. /\ at = "menu" /\ i \in Pick("areas") /\ Old /\ UNCHANGED <<content, at, editor>>
      /\ \E p \in Save(Now, "areas", i, rec) : Keep(p)
  BY DEF AreasEdit
<1>2. "areas" \in Kinds
  BY DEF Kinds
<1>3. view["areas"][i] \in AreaRecords
  BY <1>1, <1>2, LiveEntry, EntriesAre
<1>4. rec \in AreaRecords /\ rec.born = view["areas"][i].born
  BY <1>3 DEF AreaRecords
<1> HIDE DEF rec
<1>5. rec \in Entries("areas")
  BY <1>4, EntriesAre
<1> QED BY <1>1, <1>2, <1>4, <1>5, EditStep

\* The three deletions that change nothing but the set.
LEMMA DeleteOnly ==
  ASSUME Inv, NEW k \in Kinds, NEW i \in Pick(k), at = "menu", Old,
         UNCHANGED <<content, at, editor>>, NEW p \in Delete(Now, k, i), Keep(p)
  PROVE  Inv'
<1>1. i \in Slots(k) /\ IsLive(view[k][i])
  BY LiveEntry
<1>2. p \in Outcomes
  BY <1>1, NowOut, DeleteOut DEF Between, Inv, TypeInv
<1>3. p.fails \in 0 .. MaxFaults
  BY <1>2 DEF Outcomes
<1>4. Shrunk
  BY SameShrunk DEF Inv, TypeInv
<1> QED BY <1>1, <1>3, <1>4, DeleteStep

LEMMA InvAreasDelete ==
  ASSUME Inv, NEW i \in Slots("areas"), AreasDelete(i)
  PROVE  Inv'
<1>1. "areas" \in Kinds
  BY DEF Kinds
<1> QED BY <1>1, DeleteOnly DEF AreasDelete

LEMMA InvVotesDelete ==
  ASSUME Inv, NEW i \in Slots("polls"), VotesDelete(i)
  PROVE  Inv'
<1>1. "polls" \in Kinds
  BY DEF Kinds
<1> QED BY <1>1, DeleteOnly DEF VotesDelete

LEMMA InvVotesToggle ==
  ASSUME Inv, NEW i \in Slots("polls"), VotesToggle(i)
  PROVE  Inv'
<1> DEFINE rec == [view.polls[i] EXCEPT !.active = ~@]
<1>1. /\ at = "menu" /\ i \in Pick("polls") /\ Old /\ UNCHANGED <<content, at, editor>>
      /\ \E p \in Save(Now, "polls", i, rec) : Keep(p)
  BY DEF VotesToggle
<1>2. "polls" \in Kinds
  BY DEF Kinds
<1>3. view["polls"][i] \in VoteRecords
  BY <1>1, <1>2, LiveEntry, EntriesAre
<1>4. rec \in VoteRecords /\ rec.born = view["polls"][i].born
  BY <1>3 DEF VoteRecords
<1> HIDE DEF rec
<1>5. rec \in Entries("polls")
  BY <1>4, EntriesAre
<1> QED BY <1>1, <1>2, <1>4, <1>5, EditStep

LEMMA InvDoorsDelete ==
  ASSUME Inv, NEW i \in Slots("doors"), DoorsDelete(i)
  PROVE  Inv'
<1>1. /\ "doors" \in Kinds /\ "doors" \notin Numbered /\ Unused \in Entries("doors")
  BY EntriesAre DEF Kinds, Numbered
<1>2. /\ at = "menu" /\ Old /\ UNCHANGED <<content, at, editor>>
      /\ \E p \in Save(Now, "doors", i, Unused) : Keep(p)
  BY DEF DoorsDelete
<1>3. Later /\ Fits(Unused, "doors", i, next', place')
  BY <1>2, OldLater, UnusedFields DEF Fits, Inv, TypeInv
<1> QED BY <1>1, <1>2, <1>3, SaveStep

\* A board is saved before its form is shown, and may be deleted at once.
LEMMA BoardsCreateWrites ==
  ASSUME Inv, NEW t \in Titles, BoardsCreate(t)
  PROVE  \E i \in Slots("boards"), q \in Entries("boards"), r \in Entries("boards") :
           /\ New("boards", i) /\ view["boards"][i].born = 0
           /\ Wrote("boards", i, q, r) /\ q.born = next + 1 /\ r.born = next + 1
           /\ fails' \in 0 .. MaxFaults
           /\ \/ UNCHANGED <<at, editor>>
              \/ /\ at' = "board" /\ id' = i /\ how' = "new" /\ tag' = ""
                 /\ form' \in BoardRecords /\ form'.born = next + 1
                 /\ view'["boards"][i].born = next + 1
<1> DEFINE i == NextBoard
           rec == BoardRecord(next + 1, t, i, FALSE, "")
           W == Put(view, "boards", i, rec)
<1>1. "boards" \in Numbered /\ "boards" \in Kinds /\ Max["boards"] = MaxBoards
  BY DEF Numbered, Kinds, Max
<1>2. i \in Slots("boards") /\ view["boards"][i].born = 0
  BY <1>1, NewNumber DEF BoardsCreate, NextBoard
<1>3. New("boards", i)
  BY DEF BoardsCreate
<1>4. next + 1 \in Serials
  BY <1>1, <1>2, <1>3, NewLater DEF Inv, TypeInv
<1>5. rec \in BoardRecords /\ rec.born = next + 1 /\ rec.tag = "" /\ "tag" \in DOMAIN rec
  BY <1>2, <1>4 DEF BoardRecord, BoardRecords
<1>6. PICK p \in Save(Now, "boards", i, rec) :
        \/ ~p.ok /\ Keep(p) /\ UNCHANGED <<at, editor>>
        \/ /\ p.ok
           /\ \E q \in Open(p) :
                \/ /\ q.ok /\ IsLive(rec) /\ Keep(q)
                   /\ at' = "board" /\ OpenForm(rec, i, "new")
                \/ /\ ~q.ok \/ ~IsLive(rec)
                   /\ \E r \in Delete(Anyway(q), "boards", i) : Keep(r)
                   /\ UNCHANGED <<at, editor>>
  BY DEF BoardsCreate
<1> HIDE DEF i, rec
<1>8. rec \in Entries("boards") /\ view \in Views
  BY <1>5, EntriesAre DEF Inv, TypeInv, SetsTyped
<1> SUFFICES \E q, r \in Entries("boards") :
               /\ Wrote("boards", i, q, r) /\ q.born = next + 1 /\ r.born = next + 1
               /\ fails' \in 0 .. MaxFaults
               /\ \/ UNCHANGED <<at, editor>>
                  \/ /\ at' = "board" /\ id' = i /\ how' = "new" /\ tag' = ""
                     /\ form' \in BoardRecords /\ form'.born = next + 1
                     /\ view'["boards"][i].born = next + 1
  BY <1>2, <1>3
<1>9. CASE ~p.ok /\ Keep(p) /\ UNCHANGED <<at, editor>>
  BY <1>1, <1>2, <1>5, <1>8, <1>9, SaveNow DEF Inv, TypeInv
<1>10. ASSUME p.ok, NEW q \in Open(p)
       PROVE  /\ W \in Views /\ W["boards"][i] = rec
              /\ q \in Outcomes /\ q.view = W /\ q.disk = W
  <2>1. W \in Views /\ W["boards"][i] = rec
    BY <1>1, <1>2, <1>8, PutView
  <2>2. Between(Now, p, Put(Now.view, "boards", i, rec))
    BY <1>1, <1>2, <1>8, NowOut, SaveOut DEF Inv, TypeInv
  <2>3. p \in Outcomes /\ p.view = W /\ p.disk = W
    BY <1>10, <2>2, NowOut DEF Between, Inv, TypeInv
  <2> HIDE DEF W
  <2> QED BY <2>1, <2>3, OpenOut
<1>11. CASE \E q \in Open(p) :
              p.ok /\ q.ok /\ Keep(q) /\ at' = "board" /\ OpenForm(rec, i, "new")
  <2>1. disk' = W /\ view' = W /\ fails' \in 0 .. MaxFaults /\ view'["boards"][i] = rec
    BY <1>10, <1>11 DEF Keep, Outcomes
  <2>2. Wrote("boards", i, rec, rec)
    BY <2>1 DEF Wrote
  <2>3. at' = "board" /\ form' = rec /\ id' = i /\ how' = "new" /\ tag' = ""
    BY <1>5, <1>11 DEF OpenForm
  <2> QED BY <1>5, <1>8, <2>1, <2>2, <2>3
<1>12. ASSUME p.ok, NEW q \in Open(p), NEW r \in Delete(Anyway(q), "boards", i), Keep(r),
              UNCHANGED <<at, editor>>
       PROVE  \E u, v \in Entries("boards") :
                /\ Wrote("boards", i, u, v) /\ u.born = next + 1 /\ v.born = next + 1
                /\ fails' \in 0 .. MaxFaults
  <2> DEFINE B == Blank(rec)
  <2>1. Anyway(q) \in Outcomes /\ Anyway(q).view = W /\ Anyway(q).disk = W
    BY <1>10, <1>12 DEF Anyway, Outcomes
  <2>2. /\ Between(Anyway(q), r, Put(W, "boards", i, B))
        /\ ~IsLive(rec) => r.view = W /\ r.disk = W
    BY <1>1, <1>2, <1>10, <1>12, <2>1, DeleteOut
  <2>4. fails' \in 0 .. MaxFaults /\ view' = r.view /\ disk' = r.disk
    BY <1>12, <2>2 DEF Keep, Between, Outcomes
  <2>5. CASE ~IsLive(rec)
    <3>1. Wrote("boards", i, rec, rec)
      BY <2>2, <2>4, <2>5 DEF Wrote
    <3> QED BY <1>5, <1>8, <2>4, <3>1
  <2>6. CASE IsLive(rec)
    <3>1. B \in Entries("boards") /\ B.born = rec.born
      BY <1>1, <1>8, <2>6, Blanked DEF Blank
    <3> HIDE DEF B
    <3>2. Put(W, "boards", i, B) = Put(view, "boards", i, B)
      BY <1>1, <1>2, <1>8, <3>1, PutPut
    <3>3. <<disk', view'>> \in {<<W, W>>, <<W, Put(view, "boards", i, B)>>,
                                <<Put(view, "boards", i, B), Put(view, "boards", i, B)>>}
      BY <2>1, <2>2, <2>4, <3>2 DEF Between
    <3>4. Wrote("boards", i, rec, B)
      BY <3>3 DEF Wrote
    <3> QED BY <1>5, <1>8, <2>4, <3>1, <3>4
  <2> QED BY <2>5, <2>6
<1> QED BY <1>6, <1>9, <1>11, <1>12

LEMMA InvBoardsCreate ==
  ASSUME Inv, NEW t \in Titles, BoardsCreate(t)
  PROVE  Inv'
<1>1. PICK i \in Slots("boards"), q \in Entries("boards"), r \in Entries("boards") :
        /\ New("boards", i) /\ view["boards"][i].born = 0
        /\ Wrote("boards", i, q, r) /\ q.born = next + 1 /\ r.born = next + 1
        /\ fails' \in 0 .. MaxFaults
        /\ \/ UNCHANGED <<at, editor>>
           \/ /\ at' = "board" /\ id' = i /\ how' = "new" /\ tag' = ""
              /\ form' \in BoardRecords /\ form'.born = next + 1
              /\ view'["boards"][i].born = next + 1
  BY BoardsCreateWrites
<1>2. "boards" \in Kinds /\ at = "menu" /\ UNCHANGED content
  BY DEF Kinds, BoardsCreate
<1>3. /\ Later /\ next' = next + 1 /\ place'[next + 1] = <<"boards", i>>
      /\ next + 1 \in 1 .. next'
  BY <1>1, <1>2, NewLater DEF Inv, TypeInv
<1>4. Fits(q, "boards", i, next', place') /\ Fits(r, "boards", i, next', place')
  BY <1>1, <1>2, NewFits
<1>5. SetsTyped' /\ ContentTyped' /\ ContentInv'
  BY <1>1, <1>2, <1>3, <1>4, SameShrunk, WroteInv DEF Inv, TypeInv
<1>6. CASE UNCHANGED <<at, editor>>
  BY <1>2, <1>5, <1>6, MenuStays, InvParts
<1>7. CASE /\ at' = "board" /\ id' = i /\ how' = "new" /\ tag' = ""
           /\ form' \in BoardRecords /\ form'.born = next + 1
           /\ view'["boards"][i].born = next + 1
  <2>1. FormTyped' /\ FormKept'
    BY <1>3, <1>7 DEF FormTyped, FormKept
  <2> QED BY <1>5, <2>1, InvParts
<1> QED BY <1>1, <1>6, <1>7

LEMMA InvBoardsEdit ==
  ASSUME Inv, NEW i \in Slots("boards"), BoardsEdit(i)
  PROVE  Inv'
<1> DEFINE rec == view["boards"][i]
<1>1. /\ at' = "board" /\ OpenForm(rec, i, "old") /\ i \in Pick("boards")
      /\ disk' = view /\ view' = view /\ fails' = fails /\ UNCHANGED <<content, history>>
  BY DEF BoardsEdit
<1>2. "boards" \in Kinds
  BY DEF Kinds
<1>3. rec \in BoardRecords /\ IsLive(rec)
  BY <1>1, <1>2, LiveEntry, EntriesAre
<1>4. rec.born \in 1 .. next /\ place[rec.born] = <<"boards", i>>
  BY <1>2, <1>3 DEF IsLive, Inv, TypeInv, SetsTyped, Placed, Fits
<1>5. rec.tag \in {"", "tag"} /\ rec = view.boards[i]
  BY <1>3 DEF BoardRecords
<1>6. form' = rec /\ id' = i /\ how' = "old" /\ tag' \in {"", "tag"}
  BY <1>1, <1>5 DEF OpenForm
<1>7. FormTyped' /\ FormKept'
  BY <1>1, <1>3, <1>4, <1>6 DEF FormTyped, FormKept, history
<1>8. Later /\ Shrunk /\ fails' \in 0 .. MaxFaults
  BY <1>1, OldLater, SameShrunk DEF Old, history, Inv, TypeInv, SetsTyped
<1> QED BY <1>1, <1>7, <1>8, Untouched, InvParts

LEMMA KeyStep ==
  ASSUME Inv, UNCHANGED <<sets, content, history>>, FormTyped', FormKept'
  PROVE  Inv'
<1>1. Later /\ Shrunk
  BY OldLater, SameShrunk DEF Old, history, Inv, TypeInv
<1>2. view' = view /\ disk' = disk /\ fails' \in 0 .. MaxFaults
  BY DEF sets, Inv, TypeInv, SetsTyped
<1> QED BY <1>1, <1>2, Untouched, InvParts

LEMMA InvBoardKey == ASSUME Inv, BoardKey PROVE Inv'
<1>1. /\ at = "board" /\ at' = "board" /\ id' = id /\ how' = how
      /\ UNCHANGED <<sets, content, history>>
  BY DEF BoardKey
<1>2. form \in BoardRecords /\ tag \in {"", "tag"}
  BY <1>1 DEF Inv, TypeInv, FormTyped
<1>3. form' \in BoardRecords /\ form'.born = form.born /\ tag' \in {"", "tag"}
  <2>1. CASE \E t \in Titles : form' = [form EXCEPT !.title = t] /\ UNCHANGED tag
    BY <1>2, <2>1 DEF BoardRecords
  <2>2. CASE \E o \in Orders : form' = [form EXCEPT !.order = o] /\ UNCHANGED tag
    BY <1>2, <2>2 DEF BoardRecords
  <2>3. CASE form' = [form EXCEPT !.net = ~@] /\ UNCHANGED tag
    BY <1>2, <2>3 DEF BoardRecords
  <2>4. CASE \E g \in {"", "tag"} : tag' = g /\ UNCHANGED form
    BY <1>2, <2>4
  <2> QED BY <2>1, <2>2, <2>3, <2>4 DEF BoardKey
<1>4. FormTyped' /\ FormKept'
  BY <1>1, <1>3 DEF Inv, TypeInv, FormTyped, FormKept, sets, history
<1> QED BY <1>1, <1>4, KeyStep

LEMMA InvDoorKey == ASSUME Inv, DoorKey PROVE Inv'
<1>1. /\ at = "door" /\ at' = "door" /\ id' = id /\ how' = how /\ tag' = tag
      /\ UNCHANGED <<sets, content, history>>
  BY DEF DoorKey
<1>2. form \in AreaRecords
  BY <1>1 DEF Inv, TypeInv, FormTyped
<1>3. form' \in AreaRecords /\ form'.born = form.born
  BY <1>2 DEF AreaRecords, DoorKey
<1>4. FormTyped' /\ FormKept'
  BY <1>1, <1>3 DEF Inv, TypeInv, FormTyped, FormKept, history
<1> QED BY <1>1, <1>4, KeyStep

LEMMA InvDoorCancel == ASSUME Inv, DoorCancel PROVE Inv'
<1>1. FormTyped' /\ FormKept'
  BY ShutForm DEF DoorCancel
<1> QED BY <1>1, KeyStep DEF DoorCancel

\* The form's record and the one with its net tag are of one entry.
LEMMA NetAreaIs ==
  ASSUME NEW rec \in BoardRecords, tag \in {"", "tag"}
  PROVE  NetArea(rec) \in BoardRecords /\ NetArea(rec).born = rec.born
<1>1. CASE rec.net /\ tag # ""
  <2>1. NetArea(rec) = [rec EXCEPT !.tag = tag]
    BY <1>1 DEF NetArea
  <2> QED BY <2>1 DEF BoardRecords
<1>2. CASE ~(rec.net /\ tag # "")
  <2>1. NetArea(rec) = [rec EXCEPT !.tag = "", !.net = FALSE]
    BY <1>2 DEF NetArea
  <2> QED BY <2>1 DEF BoardRecords
<1> QED BY <1>1, <1>2

\* S: the record is saved, and then again with its net tag.
LEMMA BoardSaveWrites ==
  ASSUME Inv, BoardSave
  PROVE  \E q \in Entries("boards"), r \in Entries("boards") :
           /\ q.born = form.born /\ r.born = form.born
           /\ Tells("boards", id, form.born, q, r) /\ fails' \in 0 .. MaxFaults
           /\ \/ UNCHANGED <<at, editor>> /\ said' = Tried(form.born, Seen(r))
              \/ at' = "menu" /\ ClosedForm
<1> DEFINE r == NetArea(form)
           W == Put(view, "boards", id, form)
           V == Put(view, "boards", id, r)
<1>1. at = "board"
  BY DEF BoardSave
<1>2. form \in BoardRecords /\ id \in Slots("boards") /\ tag \in {"", "tag"}
  BY <1>1 DEF Inv, TypeInv, FormTyped
<1>3. "boards" \in Kinds /\ view \in Views
  BY DEF Kinds, Inv, TypeInv, SetsTyped
<1>4. r \in BoardRecords /\ r.born = form.born
  BY <1>2, NetAreaIs
<1>5. PICK p \in Save(Now, "boards", id, form) :
        \/ ~p.ok /\ Keep(p) /\ UNCHANGED <<at, editor>> /\ said' = Tried(form.born, Seen(form))
        \/ /\ p.ok /\ at' = "menu" /\ ClosedForm
           /\ \E q \in SetNetArea(p) :
                /\ Keep(q)
                /\ said' = [said EXCEPT ![form.born] =
                     IF q.ok THEN {Seen(r)} ELSE {Seen(form), Seen(r)}]
  BY DEF BoardSave
<1>6. form \in Entries("boards") /\ r \in Entries("boards")
  BY <1>2, <1>4, EntriesAre
<1>7. Between(Now, p, W)
  BY <1>2, <1>3, <1>6, NowOut, SaveOut DEF Inv, TypeInv
<1>8. ASSUME ~p.ok, Keep(p), UNCHANGED <<at, editor>>, said' = Tried(form.born, Seen(form))
      PROVE  Tells("boards", id, form.born, form, form) /\ fails' \in 0 .. MaxFaults
  <2>1. Wrote("boards", id, form, form) /\ fails' \in 0 .. MaxFaults
    BY <1>2, <1>3, <1>6, <1>8, SaveNow DEF Inv, TypeInv
  <2> QED BY <1>8, <2>1 DEF Tells
<1>9. ASSUME p.ok, NEW q \in SetNetArea(p), Keep(q),
             said' = [said EXCEPT ![form.born] =
                       IF q.ok THEN {Seen(r)} ELSE {Seen(form), Seen(r)}]
      PROVE  Tells("boards", id, form.born, form, r) /\ fails' \in 0 .. MaxFaults
  <2>1. p \in Outcomes /\ p.view = W /\ p.disk = W
    BY <1>7, <1>9 DEF Between
  <2>2. PICK o \in Open(p) :
          q \in IF o.ok /\ IsLive(form) THEN Save(o, "boards", id, r)
                ELSE {[o EXCEPT !.ok = FALSE]}
    BY <1>9 DEF SetNetArea
  <2> HIDE DEF r
  <2>3. Put(W, "boards", id, r) = V
    BY <1>2, <1>3, <1>6, PutPut
  <2> HIDE DEF W, V
  <2>4. o \in Outcomes /\ o.view = W /\ o.disk = W
    BY <2>1, <2>2, OpenOut
  <2>5. /\ <<q.disk, q.view>> \in {<<W, W>>, <<W, V>>, <<V, V>>} /\ q \in Outcomes
        /\ q.ok => q.disk = V /\ q.view = V
    <3>1. CASE q \in Save(o, "boards", id, r)
      <4>1. Between(o, q, V)
        BY <1>2, <1>3, <1>6, <2>3, <2>4, <3>1, SaveOut
      <4> QED BY <2>4, <4>1 DEF Between
    <3>2. CASE q = [o EXCEPT !.ok = FALSE]
      BY <2>4, <3>2 DEF Outcomes
    <3> QED BY <2>2, <3>1, <3>2
  <2>6. /\ <<disk', view'>> \in {<<W, W>>, <<W, V>>, <<V, V>>} /\ fails' \in 0 .. MaxFaults
        /\ q.ok => disk' = V /\ view' = V
    BY <1>9, <2>5 DEF Keep, Outcomes
  <2>7. Wrote("boards", id, form, r)
    BY <2>6 DEF Wrote, W, V
  <2>8. CASE q.ok
    <3>1. said' = Told(form.born, Seen(r)) /\ {disk', view'} \subseteq {V}
      BY <1>9, <2>6, <2>8 DEF Told
    <3> QED BY <2>6, <2>7, <3>1 DEF Tells, V
  <2>9. CASE ~q.ok
    <3>1. /\ said' = [said EXCEPT ![form.born] = {Seen(form), Seen(r)}]
          /\ {disk', view'} \subseteq {W, V}
      BY <1>9, <2>6, <2>9
    <3> QED BY <2>6, <2>7, <3>1 DEF Tells, W, V
  <2> QED BY <2>8, <2>9
<1> HIDE DEF r
<1> QED BY <1>4, <1>5, <1>6, <1>8, <1>9

LEMMA InvBoardSave == ASSUME Inv, BoardSave PROVE Inv'
<1>1. PICK q \in Entries("boards"), r \in Entries("boards") :
        /\ q.born = form.born /\ r.born = form.born
        /\ Tells("boards", id, form.born, q, r) /\ fails' \in 0 .. MaxFaults
        /\ UNCHANGED <<at, editor>> \/ (at' = "menu" /\ ClosedForm)
  BY BoardSaveWrites
<1>2. at = "board" /\ Old /\ Later /\ Shrunk
  BY OldLater, SameShrunk DEF BoardSave, Inv, TypeInv
<1>3. /\ id \in Slots("boards") /\ view["boards"][id].born = form.born
      /\ "boards" \in Kinds /\ view \in Views
  BY <1>2 DEF Kinds, Inv, TypeInv, SetsTyped, FormTyped, FormKept
<1>4. Fits(q, "boards", id, next', place') /\ Fits(r, "boards", id, next', place')
  BY <1>1, <1>2, <1>3, OldFits DEF Inv, TypeInv
<1>5. SetsTyped' /\ ContentTyped' /\ ContentInv'
  BY <1>1, <1>2, <1>3, <1>4, WroteInv DEF Tells
<1>6. CASE UNCHANGED <<at, editor>>
  <2>1. FormTyped'
    BY <1>2, <1>6 DEF Inv, TypeInv, FormTyped, editor, Old
  <2>2. FormKept'
    <3>1. view' \in {view, Put(view, "boards", id, q), Put(view, "boards", id, r)}
      BY <1>1 DEF Tells, Wrote
    <3>2. Put(view, "boards", id, q)["boards"][id] = q /\ Put(view, "boards", id, r)["boards"][id] = r
      BY <1>3, PutView
    <3>3. view'["boards"][id].born = form.born
      BY <1>1, <1>3, <3>1, <3>2
    <3> QED BY <1>6, <3>3 DEF FormKept, editor
  <2> QED BY <1>5, <2>1, <2>2, InvParts
<1>7. CASE at' = "menu" /\ ClosedForm
  BY <1>5, <1>7, ShutForm, InvParts
<1> QED BY <1>1, <1>6, <1>7

\* The form of a new board is given up: the board is deleted if it can be.
LEMMA InvBoardCancel == ASSUME Inv, BoardCancel PROVE Inv'
<1>1. at = "board" /\ UNCHANGED <<content, history>> /\ Later /\ Shrunk
  BY OldLater, SameShrunk DEF BoardCancel, Old, history, Inv, TypeInv
<1>2. FormTyped' /\ FormKept'
  BY ShutForm DEF BoardCancel
<1>3. id \in Slots("boards") /\ "boards" \in Kinds
  BY <1>1 DEF Kinds, Inv, TypeInv, FormTyped
<1>4. CASE UNCHANGED sets
  BY <1>1, <1>2, <1>4, KeyStep
<1>5. ASSUME NEW p \in Delete(Now, "boards", id), Keep(p)
      PROVE  Inv'
  <2>1. /\ Between(Now, p, Put(view, "boards", id, Blank(view["boards"][id])))
        /\ ~IsLive(view["boards"][id]) => p.view = view /\ p.disk \in {disk, view}
    BY <1>3, NowOut, DeleteOut DEF Inv, TypeInv
  <2>2. p \in Outcomes /\ p.fails \in 0 .. MaxFaults
    BY <2>1 DEF Between, Outcomes
  <2>3. CASE ~IsLive(view["boards"][id])
    <3>1. view' = view /\ disk' \in {disk, view} /\ fails' \in 0 .. MaxFaults
      BY <1>5, <2>1, <2>2, <2>3 DEF Keep
    <3> QED BY <1>1, <1>2, <3>1, Untouched, InvParts
  <2>4. CASE IsLive(view["boards"][id])
    <3> DEFINE r == Blank(view["boards"][id])
    <3>1. /\ Wrote("boards", id, r, r) /\ fails' \in 0 .. MaxFaults
          /\ r \in Entries("boards") /\ r.born = view["boards"][id].born
      BY <1>3, <1>5, <2>2, <2>4, DeleteNow DEF Inv, TypeInv
    <3> HIDE DEF r
    <3>2. Fits(r, "boards", id, next', place')
      BY <1>1, <1>3, <3>1, OldFits DEF Inv, TypeInv
    <3>3. SetsTyped' /\ ContentTyped' /\ ContentInv'
      BY <1>1, <1>3, <3>1, <3>2, WroteInv
    <3> QED BY <1>2, <3>3, InvParts
  <2> QED BY <2>3, <2>4
<1> QED BY <1>4, <1>5 DEF BoardCancel

\* What was kept of a board is scratched, each file or not.
LEMMA InvBoardsDelete ==
  ASSUME Inv, NEW i \in Slots("boards"), BoardsDelete(i)
  PROVE  Inv'
<1>1. /\ at = "menu" /\ Old /\ i \in Pick("boards") /\ "boards" \in Kinds
      /\ pointers' = pointers /\ entries' = entries /\ UNCHANGED <<at, editor>>
  BY DEF BoardsDelete, Kinds
<1>2. IsLive(view["boards"][i])
  BY <1>1, LiveEntry
<1>3. PICK p \in Delete(Now, "boards", i) :
        \/ Keep(p) /\ UNCHANGED <<index, bodies>>
        \/ \E kept \in IF Fault("scratch", p) THEN SUBSET {"idx", "txt"} ELSE {{}} :
             /\ index' = [index EXCEPT ![i] = IF "idx" \in kept THEN @ ELSE 0]
             /\ bodies' = [bodies EXCEPT ![i] = IF "txt" \in kept THEN @ ELSE 0]
             /\ Keep(IF kept = {} THEN p ELSE [p EXCEPT !.fails = @ + 1])
  BY DEF BoardsDelete
<1>4. p \in Outcomes
  BY <1>1, NowOut, DeleteOut DEF Between, Inv, TypeInv
<1>5. CASE Keep(p) /\ UNCHANGED <<index, bodies>>
  <2>1. Shrunk
    BY <1>1, <1>5, SameShrunk DEF content, Inv, TypeInv
  <2>2. p.fails \in 0 .. MaxFaults
    BY <1>4 DEF Outcomes
  <2> QED BY <1>1, <1>2, <1>5, <2>1, <2>2, DeleteStep
<1>6. ASSUME NEW kept \in IF Fault("scratch", p) THEN SUBSET {"idx", "txt"} ELSE {{}},
             index' = [index EXCEPT ![i] = IF "idx" \in kept THEN @ ELSE 0],
             bodies' = [bodies EXCEPT ![i] = IF "txt" \in kept THEN @ ELSE 0],
             Keep(IF kept = {} THEN p ELSE [p EXCEPT !.fails = @ + 1])
      PROVE  Inv'
  <2> DEFINE o == IF kept = {} THEN p ELSE [p EXCEPT !.fails = @ + 1]
  <2>1. Shrunk
    <3>1. 0 \in Serials
      BY Bounds DEF Serials
    <3> QED BY <1>1, <1>6, <3>1 DEF Shrunk, ContentTyped, Inv, TypeInv
  <2>2. o.view = p.view /\ o.disk = p.disk /\ o.fails \in 0 .. MaxFaults
    <3>1. CASE kept = {}
      BY <1>4, <3>1 DEF Outcomes
    <3>2. CASE kept # {}
      <4>1. Fault("scratch", p)
        BY <1>6, <3>2
      <4>2. p.fails + 1 \in 0 .. MaxFaults
        BY <1>4, <4>1, FaultBound
      <4>3. o = [p EXCEPT !.fails = @ + 1]
        BY <3>2
      <4> QED BY <1>4, <4>2, <4>3 DEF Outcomes
    <3> QED BY <3>1, <3>2
  <2>3. Keep(o)
    BY <1>6
  <2> HIDE DEF o
  <2> QED BY <1>1, <1>2, <2>1, <2>2, <2>3, DeleteStep
<1> QED BY <1>3, <1>5, <1>6

\* A poll is saved with two options, and then with its own number.
LEMMA VotesCreateWrites ==
  ASSUME Inv, NEW t \in Titles, NEW n \in Options, VotesCreate(t, n)
  PROVE  \E i \in Slots("polls"), q \in Entries("polls"), r \in Entries("polls") :
           /\ New("polls", i) /\ view["polls"][i].born = 0
           /\ Wrote("polls", i, q, r) /\ q.born = next + 1 /\ r.born = next + 1
           /\ fails' \in 0 .. MaxFaults
           /\ said' = said \/ Tells("polls", i, next + 1, q, r)
<1> DEFINE i == NextVote
           first == VoteRecord(next + 1, t, 2, TRUE)
           rec == VoteRecord(next + 1, t, n, TRUE)
           W == Put(view, "polls", i, first)
           V == Put(view, "polls", i, rec)
<1>1. "polls" \in Numbered /\ "polls" \in Kinds /\ Max["polls"] = MaxPolls
  BY DEF Numbered, Kinds, Max
<1>2. i \in Slots("polls") /\ view["polls"][i].born = 0
  BY <1>1, NewNumber DEF VotesCreate, NextVote
<1>3. New("polls", i)
  BY DEF VotesCreate
<1>4. next + 1 \in Serials
  BY <1>1, <1>2, <1>3, NewLater DEF Inv, TypeInv
<1>5. /\ first \in VoteRecords /\ first.born = next + 1
      /\ rec \in VoteRecords /\ rec.born = next + 1
  BY <1>4, Bounds DEF VoteRecord, VoteRecords
<1>6. PICK p \in Save(Now, "polls", i, first) :
        \/ ~p.ok /\ Keep(p) /\ said' = said
        \/ /\ p.ok
           /\ \E q \in Open(p) :
                \E r \in IF q.ok /\ IsLive(rec) THEN Save(q, "polls", i, rec)
                         ELSE {[q EXCEPT !.ok = FALSE]} :
                  /\ Keep(r)
                  /\ said' = [said EXCEPT ![rec.born] =
                       IF r.ok THEN {Seen(rec)} ELSE {Seen(first), Seen(rec)}]
  BY DEF VotesCreate
<1> HIDE DEF i, first, rec
<1>7. first \in Entries("polls") /\ rec \in Entries("polls") /\ view \in Views
  BY <1>5, EntriesAre DEF Inv, TypeInv, SetsTyped
<1>8. CASE ~p.ok /\ Keep(p) /\ said' = said
  <2>1. Wrote("polls", i, first, first) /\ fails' \in 0 .. MaxFaults
    BY <1>1, <1>2, <1>7, <1>8, SaveNow DEF Inv, TypeInv
  <2> QED BY <1>2, <1>3, <1>5, <1>7, <1>8, <2>1
<1>9. ASSUME p.ok, NEW q \in Open(p),
             NEW r \in IF q.ok /\ IsLive(rec) THEN Save(q, "polls", i, rec)
                       ELSE {[q EXCEPT !.ok = FALSE]},
             Keep(r),
             said' = [said EXCEPT ![rec.born] =
                       IF r.ok THEN {Seen(rec)} ELSE {Seen(first), Seen(rec)}]
      PROVE  /\ Wrote("polls", i, first, rec) /\ fails' \in 0 .. MaxFaults
             /\ Tells("polls", i, next + 1, first, rec)
  <2>1. Between(Now, p, Put(Now.view, "polls", i, first))
    BY <1>1, <1>2, <1>7, NowOut, SaveOut DEF Inv, TypeInv
  <2>2. p \in Outcomes /\ p.view = W /\ p.disk = W
    BY <1>9, <2>1, NowOut DEF Between, Inv, TypeInv
  <2>3. Put(W, "polls", i, rec) = V
    BY <1>1, <1>2, <1>7, PutPut
  <2> HIDE DEF W, V
  <2>4. q \in Outcomes /\ q.view = W /\ q.disk = W
    BY <2>2, OpenOut
  <2>5. /\ <<r.disk, r.view>> \in {<<W, W>>, <<W, V>>, <<V, V>>} /\ r \in Outcomes
        /\ r.ok => r.disk = V /\ r.view = V
    <3>1. CASE r \in Save(q, "polls", i, rec)
      <4>1. Between(q, r, V)
        BY <1>1, <1>2, <1>7, <2>3, <2>4, <3>1, SaveOut
      <4> QED BY <2>4, <4>1 DEF Between
    <3>2. CASE r = [q EXCEPT !.ok = FALSE]
      BY <2>4, <3>2 DEF Outcomes
    <3> QED BY <3>1, <3>2
  <2>6. /\ <<disk', view'>> \in {<<W, W>>, <<W, V>>, <<V, V>>} /\ fails' \in 0 .. MaxFaults
        /\ r.ok => disk' = V /\ view' = V
    BY <1>9, <2>5 DEF Keep, Outcomes
  <2>7. Wrote("polls", i, first, rec)
    BY <2>6 DEF Wrote, W, V
  <2>8. CASE r.ok
    <3>1. said' = Told(next + 1, Seen(rec)) /\ {disk', view'} \subseteq {V}
      BY <1>5, <1>9, <2>6, <2>8 DEF Told
    <3> QED BY <2>6, <2>7, <3>1 DEF Tells, V
  <2>9. CASE ~r.ok
    <3>1. /\ said' = [said EXCEPT ![next + 1] = {Seen(first), Seen(rec)}]
          /\ {disk', view'} \subseteq {W, V}
      BY <1>5, <1>9, <2>6, <2>9
    <3> QED BY <2>6, <2>7, <3>1 DEF Tells, W, V
  <2> QED BY <2>8, <2>9, <2>7, <2>6
<1> QED BY <1>2, <1>3, <1>5, <1>6, <1>7, <1>8, <1>9

LEMMA InvVotesCreate ==
  ASSUME Inv, NEW t \in Titles, NEW n \in Options, VotesCreate(t, n)
  PROVE  Inv'
<1>1. PICK i \in Slots("polls"), q \in Entries("polls"), r \in Entries("polls") :
        /\ New("polls", i) /\ view["polls"][i].born = 0
        /\ Wrote("polls", i, q, r) /\ q.born = next + 1 /\ r.born = next + 1
        /\ fails' \in 0 .. MaxFaults
  BY VotesCreateWrites
<1>2. "polls" \in Kinds /\ at = "menu" /\ UNCHANGED <<content, at, editor>>
  BY DEF Kinds, VotesCreate
<1>3. Later
  BY <1>1, <1>2, NewLater DEF Inv, TypeInv
<1>4. Fits(q, "polls", i, next', place') /\ Fits(r, "polls", i, next', place')
  BY <1>1, <1>2, NewFits
<1>5. SetsTyped' /\ ContentTyped' /\ ContentInv'
  BY <1>1, <1>2, <1>3, <1>4, SameShrunk, WroteInv DEF Inv, TypeInv
<1>6. FormTyped' /\ FormKept'
  BY <1>2, MenuStays
<1> QED BY <1>5, <1>6, InvParts

LEMMA InvDoorsCreate ==
  ASSUME Inv, NEW i \in Slots("doors"), DoorsCreate(i)
  PROVE  Inv'
<1> DEFINE rec == DoorRecord(next + 1, " ", 0)
<1>1. /\ at' = "door" /\ OpenForm(rec, i, "new") /\ New("doors", i)
      /\ view' = view /\ disk' = view /\ UNCHANGED content
  BY DEF DoorsCreate
<1>2. "doors" \in Kinds
  BY DEF Kinds
<1>3. /\ Later /\ next' = next + 1 /\ place'[next + 1] = <<"doors", i>>
      /\ next + 1 \in 1 .. next' /\ next + 1 \in Serials
  BY <1>1, <1>2, NewLater DEF Inv, TypeInv
<1>4. fails' \in 0 .. MaxFaults
  <2>1. fails \in 0 .. MaxFaults
    BY DEF Inv, TypeInv, SetsTyped
  <2>2. CASE Fault("slot", Now) /\ fails' = fails + 1
    BY <2>1, <2>2, Bounds DEF Fault, Now
  <2> QED BY <2>1, <2>2 DEF DoorsCreate
<1>5. rec \in AreaRecords /\ rec.born = next + 1 /\ "tag" \notin DOMAIN rec
  BY <1>3, Bounds DEF DoorRecord, AreaRecords, Titles
<1> HIDE DEF rec
<1>6. form' = rec /\ id' = i /\ how' = "new" /\ tag' = ""
  BY <1>1, <1>5 DEF OpenForm
<1>7. FormTyped' /\ FormKept'
  BY <1>1, <1>3, <1>5, <1>6 DEF FormTyped, FormKept
<1>8. Shrunk
  BY <1>1, SameShrunk DEF Inv, TypeInv
<1> QED BY <1>1, <1>3, <1>4, <1>7, <1>8, Untouched, InvParts

LEMMA InvDoorsEdit ==
  ASSUME Inv, NEW i \in Slots("doors"), DoorsEdit(i)
  PROVE  Inv'
<1> DEFINE rec == view["doors"][i]
<1>1. /\ at' = "door" /\ OpenForm(rec, i, "old") /\ i \in Pick("doors")
      /\ disk' = view /\ view' = view /\ fails' = fails /\ UNCHANGED <<content, history>>
  BY DEF DoorsEdit
<1>2. "doors" \in Kinds
  BY DEF Kinds
<1>3. rec \in AreaRecords /\ IsLive(rec)
  BY <1>1, <1>2, LiveEntry, EntriesAre
<1>4. rec.born \in 1 .. next /\ place[rec.born] = <<"doors", i>>
  BY <1>2, <1>3 DEF IsLive, Inv, TypeInv, SetsTyped, Placed, Fits
<1>5. "tag" \notin DOMAIN rec
  BY <1>3 DEF AreaRecords
<1>6. form' = rec /\ id' = i /\ how' = "old" /\ tag' = ""
  BY <1>1, <1>5 DEF OpenForm
<1>7. FormTyped' /\ FormKept'
  BY <1>1, <1>3, <1>4, <1>6 DEF FormTyped, FormKept, history
<1>8. Later /\ Shrunk /\ fails' \in 0 .. MaxFaults
  BY <1>1, OldLater, SameShrunk DEF Old, history, Inv, TypeInv, SetsTyped
<1> QED BY <1>1, <1>7, <1>8, Untouched, InvParts

LEMMA InvDoorSave == ASSUME Inv, DoorSave PROVE Inv'
<1>1. at = "door" /\ Old /\ UNCHANGED content /\ Later /\ Shrunk
  BY OldLater, SameShrunk DEF DoorSave, Inv, TypeInv
<1>2. /\ form \in AreaRecords /\ id \in Slots("doors")
      /\ form.born \in 1 .. next /\ place[form.born] = <<"doors", id>>
  BY <1>1 DEF Inv, TypeInv, FormTyped
<1>3. "doors" \in Kinds /\ "doors" \notin Numbered /\ form \in Entries("doors")
  BY <1>2, EntriesAre DEF Kinds, Numbered
<1>4. Fits(form, "doors", id, next', place')
  BY <1>1, <1>2 DEF Fits, Old
<1>5. PICK p \in Save(Now, "doors", id, form) :
        Keep(p) /\ \/ at' = "menu" /\ ClosedForm
                   \/ UNCHANGED <<at, editor>>
  BY DEF DoorSave
<1>6. Wrote("doors", id, form, form) /\ fails' \in 0 .. MaxFaults
  BY <1>2, <1>3, <1>5, SaveNow DEF Inv, TypeInv
<1>7. SetsTyped' /\ ContentTyped' /\ ContentInv'
  BY <1>1, <1>2, <1>3, <1>4, <1>6, WroteInv
<1>8. FormTyped' /\ FormKept'
  <2>1. CASE at' = "menu" /\ ClosedForm
    BY <2>1, ShutForm
  <2>2. CASE UNCHANGED <<at, editor>>
    BY <1>1, <2>2 DEF Inv, TypeInv, FormTyped, FormKept, editor, Old
  <2> QED BY <1>5, <2>1, <2>2
<1> QED BY <1>7, <1>8, InvParts

LEMMA InvStutter == ASSUME Inv, UNCHANGED vars PROVE Inv'
<1>1. UNCHANGED <<sets, content, history>> /\ UNCHANGED <<at, editor>>
  BY DEF vars
<1>2. FormTyped' /\ FormKept'
  BY <1>1 DEF Inv, TypeInv, FormTyped, FormKept, sets, editor, history
<1> QED BY <1>1, <1>2, KeyStep

-----------------------------------------------------------------------------
LEMMA InvInit == ASSUME Init PROVE Inv
<1> DEFINE empty == [k \in Kinds |-> [i \in Slots(k) |-> Unused]]
<1>1. view = empty /\ disk = empty
  BY DEF Init
<1>2. /\ empty \in Views
      /\ \A k \in Kinds : \A i \in Slots(k) : empty[k][i] = Unused
  <2>1. \A k \in Kinds : [i \in Slots(k) |-> Unused] \in [Slots(k) -> Entries(k)]
    BY EntriesAre
  <2> QED BY <2>1 DEF Views
<1> HIDE DEF empty
<1>3. Placed(empty, next, place)
  BY <1>2, UnusedFields DEF Placed, Fits
<1>4. next = 0 /\ fails = 0 /\ place = [s \in 1 .. MaxEntries |-> << >>]
  BY DEF Init
<1>5. SetsTyped
  <2>1. next \in Serials /\ fails \in 0 .. MaxFaults /\ 1 .. next = {}
    BY <1>4, Bounds DEF Serials
  <2>2. place \in [1 .. MaxEntries -> {<< >>} \cup Places]
    BY <1>4
  <2> QED BY <1>1, <1>2, <1>3, <2>1, <2>2 DEF SetsTyped
<1>6. /\ index = [i \in Slots("boards") |-> 0] /\ bodies = index /\ pointers = index
      /\ entries = [i \in Slots("areas") |-> 0] /\ 0 \in Serials
  <2>1. 0 \in Serials
    BY Bounds DEF Serials
  <2> QED BY <2>1, Zenon DEF Init
<1>7. ContentTyped
  BY <1>6 DEF ContentTyped
<1>8. ContentInv
  BY <1>1, <1>6, GrowsSelf DEF ContentInv
<1>9. FormTyped /\ FormKept
  BY DEF Init, FormTyped, FormKept
<1> QED BY <1>5, <1>7, <1>8, <1>9 DEF Inv, TypeInv

LEMMA InvNext == ASSUME Inv, [Next]_vars PROVE Inv'
<1>1. CASE Start BY <1>1, InvStart
<1>2. CASE Reset BY <1>2, InvReset
<1>3. CASE Browse BY <1>3, InvBrowse
<1>4. CASE \E b \in Slots("boards") : Visit(b) BY <1>4, InvVisit
<1>5. CASE \E a \in Slots("areas") : Upload(a) BY <1>5, InvUpload
<1>6. CASE Boards
  BY <1>6, InvBoardsCreate, InvBoardsEdit, InvBoardsDelete, InvBoardKey, InvBoardSave,
     InvBoardCancel DEF Boards
<1>7. CASE Areas BY <1>7, InvAreasCreate, InvAreasDelete, InvAreasEdit DEF Areas
<1>8. CASE Votes BY <1>8, InvVotesCreate, InvVotesToggle, InvVotesDelete DEF Votes
<1>9. CASE Doors
  BY <1>9, InvDoorsCreate, InvDoorsEdit, InvDoorsDelete, InvDoorKey, InvDoorSave,
     InvDoorCancel DEF Doors
<1>10. CASE UNCHANGED vars BY <1>10, InvStutter
<1> QED BY <1>1, <1>2, <1>3, <1>4, <1>5, <1>6, <1>7, <1>8, <1>9, <1>10 DEF Next

LEMMA InvAlways == Spec => []Inv
<1>1. Init => Inv
  BY InvInit
<1>2. Inv /\ [Next]_vars => Inv'
  BY InvNext
<1> QED BY <1>1, <1>2, PTL DEF Spec

LEMMA InvGivesType == ASSUME Inv PROVE TypeOK
<1>1. ASSUME NEW v \in {view, disk}, NEW k \in Kinds
      PROVE  v[k] \in [Slots(k) -> Entries(k)] /\ \A i \in Slots(k) : v[k][i].born <= next
  <2>1. v \in Views /\ Placed(v, next, place) /\ next \in Nat
    BY Bounds DEF Inv, TypeInv, SetsTyped, Serials
  <2>2. \A i \in Slots(k) : v[k][i].born <= next
    BY <2>1 DEF Placed, Fits
  <2> QED BY <2>1, <2>2 DEF Views
<1>2. /\ {index, bodies, pointers} \subseteq [Slots("boards") -> Serials]
      /\ entries \in [Slots("areas") -> Serials]
  BY DEF Inv, TypeInv, ContentTyped
<1>3. /\ at \in {"off", "menu", "board", "door"} /\ how \in {"none", "new", "old"}
      /\ at = "board" => form \in BoardRecords /\ place[form.born] = <<"boards", id>>
      /\ at = "door" => form \in AreaRecords /\ place[form.born] = <<"doors", id>>
      /\ tag \in {"", "tag"} /\ next \in Serials /\ fails \in 0 .. MaxFaults
  BY DEF Inv, TypeInv, FormTyped, SetsTyped
<1> QED BY <1>1, <1>2, <1>3 DEF TypeOK

\* The sets, what is kept beside them and the form are of their types, and the
\* form of a board or a door is that of its own slot, over every save, failure
\* and reset (data/boards.c, file_areas.c, votes.c, doors.c and their editors).
THEOREM TypeCorrect == Spec => []TypeOK
<1>1. Inv => TypeOK
  BY InvGivesType
<1> QED BY <1>1, InvAlways, PTL

\* No board or area finds messages, bodies, read pointers or files of an earlier
\* one under its number: board_create() and file_area_create() give the number
\* after the highest ever used, and no failure or reset takes one back from an
\* entry that something was written for.
THEOREM NothingInherited == Spec => []OwnContent
<1>1. ASSUME Inv PROVE OwnContent
  <2>1. ASSUME NEW b \in Slots("boards"), view.boards[b].born # 0
        PROVE  {index[b], bodies[b], pointers[b]} \subseteq {0, view.boards[b].born}
    <3>1. {index[b], bodies[b], pointers[b]} \subseteq {0, disk.boards[b].born}
      BY <1>1 DEF Inv, ContentInv
    <3>2. disk.boards[b].born \in {0, view.boards[b].born}
      BY <1>1 DEF Inv, ContentInv, Grows, Numbered
    <3> QED BY <3>1, <3>2
  <2>2. ASSUME NEW a \in Slots("areas"), view.areas[a].born # 0
        PROVE  entries[a] \in {0, view.areas[a].born}
    <3>1. entries[a] \in {0, disk.areas[a].born}
      BY <1>1 DEF Inv, ContentInv
    <3>2. disk.areas[a].born \in {0, view.areas[a].born}
      BY <1>1 DEF Inv, ContentInv, Grows, Numbered
    <3> QED BY <3>1, <3>2
  <2> QED BY <1>1, <2>1, <2>2 DEF OwnContent, Inv, ContentInv
<1>2. Inv => OwnContent
  BY <1>1
<1> QED BY <1>2, InvAlways, PTL

-----------------------------------------------------------------------------
(* What the SysOp was told. *)

\* What the set v has of entry s at number i of k.
Has(v, k, i, s) == IF v[k][i].born = s THEN Seen(v[k][i]) ELSE Gone

Announced(s) == s \in 1 .. MaxEntries /\ said[s] # {}

SaidSets ==
  /\ DOMAIN said = 1 .. MaxEntries
  /\ \A s \in 1 .. MaxEntries : Announced(s) =>
       /\ s \in 1 .. next
       /\ RecordOf(view, s) \in said[s] /\ RecordOf(disk, s) \in said[s]
       /\ place[s][1] \in Numbered => disk[place[s][1]][place[s][2]].born = s
\* The door a form is about may be put in the place of others that are gone; a
\* board that was never said to be saved may be deleted without a word.
SaidForm ==
  /\ at = "door" => \A s \in 1 .. MaxEntries :
       Announced(s) /\ s # form.born /\ place[s] = <<"doors", id>> => Gone \in said[s]
  /\ at = "board" /\ how = "new" => ~Announced(form.born)
SaidInv == SaidSets /\ SaidForm

LEMMA HasPut ==
  ASSUME NEW v \in Views, NEW k \in Kinds, NEW i \in Slots(k), NEW r \in Entries(k), NEW s
  PROVE  /\ Has(Put(v, k, i, r), k, i, s) = IF r.born = s THEN Seen(r) ELSE Gone
         /\ \A l \in Kinds : \A j \in Slots(l) :
              <<l, j>> # <<k, i>> => Has(Put(v, k, i, r), l, j, s) = Has(v, l, j, s)
BY PutView DEF Has

LEMMA RecordHas ==
  ASSUME SetsTyped, NEW s \in 1 .. next
  PROVE  \E k \in Kinds : \E i \in Slots(k) :
           /\ place[s] = <<k, i>> /\ place[s][1] = k /\ place[s][2] = i
           /\ \A v : RecordOf(v, s) = Has(v, k, i, s)
<1>1. place[s] \in Places
  BY DEF SetsTyped
<1>2. PICK k \in Kinds : place[s] \in {k} \X Slots(k)
  BY <1>1 DEF Places
<1>3. PICK i \in Slots(k) : place[s] = <<k, i>>
  BY <1>2
<1>4. place[s][1] = k /\ place[s][2] = i
  BY <1>3
<1>5. \A v : RecordOf(v, s) = Has(v, k, i, s)
  BY <1>4 DEF RecordOf, Has
<1> QED BY <1>3, <1>4, <1>5

\* The one entry a step is about is s, at number i of k.
LEMMA SaidStep ==
  ASSUME Inv, SaidSets, Later,
         NEW k \in Kinds, NEW i \in Slots(k), NEW q \in Entries(k), NEW r \in Entries(k),
         NEW s \in 1 .. MaxEntries, Wrote(k, i, q, r),
         q.born \in {0, s}, r.born \in {0, s}, s \in 1 .. next', place'[s] = <<k, i>>,
         k \in Numbered => view[k][i].born \in {0, q.born} /\ q.born = r.born,
         DOMAIN said' = 1 .. MaxEntries,
         \A x \in 1 .. MaxEntries \ {s} : said'[x] = said[x],
         \A x \in 1 .. MaxEntries \ {s} :
           Announced(x) /\ place[x] = <<k, i>> => k \notin Numbered /\ Gone \in said[x],
         said'[s] # {} => /\ Has(view', k, i, s) \in said'[s] /\ Has(disk', k, i, s) \in said'[s]
                          /\ k \in Numbered => disk'[k][i].born = s
  PROVE  SaidSets'
<1> DEFINE A == Put(view, k, i, q)  B == Put(view, k, i, r)
<1>1. ASSUME NEW x \in 1 .. MaxEntries, said'[x] # {}, x # s
      PROVE  /\ x \in 1 .. next'
             /\ RecordOf(view, x)' \in said'[x] /\ RecordOf(disk, x)' \in said'[x]
             /\ place'[x][1] \in Numbered => disk'[place'[x][1]][place'[x][2]].born = x
  <2>1. said'[x] = said[x] /\ Announced(x)
    BY <1>1 DEF Announced
  <2>2. x \in 1 .. next /\ RecordOf(view, x) \in said[x] /\ RecordOf(disk, x) \in said[x]
    BY <2>1 DEF SaidSets
  <2>a. PICK l \in Kinds : \E j \in Slots(l) :
          /\ place[x] = <<l, j>> /\ place[x][1] = l /\ place[x][2] = j
          /\ \A v : RecordOf(v, x) = Has(v, l, j, x)
    BY <2>2, RecordHas DEF Inv, TypeInv
  <2>3. PICK j \in Slots(l) :
          /\ place[x] = <<l, j>> /\ place[x][1] = l /\ place[x][2] = j
          /\ \A v : RecordOf(v, x) = Has(v, l, j, x)
    BY <2>a
  <2>4. place'[x] = <<l, j>> /\ place'[x][1] = l /\ place'[x][2] = j
    BY <2>2, <2>3 DEF Later
  <2>5. x \in 1 .. next'
    BY <2>2, Bounds DEF Later, Serials, Inv, TypeInv, SetsTyped
  <2>6. RecordOf(view, x)' = Has(view', l, j, x) /\ RecordOf(disk, x)' = Has(disk', l, j, x)
    BY <2>4 DEF RecordOf, Has
  <2>7. Has(view, l, j, x) \in said[x] /\ Has(disk, l, j, x) \in said[x]
    BY <2>2, <2>3
  <2>8. Has(A, l, j, x) \in said[x] /\ Has(B, l, j, x) \in said[x]
    <3>1. view \in Views
      BY DEF Inv, TypeInv, SetsTyped
    <3>2. CASE <<l, j>> = <<k, i>>
      <4>1. Gone \in said[x]
        BY <2>1, <2>3, <1>1, <3>2
      <4>2. q.born # x /\ r.born # x
        BY <1>1
      <4>3. l = k /\ j = i
        BY <3>2
      <4>4. Has(A, k, i, x) = Gone /\ Has(B, k, i, x) = Gone
        BY <3>1, <4>2, HasPut
      <4> QED BY <4>1, <4>3, <4>4
    <3>3. CASE <<l, j>> # <<k, i>>
      <4>1. Has(A, l, j, x) = Has(view, l, j, x) /\ Has(B, l, j, x) = Has(view, l, j, x)
        BY <3>1, <3>3, HasPut
      <4> QED BY <2>7, <4>1
    <3> QED BY <3>2, <3>3
  <2>9. disk' \in {disk, view, A, B} /\ view' \in {disk, view, A, B}
    BY DEF Wrote
  <2>10. Has(view', l, j, x) \in said'[x] /\ Has(disk', l, j, x) \in said'[x]
    <3> HIDE DEF A, B
    <3> QED BY <2>1, <2>7, <2>8, <2>9
  <2>11. l \in Numbered => disk'[l][j].born = x
    <3>1. ASSUME l \in Numbered PROVE disk[l][j].born = x
      BY <2>1, <2>3, <3>1 DEF SaidSets
    <3>2. Grows(disk, disk')
      BY WroteGrows DEF Inv, TypeInv, SetsTyped, ContentInv
    <3>3. x # 0
      OBVIOUS
    <3> QED BY <3>1, <3>2, <3>3 DEF Grows
  <2> QED BY <2>4, <2>5, <2>6, <2>10, <2>11
<1>2. ASSUME said'[s] # {}
      PROVE  /\ RecordOf(view, s)' \in said'[s] /\ RecordOf(disk, s)' \in said'[s]
             /\ place'[s][1] \in Numbered => disk'[place'[s][1]][place'[s][2]].born = s
  <2>1. place'[s][1] = k /\ place'[s][2] = i
    OBVIOUS
  <2>2. RecordOf(view, s)' = Has(view', k, i, s) /\ RecordOf(disk, s)' = Has(disk', k, i, s)
    BY <2>1 DEF RecordOf, Has
  <2> QED BY <1>2, <2>1, <2>2
<1> HIDE DEF A, B
<1>3. ASSUME NEW x \in 1 .. MaxEntries, Announced(x)'
      PROVE  /\ x \in 1 .. next'
             /\ RecordOf(view, x)' \in said'[x] /\ RecordOf(disk, x)' \in said'[x]
             /\ place'[x][1] \in Numbered => disk'[place'[x][1]][place'[x][2]].born = x
  <2>1. said'[x] # {}
    BY <1>3 DEF Announced
  <2>2. CASE x = s BY <1>2, <2>1, <2>2
  <2>3. CASE x # s BY <1>1, <2>1, <2>3
  <2> QED BY <2>2, <2>3
<1> QED BY <1>3 DEF SaidSets

\* A step that tells of s.
LEMMA TellsSaid ==
  ASSUME Inv, SaidSets, Later,
         NEW k \in Kinds, NEW i \in Slots(k), NEW q \in Entries(k), NEW r \in Entries(k),
         NEW s \in 1 .. MaxEntries, s \in 1 .. next', place'[s] = <<k, i>>,
         q.born = s \/ (q.born = 0 /\ Seen(q) = Gone), r.born = s \/ (r.born = 0 /\ Seen(r) = Gone),
         k \in Numbered => view[k][i].born \in {0, s} /\ q.born = s /\ r.born = s,
         \A x \in 1 .. MaxEntries \ {s} :
           Announced(x) /\ place[x] = <<k, i>> => k \notin Numbered /\ Gone \in said[x],
         Tells(k, i, s, q, r) \/ (Wrote(k, i, q, r) /\ said' = said /\ ~Announced(s))
  PROVE  SaidSets'
<1> DEFINE A == Put(view, k, i, q)  B == Put(view, k, i, r)
<1>1. Wrote(k, i, q, r)
  BY DEF Tells
<1>2. view \in Views /\ disk \in Views /\ DOMAIN said = 1 .. MaxEntries
  BY DEF Inv, TypeInv, SetsTyped, SaidSets
<1>3. /\ DOMAIN said' = 1 .. MaxEntries
      /\ \A x \in 1 .. MaxEntries \ {s} : said'[x] = said[x]
  BY <1>2 DEF Tells, Tried, Told
<1>4. Has(A, k, i, s) = Seen(q) /\ Has(B, k, i, s) = Seen(r)
  BY <1>2, HasPut
<1>5. k \in Numbered => A[k][i].born = s /\ B[k][i].born = s
  BY <1>2, PutView
<1>6. ASSUME said'[s] # {}
      PROVE  /\ Has(view', k, i, s) \in said'[s] /\ Has(disk', k, i, s) \in said'[s]
             /\ k \in Numbered => disk'[k][i].born = s
  <2>1. CASE Wrote(k, i, q, r) /\ said' = said /\ ~Announced(s)
    BY <1>6, <2>1 DEF Announced
  <2>2. CASE said' = Tried(s, Seen(r)) /\ q = r
    <3>1. Announced(s) /\ said'[s] = said[s] \cup {Seen(r)}
      BY <1>2, <1>6, <2>2 DEF Tried, Announced
    <3>2. s \in 1 .. next /\ RecordOf(view, s) \in said[s] /\ RecordOf(disk, s) \in said[s]
      BY <3>1 DEF SaidSets
    <3>3. place[s] = <<k, i>>
      BY <3>2 DEF Later
    <3>4. place[s][1] = k /\ place[s][2] = i
      BY <3>3
    <3>5. Has(view, k, i, s) \in said[s] /\ Has(disk, k, i, s) \in said[s]
      BY <3>2, <3>4 DEF RecordOf, Has
    <3>6. view' \in {view, disk, B} /\ disk' \in {view, disk, B}
      BY <1>1, <2>2 DEF Wrote
    <3>7. Has(view', k, i, s) \in said'[s] /\ Has(disk', k, i, s) \in said'[s]
      <4> HIDE DEF B
      <4> QED BY <1>4, <3>1, <3>5, <3>6
    <3>8. k \in Numbered => disk'[k][i].born = s
      <4>1. k \in Numbered => disk[k][i].born = s
        BY <3>1, <3>4 DEF SaidSets
      <4>2. Grows(disk, disk')
        <5>1. k \in Numbered => view[k][i].born \in {0, q.born} /\ q.born = r.born
          OBVIOUS
        <5>2. Grows(disk, view)
          BY DEF Inv, ContentInv
        <5> QED BY <1>1, <1>2, <5>1, <5>2, WroteGrows
      <4>3. s # 0
        OBVIOUS
      <4> QED BY <4>1, <4>2, <4>3 DEF Grows
    <3> QED BY <3>7, <3>8
  <2>3. CASE said' = Told(s, Seen(r)) /\ {disk', view'} \subseteq {B}
    <3>1. said'[s] = {Seen(r)} /\ disk' = B /\ view' = B
      BY <1>2, <2>3 DEF Told
    <3> HIDE DEF B
    <3> QED BY <1>4, <1>5, <3>1
  <2>4. CASE /\ said' = [said EXCEPT ![s] = {Seen(q), Seen(r)}]
             /\ {disk', view'} \subseteq {A, B}
    <3>1. said'[s] = {Seen(q), Seen(r)} /\ disk' \in {A, B} /\ view' \in {A, B}
      BY <1>2, <2>4
    <3> HIDE DEF A, B
    <3> QED BY <1>4, <1>5, <3>1
  <2> QED BY <2>1, <2>2, <2>3, <2>4 DEF Tells
<1>7. q.born \in {0, s} /\ r.born \in {0, s}
  OBVIOUS
<1>8. k \in Numbered => view[k][i].born \in {0, q.born} /\ q.born = r.born
  OBVIOUS
<1> QED BY <1>1, <1>3, <1>6, <1>7, <1>8, SaidStep

\* Another entry that was announced for number i of k, a door, is gone.
LEMMA OthersGone ==
  ASSUME Inv, SaidSets, NEW k \in Kinds, NEW i \in Slots(k),
         NEW x \in 1 .. MaxEntries, Announced(x), place[x] = <<k, i>>
  PROVE  /\ view[k][i].born # x => Gone \in said[x]
         /\ k \in Numbered => view[k][i].born = x
<1>1. place[x][1] = k /\ place[x][2] = i
  OBVIOUS
<1>2. Has(view, k, i, x) \in said[x]
  BY <1>1 DEF SaidSets, RecordOf, Has
<1>3. ASSUME k \in Numbered PROVE view[k][i].born = x
  <2>1. disk[k][i].born = x
    BY <1>1, <1>3 DEF SaidSets
  <2>2. Grows(disk, view) /\ x # 0
    BY DEF Inv, ContentInv
  <2> QED BY <1>3, <2>1, <2>2 DEF Grows
<1> QED BY <1>2, <1>3 DEF Has

\* The entry that number i of k has is changed, deleted, or tried to be.
LEMMA OldSaid ==
  ASSUME Inv, SaidSets, Old, NEW k \in Kinds, NEW i \in Slots(k), view[k][i].born # 0,
         NEW q \in Entries(k), NEW r \in Entries(k), NEW s, s = view[k][i].born,
         q.born = s \/ (k \notin Numbered /\ q = Unused),
         r.born = s \/ (k \notin Numbered /\ r = Unused),
         Tells(k, i, s, q, r) \/ (Wrote(k, i, q, r) /\ said' = said /\ ~Announced(s))
  PROVE  SaidSets'
<1>1. s \in 1 .. next /\ place[s] = <<k, i>>
  BY DEF Inv, TypeInv, SetsTyped, Placed, Fits
<1>2. s \in 1 .. MaxEntries /\ s \in 1 .. next' /\ place'[s] = <<k, i>>
  BY <1>1, Bounds DEF Inv, TypeInv, SetsTyped, Serials, Old
<1>3. Later
  BY OldLater DEF Inv, TypeInv
<1>4. \A x \in 1 .. MaxEntries \ {s} :
        Announced(x) /\ place[x] = <<k, i>> => k \notin Numbered /\ Gone \in said[x]
  BY OthersGone
<1> QED BY <1>2, <1>3, <1>4, UnusedFields, TellsSaid

LEMMA NotYet ==
  ASSUME Inv, SaidSets, NEW k \in Kinds, NEW i \in Slots(k), New(k, i)
  PROVE  ~Announced(next + 1)
<1>1. next + 1 \notin 1 .. next
  BY Bounds DEF Inv, TypeInv, SetsTyped, Serials
<1> QED BY <1>1 DEF SaidSets, Announced

\* A new board, area or poll.
LEMMA NewSaid ==
  ASSUME Inv, SaidSets, NEW k \in Numbered, NEW i \in Slots(k), New(k, i),
         view[k][i].born = 0, NEW q \in Entries(k), NEW r \in Entries(k),
         q.born = next + 1, r.born = next + 1, Wrote(k, i, q, r),
         said' = said \/ Tells(k, i, next + 1, q, r)
  PROVE  SaidSets'
<1>1. k \in Kinds
  BY DEF Numbered, Kinds
<1>2. /\ Later /\ place'[next + 1] = <<k, i>>
      /\ next + 1 \in 1 .. next' /\ next + 1 \in 1 .. MaxEntries
  BY <1>1, NewLater DEF Inv, TypeInv
<1>3. ~Announced(next + 1)
  BY <1>1, NotYet
<1>4. \A x \in 1 .. MaxEntries \ {next + 1} :
        Announced(x) /\ place[x] = <<k, i>> => k \notin Numbered /\ Gone \in said[x]
  BY <1>1, OthersGone
<1> QED BY <1>1, <1>2, <1>3, <1>4, TellsSaid

\* Nothing is told, nothing is written but what a failed save had left.
LEMMA SilentSaid ==
  ASSUME Inv, SaidSets, Later, said' = said, view' \in {view, disk}, disk' \in {view, disk}
  PROVE  SaidSets'
<1>1. ASSUME NEW x \in 1 .. MaxEntries, Announced(x)
      PROVE  /\ x \in 1 .. next'
             /\ RecordOf(view, x)' \in said[x] /\ RecordOf(disk, x)' \in said[x]
             /\ place'[x][1] \in Numbered => disk'[place'[x][1]][place'[x][2]].born = x
  <2>1. /\ x \in 1 .. next /\ RecordOf(view, x) \in said[x] /\ RecordOf(disk, x) \in said[x]
        /\ place[x][1] \in Numbered => disk[place[x][1]][place[x][2]].born = x
    BY <1>1 DEF SaidSets
  <2>2. x \in 1 .. next' /\ place'[x] = place[x]
    BY <2>1, Bounds DEF Later, Serials, Inv, TypeInv, SetsTyped
  <2>3. RecordOf(view, x)' \in {RecordOf(view, x), RecordOf(disk, x)}
        /\ RecordOf(disk, x)' \in {RecordOf(view, x), RecordOf(disk, x)}
    BY <2>2 DEF RecordOf
  <2>4. place[x][1] \in Numbered => view[place[x][1]][place[x][2]].born = x
    <3>1. PICK k \in Kinds : \E i \in Slots(k) : place[x] = <<k, i>> /\ place[x][1] = k /\ place[x][2] = i
      BY <2>1, RecordHas DEF Inv, TypeInv
    <3>2. PICK i \in Slots(k) : place[x] = <<k, i>> /\ place[x][1] = k /\ place[x][2] = i
      BY <3>1
    <3> QED BY <1>1, <3>2, OthersGone
  <2> QED BY <2>1, <2>2, <2>3, <2>4
<1> QED BY <1>1 DEF SaidSets, Announced

LEMMA SaveTells ==
  ASSUME SetsTyped, NEW k \in Kinds, NEW i \in Slots(k), NEW r \in Entries(k), NEW s,
         NEW p \in Save(Now, k, i, r), Keep(p),
         said' = IF p.ok THEN Told(s, Seen(r)) ELSE Tried(s, Seen(r))
  PROVE  Tells(k, i, s, r, r)
<1>1. /\ Wrote(k, i, r, r)
      /\ p.ok => disk' = Put(view, k, i, r) /\ view' = Put(view, k, i, r)
  BY SaveNow
<1> QED BY <1>1 DEF Tells

LEMMA DeleteTells ==
  ASSUME SetsTyped, NEW k \in Kinds, NEW i \in Slots(k), IsLive(view[k][i]), NEW s,
         NEW p \in Delete(Now, k, i), NEW o, Keep(o), o.view = p.view, o.disk = p.disk,
         o.fails \in 0 .. MaxFaults,
         said' = IF p.ok THEN Told(s, Gone) ELSE Tried(s, Gone)
  PROVE  \E r \in Entries(k) : r.born = view[k][i].born /\ Tells(k, i, s, r, r)
<1> DEFINE r == Blank(view[k][i])
<1>1. /\ Wrote(k, i, r, r)
      /\ r \in Entries(k) /\ r.born = view[k][i].born /\ Seen(r) = Gone
      /\ p.ok => disk' = Put(view, k, i, r) /\ view' = Put(view, k, i, r)
  BY DeleteNow
<1> HIDE DEF r
<1>2. Tells(k, i, s, r, r)
  BY <1>1 DEF Tells
<1> QED BY <1>1, <1>2

\* The deletions that change nothing but the set.
LEMMA DeleteSaid ==
  ASSUME Inv, SaidSets, Old, NEW k \in Kinds, NEW i \in Pick(k),
         NEW p \in Delete(Now, k, i), Keep(p),
         said' = IF p.ok THEN Told(view[k][i].born, Gone) ELSE Tried(view[k][i].born, Gone)
  PROVE  SaidSets'
<1>1. i \in Slots(k) /\ IsLive(view[k][i]) /\ view[k][i].born # 0
  BY LiveEntry DEF IsLive
<1>2. p \in Outcomes
  BY <1>1, NowOut, DeleteOut DEF Between, Inv, TypeInv
<1>3. p.fails \in 0 .. MaxFaults
  BY <1>2 DEF Outcomes
<1>4. PICK r \in Entries(k) : r.born = view[k][i].born /\ Tells(k, i, view[k][i].born, r, r)
  BY <1>1, <1>3, DeleteTells DEF Inv, TypeInv
<1> QED BY <1>1, <1>4, OldSaid

\* The edits of an area or a poll.
LEMMA EditSaid ==
  ASSUME Inv, SaidSets, Old, NEW k \in Kinds, NEW i \in Pick(k), NEW r \in Entries(k),
         NEW p \in Save(Now, k, i, r), Keep(p), r.born = view[k][i].born, IsLive(r),
         said' = IF p.ok THEN Told(r.born, r) ELSE Tried(r.born, r)
  PROVE  SaidSets'
<1>1. i \in Slots(k) /\ view[k][i].born # 0
  BY LiveEntry DEF IsLive
<1>2. Seen(r) = r
  BY DEF Seen
<1>3. Tells(k, i, r.born, r, r)
  BY <1>1, <1>2, SaveTells DEF Inv, TypeInv
<1> QED BY <1>1, <1>3, OldSaid

LEMMA SaidShut ==
  ASSUME at' \in {"off", "menu"}
  PROVE  SaidForm'
BY DEF SaidForm

LEMMA SilentMenu ==
  ASSUME Inv, SaidSets, UNCHANGED history, view' \in {view, disk}, disk' \in {view, disk}
  PROVE  SaidSets'
<1>1. Later /\ said' = said
  BY OldLater DEF Old, history, Inv, TypeInv
<1> QED BY <1>1, SilentSaid

LEMMA SaidPrograms ==
  ASSUME Inv, SaidInv,
         \/ Start \/ Reset \/ Browse
         \/ \E b \in Slots("boards") : Visit(b)
         \/ \E a \in Slots("areas") : Upload(a)
  PROVE  SaidInv'
<1>1. UNCHANGED history /\ at' \in {"off", "menu"}
  BY DEF Start, Reset, Browse, Visit, Upload
<1>2. view' \in {view, disk} /\ disk' \in {view, disk}
  <2>1. CASE Browse
    <3>1. PICK o \in Open(Now) : Keep(o)
      BY <2>1 DEF Browse, Opened
    <3>2. o \in Outcomes /\ o.view = view /\ o.disk \in {disk, view}
      BY NowOut, OpenOut DEF Inv, TypeInv
    <3> QED BY <3>1, <3>2 DEF Keep
  <2>2. CASE Reset BY <2>2 DEF Reset
  <2>3. CASE UNCHANGED sets BY <2>3 DEF sets
  <2> QED BY <2>1, <2>2, <2>3 DEF Start, Visit, Upload
<1>3. SaidSets'
  BY <1>1, <1>2, SilentMenu DEF SaidInv
<1> QED BY <1>1, <1>3, SaidShut DEF SaidInv

LEMMA SaidBoardsCreate ==
  ASSUME Inv, SaidInv, NEW t \in Titles, BoardsCreate(t)
  PROVE  SaidInv'
<1>1. PICK i \in Slots("boards"), q \in Entries("boards"), r \in Entries("boards") :
        /\ New("boards", i) /\ view["boards"][i].born = 0
        /\ Wrote("boards", i, q, r) /\ q.born = next + 1 /\ r.born = next + 1
        /\ \/ UNCHANGED <<at, editor>>
           \/ at' = "board" /\ form'.born = next + 1
  BY BoardsCreateWrites
<1>2. "boards" \in Numbered /\ "boards" \in Kinds /\ at = "menu" /\ said' = said
  BY DEF Kinds, Numbered, BoardsCreate
<1>3. SaidSets'
  BY <1>1, <1>2, NewSaid DEF SaidInv
<1>4. ~Announced(next + 1)
  BY <1>1, <1>2, NotYet DEF SaidInv
<1>5. SaidForm'
  BY <1>1, <1>2, <1>4 DEF SaidForm, Announced
<1> QED BY <1>3, <1>5 DEF SaidInv

LEMMA SaidBoardsEdit ==
  ASSUME Inv, SaidInv, NEW i \in Slots("boards"), BoardsEdit(i)
  PROVE  SaidInv'
<1>1. /\ at' = "board" /\ how' = "old" /\ UNCHANGED history
      /\ view' = view /\ disk' = view
  BY DEF BoardsEdit, OpenForm
<1>2. SaidSets'
  BY <1>1, SilentMenu DEF SaidInv
<1>3. SaidForm'
  BY <1>1 DEF SaidForm
<1> QED BY <1>2, <1>3 DEF SaidInv

LEMMA SaidBoardKey == ASSUME Inv, SaidInv, BoardKey PROVE SaidInv'
<1>1. /\ at = "board" /\ at' = "board" /\ how' = how /\ UNCHANGED history
      /\ view' = view /\ disk' = disk
  BY DEF BoardKey, sets
<1>2. form \in BoardRecords
  BY <1>1 DEF Inv, TypeInv, FormTyped
<1>3. form'.born = form.born
  BY <1>2 DEF BoardKey, BoardRecords
<1>4. SaidSets'
  BY <1>1, SilentMenu DEF SaidInv
<1>5. SaidForm'
  BY <1>1, <1>3 DEF SaidForm, SaidInv, Announced, history
<1> QED BY <1>4, <1>5 DEF SaidInv

LEMMA SaidBoardSave == ASSUME Inv, SaidInv, BoardSave PROVE SaidInv'
<1>1. PICK q \in Entries("boards"), r \in Entries("boards") :
        /\ q.born = form.born /\ r.born = form.born
        /\ Tells("boards", id, form.born, q, r)
        /\ \/ UNCHANGED <<at, editor>> /\ said' = Tried(form.born, Seen(r))
           \/ at' = "menu"
  BY BoardSaveWrites
<1>2. at = "board" /\ Old
  BY DEF BoardSave
<1>3. /\ id \in Slots("boards") /\ view["boards"][id].born = form.born
      /\ form.born \in 1 .. next /\ "boards" \in Kinds
  BY <1>2 DEF Kinds, Inv, TypeInv, FormTyped, FormKept
<1>4. form.born # 0
  BY <1>3
<1>5. SaidSets'
  BY <1>1, <1>2, <1>3, <1>4, OldSaid DEF SaidInv
<1>6. CASE UNCHANGED <<at, editor>> /\ said' = Tried(form.born, Seen(r))
  <2>1. ~Announced(form.born) => said' [form.born] = {} \/ form.born \notin 1 .. MaxEntries
    BY <1>6 DEF SaidInv, SaidSets, Tried, Announced
  <2>2. SaidForm'
    BY <1>2, <1>6, <2>1 DEF SaidForm, SaidInv, Announced, editor
  <2> QED BY <1>5, <2>2 DEF SaidInv
<1>7. CASE at' = "menu"
  BY <1>5, <1>7, SaidShut DEF SaidInv
<1> QED BY <1>1, <1>6, <1>7

\* A new board is deleted again without a word: none was said of it before.
LEMMA SaidBoardCancel == ASSUME Inv, SaidInv, BoardCancel PROVE SaidInv'
<1>1. at = "board" /\ at' = "menu" /\ UNCHANGED history /\ Old /\ said' = said
  BY DEF BoardCancel, history, Old
<1>2. /\ id \in Slots("boards") /\ view["boards"][id].born = form.born
      /\ form.born \in 1 .. next /\ "boards" \in Kinds
  BY <1>1 DEF Kinds, Inv, TypeInv, FormTyped, FormKept
<1>3. CASE UNCHANGED sets
  BY <1>1, <1>3, SilentMenu, SaidShut DEF sets, SaidInv
<1>4. ASSUME how = "new", NEW p \in Delete(Now, "boards", id), Keep(p)
      PROVE  SaidInv'
  <2>1. /\ Between(Now, p, Put(view, "boards", id, Blank(view["boards"][id])))
        /\ ~IsLive(view["boards"][id]) => p.view = view /\ p.disk \in {disk, view}
    BY <1>2, NowOut, DeleteOut DEF Inv, TypeInv
  <2>2. p.fails \in 0 .. MaxFaults
    BY <2>1 DEF Between, Outcomes
  <2>3. CASE ~IsLive(view["boards"][id])
    <3>1. view' = view /\ disk' \in {disk, view}
      BY <1>4, <2>1, <2>3 DEF Keep
    <3> QED BY <1>1, <3>1, SilentMenu, SaidShut DEF SaidInv
  <2>4. CASE IsLive(view["boards"][id])
    <3> DEFINE r == Blank(view["boards"][id])
    <3>1. /\ Wrote("boards", id, r, r)
          /\ r \in Entries("boards") /\ r.born = view["boards"][id].born
      BY <1>2, <1>4, <2>2, <2>4, DeleteNow DEF Inv, TypeInv
    <3> HIDE DEF r
    <3>2. ~Announced(form.born) /\ form.born # 0
      BY <1>1, <1>2, <1>4 DEF SaidInv, SaidForm
    <3>3. SaidSets'
      BY <1>1, <1>2, <3>1, <3>2, OldSaid DEF SaidInv
    <3> QED BY <1>1, <3>3, SaidShut DEF SaidInv
  <2> QED BY <2>3, <2>4
<1> QED BY <1>3, <1>4 DEF BoardCancel

LEMMA SaidBoardsDelete ==
  ASSUME Inv, SaidInv, NEW i \in Slots("boards"), BoardsDelete(i)
  PROVE  SaidInv'
<1> DEFINE s == view["boards"][i].born
<1>1. at' = "menu" /\ Old /\ i \in Pick("boards") /\ "boards" \in Kinds
  BY DEF BoardsDelete, Kinds
<1>2. IsLive(view["boards"][i]) /\ s # 0
  BY <1>1, LiveEntry DEF IsLive
<1>3. PICK p \in Delete(Now, "boards", i) :
        \/ ~p.ok /\ Keep(p) /\ said' = Tried(s, Gone)
        \/ /\ p.ok /\ said' = Told(s, Gone)
           /\ \E kept \in IF Fault("scratch", p) THEN SUBSET {"idx", "txt"} ELSE {{}} :
                Keep(IF kept = {} THEN p ELSE [p EXCEPT !.fails = @ + 1])
  BY DEF BoardsDelete
<1>4. p \in Outcomes
  BY <1>1, NowOut, DeleteOut DEF Between, Inv, TypeInv
<1>5. \E o : /\ Keep(o) /\ o.view = p.view /\ o.disk = p.disk /\ o.fails \in 0 .. MaxFaults
             /\ said' = IF p.ok THEN Told(s, Gone) ELSE Tried(s, Gone)
  <2>1. CASE ~p.ok /\ Keep(p) /\ said' = Tried(s, Gone)
    BY <1>4, <2>1 DEF Outcomes
  <2>2. ASSUME p.ok, said' = Told(s, Gone),
               NEW kept \in IF Fault("scratch", p) THEN SUBSET {"idx", "txt"} ELSE {{}},
               Keep(IF kept = {} THEN p ELSE [p EXCEPT !.fails = @ + 1])
        PROVE  \E o : /\ Keep(o) /\ o.view = p.view /\ o.disk = p.disk /\ o.fails \in 0 .. MaxFaults
                      /\ said' = IF p.ok THEN Told(s, Gone) ELSE Tried(s, Gone)
    <3>1. CASE kept = {}
      BY <1>4, <2>2, <3>1 DEF Outcomes
    <3>2. CASE kept # {}
      <4>1. Fault("scratch", p)
        BY <2>2, <3>2
      <4>2. p.fails + 1 \in 0 .. MaxFaults
        BY <1>4, <4>1, FaultBound
      <4> DEFINE o == [p EXCEPT !.fails = @ + 1]
      <4>3. o.view = p.view /\ o.disk = p.disk /\ o.fails = p.fails + 1
        BY <1>4 DEF Outcomes
      <4>4. Keep(o)
        BY <2>2, <3>2
      <4> HIDE DEF o
      <4> QED BY <2>2, <4>2, <4>3, <4>4
    <3> QED BY <3>1, <3>2
  <2> QED BY <1>3, <2>1, <2>2
<1>6. PICK r \in Entries("boards") :
        r.born = view["boards"][i].born /\ Tells("boards", i, s, r, r)
  BY <1>1, <1>2, <1>5, DeleteTells DEF Inv, TypeInv
<1>7. SaidSets'
  BY <1>1, <1>2, <1>6, OldSaid DEF SaidInv
<1> QED BY <1>1, <1>7, SaidShut DEF SaidInv

LEMMA SaidAreas == ASSUME Inv, SaidInv, Areas PROVE SaidInv'
<1>1. "areas" \in Kinds /\ "areas" \in Numbered /\ Max["areas"] = MaxAreas
  BY DEF Kinds, Numbered, Max
<1>2. ASSUME NEW t \in Titles, NEW l \in Levels, AreasCreate(t, l)
      PROVE  SaidSets' /\ at' = "menu"
  <2> DEFINE i == NextArea  rec == AreaRecord(next + 1, t, l)
  <2>1. i \in Slots("areas") /\ view["areas"][i].born = 0
    BY <1>1, <1>2, NewNumber DEF AreasCreate, NextArea
  <2>2. New("areas", i) /\ at' = "menu"
    BY <1>2 DEF AreasCreate
  <2>3. next + 1 \in Serials
    BY <1>1, <2>1, <2>2, NewLater DEF Inv, TypeInv
  <2>4. rec \in Entries("areas") /\ rec.born = next + 1
    BY <2>3, EntriesAre DEF AreaRecord, AreaRecords
  <2>5. PICK p \in Save(Now, "areas", i, rec) :
          Keep(p) /\ said' = IF p.ok THEN Told(rec.born, Seen(rec)) ELSE said
    BY <1>2 DEF AreasCreate
  <2> HIDE DEF i, rec
  <2>6. /\ Wrote("areas", i, rec, rec)
        /\ p.ok => disk' = Put(view, "areas", i, rec) /\ view' = Put(view, "areas", i, rec)
    BY <1>1, <2>1, <2>4, <2>5, SaveNow DEF Inv, TypeInv
  <2>7. said' = said \/ Tells("areas", i, next + 1, rec, rec)
    BY <2>4, <2>5, <2>6 DEF Tells
  <2> QED BY <1>1, <2>1, <2>2, <2>4, <2>6, <2>7, NewSaid DEF SaidInv
<1>3. ASSUME NEW i \in Slots("areas"), NEW l \in Levels, AreasEdit(i, l)
      PROVE  SaidSets' /\ at' = "menu"
  <2> DEFINE rec == [view.areas[i] EXCEPT !.level = l]
  <2>1. /\ at' = "menu" /\ i \in Pick("areas") /\ Old
        /\ \E p \in Save(Now, "areas", i, rec) :
             Keep(p) /\ said' = IF p.ok THEN Told(rec.born, rec) ELSE Tried(rec.born, rec)
    BY <1>3 DEF AreasEdit
  <2>2. view["areas"][i] \in AreaRecords /\ IsLive(view["areas"][i])
    BY <1>1, <2>1, LiveEntry, EntriesAre
  <2>3. /\ rec \in AreaRecords /\ rec.born = view["areas"][i].born
        /\ rec.title = view["areas"][i].title
    BY <2>2 DEF AreaRecords
  <2> HIDE DEF rec
  <2>4. rec \in Entries("areas") /\ IsLive(rec)
    BY <2>2, <2>3, EntriesAre DEF IsLive
  <2> QED BY <1>1, <2>1, <2>3, <2>4, EditSaid DEF SaidInv
<1>4. ASSUME NEW i \in Slots("areas"), AreasDelete(i)
      PROVE  SaidSets' /\ at' = "menu"
  <2>1. /\ at' = "menu" /\ i \in Pick("areas") /\ Old
        /\ \E p \in Delete(Now, "areas", i) :
             /\ Keep(p)
             /\ said' = IF p.ok THEN Told(view["areas"][i].born, Gone)
                        ELSE Tried(view["areas"][i].born, Gone)
    BY <1>4 DEF AreasDelete
  <2> QED BY <1>1, <2>1, DeleteSaid DEF SaidInv
<1> QED BY <1>2, <1>3, <1>4, SaidShut DEF Areas, SaidInv

LEMMA SaidVotes == ASSUME Inv, SaidInv, Votes PROVE SaidInv'
<1>1. "polls" \in Kinds /\ "polls" \in Numbered
  BY DEF Kinds, Numbered
<1>2. ASSUME NEW t \in Titles, NEW n \in Options, VotesCreate(t, n)
      PROVE  SaidSets' /\ at' = "menu"
  <2>1. PICK i \in Slots("polls"), q \in Entries("polls"), r \in Entries("polls") :
          /\ New("polls", i) /\ view["polls"][i].born = 0
          /\ Wrote("polls", i, q, r) /\ q.born = next + 1 /\ r.born = next + 1
          /\ said' = said \/ Tells("polls", i, next + 1, q, r)
    BY <1>2, VotesCreateWrites
  <2>2. at' = "menu"
    BY <1>2 DEF VotesCreate
  <2> QED BY <1>1, <2>1, <2>2, NewSaid DEF SaidInv
<1>3. ASSUME NEW i \in Slots("polls"), VotesToggle(i)
      PROVE  SaidSets' /\ at' = "menu"
  <2> DEFINE rec == [view.polls[i] EXCEPT !.active = ~@]
  <2>1. /\ at' = "menu" /\ i \in Pick("polls") /\ Old
        /\ \E p \in Save(Now, "polls", i, rec) :
             Keep(p) /\ said' = IF p.ok THEN Told(rec.born, rec) ELSE Tried(rec.born, rec)
    BY <1>3 DEF VotesToggle
  <2>2. view["polls"][i] \in VoteRecords /\ IsLive(view["polls"][i])
    BY <1>1, <2>1, LiveEntry, EntriesAre
  <2>3. /\ rec \in VoteRecords /\ rec.born = view["polls"][i].born
        /\ rec.title = view["polls"][i].title
    BY <2>2 DEF VoteRecords
  <2> HIDE DEF rec
  <2>4. rec \in Entries("polls") /\ IsLive(rec)
    BY <2>2, <2>3, EntriesAre DEF IsLive
  <2> QED BY <1>1, <2>1, <2>3, <2>4, EditSaid DEF SaidInv
<1>4. ASSUME NEW i \in Slots("polls"), VotesDelete(i)
      PROVE  SaidSets' /\ at' = "menu"
  <2>1. /\ at' = "menu" /\ i \in Pick("polls") /\ Old
        /\ \E p \in Delete(Now, "polls", i) :
             /\ Keep(p)
             /\ said' = IF p.ok THEN Told(view["polls"][i].born, Gone)
                        ELSE Tried(view["polls"][i].born, Gone)
    BY <1>4 DEF VotesDelete
  <2> QED BY <1>1, <2>1, DeleteSaid DEF SaidInv
<1> QED BY <1>2, <1>3, <1>4, SaidShut DEF Votes, SaidInv

\* A free slot has no live door, unless the read of it has failed.
LEMMA SaidDoorsCreate ==
  ASSUME "slot" \notin Faults, Inv, SaidInv, NEW i \in Slots("doors"), DoorsCreate(i)
  PROVE  SaidInv'
<1> DEFINE rec == DoorRecord(next + 1, " ", 0)
<1>1. "doors" \in Kinds
  BY DEF Kinds
<1>2. /\ at' = "door" /\ OpenForm(rec, i, "new") /\ New("doors", i)
      /\ view' = view /\ disk' = view /\ said' = said
  BY DEF DoorsCreate
<1>3. ~IsLive(view["doors"][i])
  BY DEF DoorsCreate, DoorSlots, Fault
<1>4. Later
  BY <1>1, <1>2, NewLater DEF Inv, TypeInv
<1>5. SaidSets'
  BY <1>2, <1>4, SilentSaid DEF SaidInv
<1>6. form'.born = next + 1 /\ id' = i
  BY <1>2 DEF OpenForm, DoorRecord
<1>7. ASSUME NEW x \in 1 .. MaxEntries, Announced(x), x # next + 1, place'[x] = <<"doors", i>>
      PROVE  Gone \in said[x]
  <2>1. x \in 1 .. next
    BY <1>7 DEF SaidInv, SaidSets
  <2>2. place[x] = <<"doors", i>>
    BY <1>4, <1>7, <2>1 DEF Later
  <2>3. RecordOf(view, x) = Gone
    <3>1. place[x][1] = "doors" /\ place[x][2] = i
      BY <2>2
    <3> QED BY <1>3, <3>1 DEF RecordOf, Seen
  <2> QED BY <1>7, <2>3 DEF SaidInv, SaidSets
<1>8. SaidForm'
  BY <1>2, <1>6, <1>7 DEF SaidForm, Announced
<1> QED BY <1>5, <1>8 DEF SaidInv

LEMMA SaidDoorsEdit ==
  ASSUME Inv, SaidInv, NEW i \in Slots("doors"), DoorsEdit(i)
  PROVE  SaidInv'
<1>1. /\ at' = "door" /\ form' = view["doors"][i] /\ id' = i
      /\ view' = view /\ disk' = view /\ UNCHANGED history /\ "doors" \in Kinds
  BY DEF DoorsEdit, OpenForm, Kinds
<1>2. SaidSets'
  BY <1>1, SilentMenu DEF SaidInv
<1>3. ASSUME NEW x \in 1 .. MaxEntries, Announced(x), x # view["doors"][i].born,
             place[x] = <<"doors", i>>
      PROVE  Gone \in said[x]
  BY <1>1, <1>3, OthersGone DEF SaidInv
<1>4. SaidForm'
  BY <1>1, <1>3 DEF SaidForm, Announced, history
<1> QED BY <1>2, <1>4 DEF SaidInv

LEMMA SaidDoorKey == ASSUME Inv, SaidInv, DoorKey PROVE SaidInv'
<1>1. /\ at = "door" /\ at' = "door" /\ id' = id /\ UNCHANGED history
      /\ view' = view /\ disk' = disk
  BY DEF DoorKey, sets
<1>2. form \in AreaRecords
  BY <1>1 DEF Inv, TypeInv, FormTyped
<1>3. form'.born = form.born
  BY <1>2 DEF DoorKey, AreaRecords
<1>4. SaidSets'
  BY <1>1, SilentMenu DEF SaidInv
<1>5. SaidForm'
  BY <1>1, <1>3 DEF SaidForm, SaidInv, Announced, history
<1> QED BY <1>4, <1>5 DEF SaidInv

\* The door of the form is put in its slot; the others given that slot are gone.
LEMMA SaidDoorSave == ASSUME Inv, SaidInv, DoorSave PROVE SaidInv'
<1> DEFINE s == form.born
<1>1. at = "door" /\ form.title # " " /\ Old
  BY DEF DoorSave
<1>2. PICK p \in Save(Now, "doors", id, form) :
        /\ Keep(p)
        /\ IF p.ok THEN said' = Told(s, form) /\ at' = "menu"
           ELSE said' = Tried(s, form) /\ UNCHANGED <<at, editor>>
  BY DEF DoorSave
<1>3. /\ form \in AreaRecords /\ id \in Slots("doors")
      /\ s \in 1 .. next /\ place[s] = <<"doors", id>>
  BY <1>1 DEF Inv, TypeInv, FormTyped
<1>4. "doors" \in Kinds /\ "doors" \notin Numbered /\ form \in Entries("doors")
  BY <1>3, EntriesAre DEF Kinds, Numbered
<1>5. IsLive(form) /\ Seen(form) = form
  <2>1. form.born # 0
    BY <1>3
  <2> QED BY <1>1, <2>1 DEF IsLive, Seen
<1>6. Tells("doors", id, s, form, form)
  BY <1>2, <1>3, <1>4, <1>5, SaveTells DEF Inv, TypeInv
<1>7. s \in 1 .. MaxEntries /\ s \in 1 .. next' /\ place'[s] = <<"doors", id>> /\ Later
  <2>1. Later
    BY <1>1, OldLater DEF Inv, TypeInv
  <2>2. next \in Nat /\ next <= MaxEntries /\ MaxEntries \in Nat
    BY Bounds DEF Inv, TypeInv, SetsTyped, Serials
  <2>3. s \in 1 .. MaxEntries
    BY <1>3, <2>2
  <2>4. s \in 1 .. next' /\ place'[s] = <<"doors", id>>
    BY <1>1, <1>3 DEF Old
  <2> QED BY <2>1, <2>3, <2>4
<1>8. \A x \in 1 .. MaxEntries \ {s} :
        Announced(x) /\ place[x] = <<"doors", id>> => Gone \in said[x]
  BY <1>1 DEF SaidInv, SaidForm
<1>9. SaidSets'
  BY <1>3, <1>4, <1>6, <1>7, <1>8, TellsSaid DEF SaidInv
<1>10. CASE at' = "menu"
  BY <1>9, <1>10, SaidShut DEF SaidInv
<1>11. CASE said' = Tried(s, form) /\ UNCHANGED <<at, editor>>
  <2>1. DOMAIN said = 1 .. MaxEntries
    BY DEF SaidInv, SaidSets
  <2>2. \A x \in 1 .. MaxEntries \ {s} : said'[x] = said[x]
    BY <1>11, <2>1 DEF Tried
  <2>3. SaidForm'
    BY <1>1, <1>8, <1>11, <2>2 DEF SaidForm, Announced, editor, Old
  <2> QED BY <1>9, <2>3 DEF SaidInv
<1> QED BY <1>2, <1>10, <1>11

LEMMA SaidDoorCancel == ASSUME Inv, SaidInv, DoorCancel PROVE SaidInv'
<1>1. at' = "menu" /\ UNCHANGED <<sets, history>>
  BY DEF DoorCancel
<1> QED BY <1>1, SilentMenu, SaidShut DEF SaidInv, sets

LEMMA SaidDoorsDelete ==
  ASSUME Inv, SaidInv, NEW i \in Slots("doors"), DoorsDelete(i)
  PROVE  SaidInv'
<1> DEFINE s == view["doors"][i].born
<1>1. /\ "doors" \in Kinds /\ "doors" \notin Numbered /\ Unused \in Entries("doors")
  BY EntriesAre DEF Kinds, Numbered
<1>2. /\ at' = "menu" /\ Old /\ i \in Pick("doors")
      /\ \E p \in Save(Now, "doors", i, Unused) :
           Keep(p) /\ said' = IF p.ok THEN Told(s, Gone) ELSE Tried(s, Gone)
  BY DEF DoorsDelete
<1>3. s # 0
  BY <1>1, <1>2, LiveEntry DEF IsLive
<1>4. Tells("doors", i, s, Unused, Unused)
  BY <1>1, <1>2, UnusedFields, SaveTells DEF Inv, TypeInv
<1>5. SaidSets'
  BY <1>1, <1>2, <1>3, <1>4, OldSaid DEF SaidInv
<1> QED BY <1>2, <1>5, SaidShut DEF SaidInv

LEMMA SaidInit == ASSUME Init PROVE SaidInv
<1>1. said = [s \in 1 .. MaxEntries |-> {}] /\ at = "off"
  BY DEF Init
<1> QED BY <1>1 DEF SaidInv, SaidSets, SaidForm, Announced

LEMMA SaidNext ==
  ASSUME "slot" \notin Faults, Inv, SaidInv, [Next]_vars
  PROVE  SaidInv'
<1>1. CASE \/ Start \/ Reset \/ Browse
           \/ \E b \in Slots("boards") : Visit(b)
           \/ \E a \in Slots("areas") : Upload(a)
  BY <1>1, SaidPrograms
<1>2. CASE Boards
  BY <1>2, SaidBoardsCreate, SaidBoardsEdit, SaidBoardsDelete, SaidBoardKey, SaidBoardSave,
     SaidBoardCancel DEF Boards
<1>3. CASE Areas BY <1>3, SaidAreas
<1>4. CASE Votes BY <1>4, SaidVotes
<1>5. CASE Doors
  BY <1>5, SaidDoorsCreate, SaidDoorsEdit, SaidDoorsDelete, SaidDoorKey, SaidDoorSave,
     SaidDoorCancel DEF Doors
<1>6. CASE UNCHANGED vars
  <2>1. SaidSets'
    BY <1>6, SilentMenu DEF vars, sets, SaidInv
  <2>2. SaidForm'
    BY <1>6 DEF vars, editor, history, SaidForm, SaidInv, Announced
  <2> QED BY <2>1, <2>2 DEF SaidInv
<1> QED BY <1>1, <1>2, <1>3, <1>4, <1>5, <1>6 DEF Next

LEMMA SaidAlways == "slot" \notin Faults => (Spec => []SaidInv)
<1> SUFFICES ASSUME "slot" \notin Faults PROVE Spec => []SaidInv
  OBVIOUS
<1>1. Init => SaidInv
  BY SaidInit
<1>2. Inv /\ SaidInv /\ [Next]_vars => SaidInv'
  BY SaidNext
<1> QED BY <1>1, <1>2, InvAlways, PTL DEF Spec

-----------------------------------------------------------------------------
(* The lists. *)

LEMMA DivIs ==
  ASSUME NEW m \in Nat, NEW b \in Nat \ {0}
  PROVE  /\ m \div b \in Nat /\ m % b \in 0 .. b - 1
         /\ m = b * (m \div b) + (m % b)
OBVIOUS

LEMMA TimesLess ==
  ASSUME NEW x \in Nat, NEW y \in Nat, NEW b \in Nat, x < y
  PROVE  x * b + b <= y * b
OBVIOUS

\* Where line n of N is, with P to a page.
PagesOf(P, N) == 0 .. ((N + P - 1) \div P) - 1
PlacesOf(P, N, n) == {pd \in PagesOf(P, N) \X (1 .. P) : n = pd[1] * P + pd[2]}

LEMMA OnePlace ==
  ASSUME NEW P \in Nat \ {0}, NEW N \in Nat, NEW n \in 1 .. N
  PROVE  \E x : PlacesOf(P, N, n) = {x}
<1> DEFINE p0 == (n - 1) \div P  d0 == ((n - 1) % P) + 1
           m == N + P - 1  last == (m \div P) - 1
           S == {pd \in (0 .. last) \X (1 .. P) : n = pd[1] * P + pd[2]}
<1>1. n - 1 \in Nat /\ m \in Nat
  OBVIOUS
<1>2. p0 \in Nat /\ d0 \in 1 .. P /\ n = p0 * P + d0
  <2>1. p0 \in Nat /\ (n - 1) % P \in 0 .. P - 1 /\ n - 1 = P * p0 + ((n - 1) % P)
    BY <1>1, DivIs
  <2>2. P * p0 = p0 * P
    BY <2>1
  <2> QED BY <2>1, <2>2
<1>3. p0 <= last
  <2> DEFINE q == m \div P
  <2>1. q \in Nat /\ m % P \in 0 .. P - 1 /\ m = P * q + (m % P)
    BY <1>1, DivIs
  <2>2. CASE q < p0 + 1
    <3>1. q <= p0
      BY <1>2, <2>1, <2>2
    <3>2. q * P <= p0 * P
      <4>1. CASE q = p0 BY <4>1
      <4>2. CASE q < p0
        <5>1. q * P + P <= p0 * P
          BY <1>2, <2>1, <4>2, TimesLess
        <5>2. q * P \in Nat /\ p0 * P \in Nat
          BY <1>2, <2>1
        <5> QED BY <5>1, <5>2
      <4> QED BY <1>2, <2>1, <3>1, <4>1, <4>2
    <3>3. P * q = q * P /\ q * P \in Nat /\ p0 * P \in Nat
      BY <1>2, <2>1
    <3> DEFINE a == q * P  b == p0 * P
    <3>4. a \in Nat /\ b \in Nat /\ a <= b /\ m = a + (m % P) /\ n = b + d0
      BY <1>2, <2>1, <3>2, <3>3
    <3> HIDE DEF a, b, d0, p0, q
    <3> QED BY <1>2, <2>1, <3>4
  <2>3. CASE p0 + 1 <= q
    BY <1>2, <2>1, <2>3
  <2> QED BY <1>2, <2>1, <2>2, <2>3
<1>4. last \in Int
  BY <1>1, DivIs
<1> HIDE DEF p0, d0, last
<1>5. <<p0, d0>> \in S
  BY <1>2, <1>3, <1>4
<1>6. ASSUME NEW pd \in S PROVE pd = <<p0, d0>>
  <2>1. pd[1] \in Nat /\ pd[2] \in 1 .. P /\ n = pd[1] * P + pd[2] /\ pd = <<pd[1], pd[2]>>
    BY <1>4
  <2> DEFINE p == pd[1]  d == pd[2]  a == p * P  b == p0 * P
  <2>2. a \in Nat /\ b \in Nat /\ a + d = b + d0
    BY <1>2, <2>1
  <2>3. p < p0 => a + P <= b
    BY <1>2, <2>1, TimesLess
  <2>4. p0 < p => b + P <= a
    BY <1>2, <2>1, TimesLess
  <2>5. p \in Nat /\ d \in 1 .. P /\ d0 \in 1 .. P /\ p0 \in Nat
    BY <1>2, <2>1
  <2>6. p = p0 => a = b
    OBVIOUS
  <2> HIDE DEF p, d, a, b
  <2>7. p = p0 /\ d = d0
    BY <2>2, <2>3, <2>4, <2>5, <2>6
  <2> QED BY <2>1, <2>7 DEF p, d
<1>7. S = {<<p0, d0>>}
  BY <1>5, <1>6
<1> QED BY <1>7 DEF last, PlacesOf, PagesOf

LEMMA LiveFinite ==
  ASSUME Inv, NEW k \in Kinds
  PROVE  LET S == LiveIds(view, k) IN
         S \subseteq Nat /\ IsFiniteSet(S) /\ Cardinality(S) \in Nat
<1>1. Max[k] \in Nat /\ LiveIds(view, k) \subseteq 1 .. Max[k]
  BY Bounds DEF Max, Kinds, LiveIds, Slots
<1>2. IsFiniteSet(1 .. Max[k])
  BY <1>1, FS_Interval
<1>3. IsFiniteSet(LiveIds(view, k))
  BY <1>1, <1>2, FS_Subset
<1> QED BY <1>1, <1>3, FS_CardinalityType

\* The rank of an entry among those of a list in the order of numbers.
LEMMA NumberRank ==
  ASSUME NEW S, S \subseteq Nat, IsFiniteSet(S), NEW i \in S
  PROVE  /\ Cardinality({j \in S : j <= i}) \in 1 .. Cardinality(S)
         /\ \A h \in S : Cardinality({j \in S : j <= h}) = Cardinality({j \in S : j <= i}) => h = i
<1> DEFINE To(h) == {j \in S : j <= h}
<1>1. \A h \in S : IsFiniteSet(To(h)) /\ Cardinality(To(h)) <= Cardinality(S)
  <2>1. \A h \in S : To(h) \in SUBSET S
    OBVIOUS
  <2> HIDE DEF To
  <2> QED BY <2>1, FS_Subset
<1>2. i \in To(i) /\ To(i) # {}
  OBVIOUS
<1>3. \A g, h \in S : g < h => To(g) \in SUBSET To(h) /\ h \in To(h) /\ h \notin To(g)
  <2> SUFFICES ASSUME NEW g \in S, NEW h \in S, g < h
               PROVE  To(g) \in SUBSET To(h) /\ h \in To(h) /\ h \notin To(g)
    OBVIOUS
  <2>1. g \in Nat /\ h \in Nat /\ \A j \in S : j \in Nat
    OBVIOUS
  <2>2. \A j \in S : j <= g => j <= h
    BY <2>1
  <2>3. h <= h /\ ~(h <= g)
    BY <2>1
  <2> QED BY <2>2, <2>3
<1> HIDE DEF To
<1>4. \A g, h \in S : g < h => Cardinality(To(g)) # Cardinality(To(h))
  BY <1>1, <1>3, FS_Subset
<1>5. \A h \in S : Cardinality(To(h)) = Cardinality(To(i)) => h = i
  BY <1>4
<1>6. Cardinality(To(i)) \in Nat /\ Cardinality(S) \in Nat /\ Cardinality(To(i)) # 0
  BY <1>1, <1>2, FS_CardinalityType, FS_EmptySet
<1>7. Cardinality(To(i)) \in 1 .. Cardinality(S)
  BY <1>1, <1>6
<1> QED BY <1>5, <1>7 DEF To

LEMMA BoardOrders ==
  ASSUME Inv, NEW i \in LiveIds(view, "boards")
  PROVE  view.boards[i].order \in Nat
<1>1. "boards" \in Kinds /\ i \in Slots("boards") /\ IsLive(view["boards"][i])
  BY DEF Kinds, LiveIds
<1>2. view["boards"][i] \in Entries("boards") /\ view["boards"][i] # Unused
  BY <1>1, UnusedFields DEF Inv, TypeInv, SetsTyped, Views
<1>3. view["boards"][i] \in BoardRecords
  BY <1>2, EntriesAre
<1> QED BY <1>3, SlotsAre, DirectoryAssumption DEF BoardRecords, Kinds

\* And by display order.
LEMMA BoardRankIs ==
  ASSUME Inv, NEW i \in LiveIds(view, "boards")
  PROVE  /\ BoardRank(view, i) \in 1 .. Cardinality(LiveIds(view, "boards"))
         /\ \A h \in LiveIds(view, "boards") : BoardRank(view, h) = BoardRank(view, i) => h = i
<1> DEFINE S == LiveIds(view, "boards")
           o(h) == view.boards[h].order
           First(g, h) == o(g) < o(h) \/ (o(g) = o(h) /\ g < h)
           Before(h) == {j \in S : First(j, h)}
<1>1. S \subseteq Nat /\ IsFiniteSet(S) /\ Cardinality(S) \in Nat
  BY LiveFinite DEF Kinds
<1>2. \A h \in S : o(h) \in Nat
  BY BoardOrders
<1>3. \A h \in S : BoardRank(view, h) = 1 + Cardinality(Before(h))
  BY DEF BoardRank
<1>4. /\ \A h \in S : h \in Nat /\ ~First(h, h)
      /\ \A g, h \in S : g = h \/ First(g, h) \/ First(h, g)
      /\ \A f, g, h \in S : First(f, g) /\ First(g, h) => First(f, h)
  <2> HIDE DEF S, o
  <2> QED BY <1>1, <1>2
<1> HIDE DEF First
<1>5. \A h \in S : Before(h) \in SUBSET S /\ h \notin Before(h)
  BY <1>4
<1>6. \A g, h \in S : First(g, h) => Before(g) \in SUBSET Before(h) /\ g \in Before(h) /\ g \notin Before(g)
  BY <1>4
<1> HIDE DEF Before, S
<1>7. \A h \in S : IsFiniteSet(Before(h)) /\ Cardinality(Before(h)) \in Nat
                   /\ Cardinality(Before(h)) <= Cardinality(S)
                   /\ Cardinality(Before(h)) # Cardinality(S)
  BY <1>1, <1>5, FS_Subset, FS_CardinalityType
<1>8. \A g, h \in S : First(g, h) => Cardinality(Before(g)) # Cardinality(Before(h))
  BY <1>6, <1>7, FS_Subset
<1>9. \A h \in S : Cardinality(Before(h)) = Cardinality(Before(i)) => h = i
  BY <1>4, <1>8 DEF S
<1>10. \A h \in S : BoardRank(view, h) = BoardRank(view, i) => h = i
  <2>1. i \in S
    BY DEF S
  <2> QED BY <1>3, <1>7, <1>9, <2>1
<1>11. BoardRank(view, i) \in 1 .. Cardinality(S)
  <2>1. i \in S
    BY DEF S
  <2> QED BY <1>1, <1>3, <1>7, <2>1
<1> QED BY <1>10, <1>11 DEF S

\* A live entry has a line of its own.
LEMMA OneLine ==
  ASSUME Inv, NEW k \in Kinds, NEW i \in LiveIds(view, k)
  PROVE  \E n \in 1 .. Cardinality(LiveIds(view, k)) :
           \A p, d : i \in Page(view, k, p, d) <=> n = p * PerPage + d
<1> DEFINE S == LiveIds(view, k)
<1>1. S \subseteq Nat /\ IsFiniteSet(S)
  BY LiveFinite
<1>2. CASE k = "boards"
  <2> DEFINE n == BoardRank(view, i)
  <2>1. /\ n \in 1 .. Cardinality(LiveIds(view, "boards"))
        /\ \A h \in LiveIds(view, "boards") : BoardRank(view, h) = n => h = i
    BY <1>2, BoardRankIs
  <2> HIDE DEF n
  <2>2. i \in LiveIds(view, "boards") /\ BoardRank(view, i) = n /\ i <= i
    BY <1>1, <1>2 DEF n
  <2>3. \A m : i \in BoardByIndex(view, m) <=> n = m
    BY <2>1, <2>2 DEF BoardByIndex
  <2>4. \A p, d : Page(view, k, p, d) = BoardByIndex(view, p * PerPage + d)
    BY <1>2 DEF Page, BoardsPage
  <2> QED BY <1>2, <2>1, <2>3, <2>4
<1>3. CASE k # "boards"
  <2> DEFINE n == Cardinality({j \in S : j <= i})
  <2>1. n \in 1 .. Cardinality(S) /\ \A h \in S : Cardinality({j \in S : j <= h}) = n => h = i
    BY <1>1, NumberRank
  <2>2. \A m : i \in Nth(S, m) <=> n = m
    BY DEF Nth
  <2>3. \A p, d : Page(view, k, p, d) = Nth(S, p * PerPage + d)
    BY <1>3 DEF Page, AreasPage, VotesPage, DoorsPage, AreaByIndex, VoteByIndex, DoorByIndex, Kinds
  <2> HIDE DEF n
  <2> QED BY <2>1, <2>2, <2>3
<1> QED BY <1>2, <1>3

LEMMA Listed == ASSUME Inv PROVE ListedOnce
<1> SUFFICES ASSUME NEW k \in Kinds, NEW i \in LiveIds(view, k)
             PROVE  Cardinality(Lines(k, i)) = 1
  BY DEF ListedOnce
<1> DEFINE N == Cardinality(LiveIds(view, k))
<1>1. PICK n \in 1 .. N : \A p, d : i \in Page(view, k, p, d) <=> n = p * PerPage + d
  BY OneLine
<1>2. N \in Nat
  BY LiveFinite
<1>3. Pages(view, k) = PagesOf(PerPage, N)
  BY DEF Pages, PagesOf
<1> HIDE DEF N
<1>4. Lines(k, i) = PlacesOf(PerPage, N, n)
  BY <1>1, <1>3 DEF Lines, PlacesOf
<1>5. PICK x : PlacesOf(PerPage, N, n) = {x}
  <2>1. PerPage \in Nat \ {0} /\ n \in 1 .. N
    BY <1>1, Bounds
  <2> QED BY <1>2, <2>1, OnePlace, Zenon
<1>6. Cardinality({x}) = 1
  BY FS_Singleton, Zenon
<1> QED BY <1>4, <1>5, <1>6

\* A live board, area, poll or door is on exactly one line of one page of its
\* list, whatever order numbers the SysOp gives and however many are on a page:
\* it can be picked (board_by_index(), file_area_by_index(), vote_by_index(), the
\* lists of src-editor/admin).
THEOREM EachIsListed == Spec => []ListedOnce
<1>1. Inv => ListedOnce
  BY Listed
<1> QED BY <1>1, InvAlways, PTL

\* What the SysOp was told of an entry, that it is saved or deleted, is what a
\* reset leaves of it, unless an attempt of theirs failed since; then it is that
\* or what the attempt was to make of it.  And it can be found in its list.
\* DirectorySlot shows why door_by_id() must not fail when CREATE DOOR looks for
\* a free slot.
THEOREM WordIsKept == "slot" \notin Faults => (Spec => []SaidIsKept)
<1> SUFFICES ASSUME "slot" \notin Faults PROVE Spec => []SaidIsKept
  OBVIOUS
<1>1. SaidInv => SaidSurvives
  BY DEF SaidInv, SaidSets, SaidSurvives, Announced
<1>2. SaidInv /\ ListedOnce => SaidIsKept
  BY <1>1 DEF SaidIsKept
<1> QED BY <1>2, SaidAlways, EachIsListed, PTL
=============================================================================
