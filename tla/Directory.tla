----------------------------- MODULE Directory -----------------------------
(***************************************************************************)
(* The four directories of the BBS, boards, file areas, polls and doors,   *)
(* as CONFIGURE creates, edits and deletes their entries (data/boards.c,   *)
(* file_areas.c, votes.c, doors.c; src-editor/admin/messages.c, files.c,   *)
(* votes.c, doors.c), and what else is kept under an entry's number: the   *)
(* messages of a board, the callers' read pointers, the files of an area.  *)
(*                                                                         *)
(* Each directory is a record set as RecordStore has it.  An action is one *)
(* command of a menu or one key of a form.                                 *)
(***************************************************************************)
EXTENDS Naturals, FiniteSets

CONSTANTS
  MaxBoards, MaxAreas, MaxPolls, MaxDoors,  \* CFG_MAX_BOARDS, ..., DOORS_MAX
  PerPage,     \* entries to a page of a list: 4, for doors 10
  Orders,      \* display orders the SysOp may give a board
  Levels,      \* levels of areas and doors
  Options,     \* numbers of options of a poll, 2 being the default
  Faults,      \* subset of {"open", "slot", "flush", "scratch"}
  MaxFaults,   \* bounds on the failures
  MaxEntries   \* and on the entries ever created

ASSUME DirectoryAssumption ==
  /\ {MaxBoards, MaxAreas, MaxPolls, MaxDoors, PerPage} \subseteq Nat \ {0}
  /\ {MaxFaults, MaxEntries} \subseteq Nat
  /\ Orders \subseteq Nat /\ 0 \in Levels /\ 2 \in Options
  /\ Faults \subseteq {"open", "slot", "flush", "scratch"}

Kinds == {"boards", "areas", "polls", "doors"}
Max == [boards |-> MaxBoards, areas |-> MaxAreas, polls |-> MaxPolls, doors |-> MaxDoors]
Slots(k) == 1 .. Max[k]

\* Titles are told apart only by whether they are blank.
Titles == {" ", "title"}

\* The records.  "born" is the entry a record is of, by the order of creation;
\* 0 is a slot never used, whose id byte is 0.
Unused == [born |-> 0, title |-> " "]
BoardRecord(s, t, o, n, g) == [born |-> s, title |-> t, order |-> o, net |-> n, tag |-> g]
AreaRecord(s, t, l) == [born |-> s, title |-> t, level |-> l]
VoteRecord(s, t, o, a) == [born |-> s, title |-> t, options |-> o, active |-> a]
DoorRecord(s, t, l) == [born |-> s, title |-> t, level |-> l]

VARIABLES
  view,      \* the four record sets as the next rel_open() shows them,
  disk,      \* and as they survive a reset
  index, bodies, pointers,  \* B<n>.IDX, B<n>.TXT, what USR.PTR has of board n:
  entries,                  \* UD<n>: the entry each was written for, 0 if none
  at,        \* "off", CONFIGURE's "menu", or the form of a "board" or "door"
  form, id, tag, how,       \* of the form: its record, s_edit_net_tag, new or not
  next,      \* history: entries created so far
  said,      \* history: what the SysOp was last told of each entry, and what
             \* attempts that failed since may have made of it
  place,     \* history: the directory and the number each entry was given
  fails      \* history: counted against the bound

sets    == <<view, disk, fails>>
content == <<index, bodies, pointers, entries>>
editor  == <<form, id, tag, how>>
history == <<next, said, place>>
vars    == <<sets, content, at, editor, history>>

-----------------------------------------------------------------------------
\* The record sets.  What a sequence of calls of rel_seq.c may come to is a set
\* of outcomes; "ok" is FALSE once one of them has returned an error.

Now == [view |-> view, disk |-> disk, fails |-> fails, ok |-> TRUE]
Keep(o) == view' = o.view /\ disk' = o.disk /\ fails' = o.fails

Fault(f, o) == f \in Faults /\ o.fails < MaxFaults

\* rel_open() first saves what an earlier close could not.
Open(o) ==
  {[o EXCEPT !.disk = o.view]} \cup
  {[o EXCEPT !.disk = d, !.ok = FALSE, !.fails = @ + 1] :
     d \in IF Fault("open", o) THEN {o.disk, o.view} ELSE {}}

\* The same of the calls that only read.
Opened == \E o \in Open(Now) : Keep(o)

\* board_save(), file_area_save(), vote_save(), door_save().
Write(o, k, i, rec) == [o EXCEPT !.view[k][i] = rec]
Save(o, k, i, rec) ==
  UNION {IF ~p.ok THEN {p}
         ELSE {[Write(p, k, i, rec) EXCEPT !.disk = Write(p, k, i, rec).view]} \cup
              {[Write(p, k, i, rec) EXCEPT !.ok = FALSE, !.fails = @ + 1] :
                 x \in IF Fault("flush", p) THEN {1} ELSE {}}
         : p \in Open(o)}

\* What is said of entry s when an attempt to make it r has succeeded or not:
\* nothing of an entry that was never announced.
Gone == Unused
Told(s, r) == [said EXCEPT ![s] = {r}]
Tried(s, r) == [said EXCEPT ![s] = IF @ = {} THEN {} ELSE @ \cup {r}]

-----------------------------------------------------------------------------
\* Numbers and lists.

\* An entry is live if its record has an id and its title is not blank; that of
\* a door always is, and its record is all zero when it is deleted.
IsLive(rec) == rec.born # 0 /\ rec.title # " "
LiveIds(v, k) == {i \in Slots(k) : IsLive(v[k][i])}

\* Mutant: two boards of the same order have the same rank.
BoardRankTied(v, i) ==
  1 + Cardinality({j \in LiveIds(v, "boards") : v.boards[j].order < v.boards[i].order})
\* board_by_index(): by display order, then by number.
BoardRank(v, i) ==
  1 + Cardinality({j \in LiveIds(v, "boards") :
        \/ v.boards[j].order < v.boards[i].order
        \/ v.boards[j].order = v.boards[i].order /\ j < i})
BoardByIndex(v, n) ==
  LET S == {i \in LiveIds(v, "boards") : BoardRank(v, i) = n} IN {i \in S : \A j \in S : i <= j}

\* The others: in the order of their numbers.
Nth(S, n) == {i \in S : Cardinality({j \in S : j <= i}) = n}
AreaByIndex(v, n) == Nth(LiveIds(v, "areas"), n)
VoteByIndex(v, n) == Nth(LiveIds(v, "polls"), n)
DoorByIndex(v, n) == Nth(LiveIds(v, "doors"), n)

\* What line d of a page shows, pages being counted from 0.
Pages(v, k) == 0 .. ((Cardinality(LiveIds(v, k)) + PerPage - 1) \div PerPage) - 1
BoardsPage(v, p, d) == BoardByIndex(v, p * PerPage + d)
AreasPage(v, p, d) == AreaByIndex(v, p * PerPage + d)
VotesPage(v, p, d) == VoteByIndex(v, p * PerPage + d)
DoorsPage(v, p, d) == DoorByIndex(v, p * PerPage + d)
Page(v, k, p, d) ==
  CASE k = "boards" -> BoardsPage(v, p, d)
    [] k = "areas"  -> AreasPage(v, p, d)
    [] k = "polls"  -> VotesPage(v, p, d)
    [] k = "doors"  -> DoorsPage(v, p, d)

\* A number is chosen from some page; files.c also takes an index typed out,
\* which is on some page, too.
Pick(k) == UNION {Page(view, k, p, d) : p \in Pages(view, k), d \in 1 .. PerPage}

Greatest(S) == CHOOSE i \in S \cup {0} : \A j \in S : j <= i

\* Mutant: the scan passes over deleted entries, as those of the lists do.
UsedIdsLive(k) == LiveIds(view, k)
\* board_create(), file_area_create(), vote_create(): the number after the
\* highest ever used, whether its entry is live or not.
UsedIds(k) == {i \in Slots(k) : view[k][i].born # 0}
NextBoard == Greatest(UsedIds("boards")) + 1
NextArea == Greatest(UsedIds("areas")) + 1
NextVote == Greatest(UsedIds("polls")) + 1

\* doors_do_create(): the first slot that door_by_id() does not return.
DoorSlots ==
  {i \in Slots("doors") :
    /\ \A j \in 1 .. i - 1 : IsLive(view.doors[j])
    /\ ~IsLive(view.doors[i])}

\* The entry that is put into slot i of k.
New(k, i) ==
  /\ next < MaxEntries
  /\ next' = next + 1 /\ place' = [place EXCEPT ![next + 1] = <<k, i>>]
Old == UNCHANGED <<next, place>>

\* What is seen of a record: a blank title deletes the entry.
Seen(rec) == IF IsLive(rec) THEN rec ELSE Gone

\* board_by_id() and a save with the title blanked.  file_areas.c and votes.c
\* delete in the same way.
Delete(o, k, i) ==
  UNION {IF p.ok /\ IsLive(p.view[k][i])
         THEN Save(p, k, i, [p.view[k][i] EXCEPT !.title = " "])
         ELSE {[p EXCEPT !.ok = FALSE]}
         : p \in Open(o)}

\* Its second and later steps are made although an earlier one has failed.
Anyway(o) == [o EXCEPT !.ok = TRUE]

-----------------------------------------------------------------------------
\* The programs.  A reset, or the end of CONFIGURE, loses what is not saved.

ClosedForm == /\ form' = Unused /\ id' = 0 /\ tag' = "" /\ how' = "none"

Start ==
  /\ at = "off" /\ at' = "menu"
  /\ UNCHANGED <<sets, content, editor, history>>

Reset ==
  /\ at # "off" /\ at' = "off"
  /\ view' = disk /\ UNCHANGED <<disk, fails>>
  /\ ClosedForm
  /\ UNCHANGED <<content, history>>

\* A caller of the BBS posts on board b and leaves the reader: see Reader and
\* MsgBase for the steps.
Visit(b) ==
  /\ at = "off" /\ IsLive(disk.boards[b])
  /\ LET s == disk.boards[b].born IN
     /\ index' = [index EXCEPT ![b] = IF @ = 0 THEN s ELSE @]
     /\ bodies' = [bodies EXCEPT ![b] = IF @ = 0 THEN s ELSE @]
     /\ pointers' = [pointers EXCEPT ![b] = s]
  /\ UNCHANGED <<sets, entries, at, editor, history>>

\* A caller uploads a file to area a: see Transfers.
Upload(a) ==
  /\ at = "off" /\ IsLive(disk.areas[a])
  /\ entries' = [entries EXCEPT ![a] = IF @ = 0 THEN disk.areas[a].born ELSE @]
  /\ UNCHANGED <<sets, index, bodies, pointers, at, editor, history>>

\* LIST, the statistics, and every command given up before it changes anything.
Browse ==
  /\ at = "menu" /\ Opened
  /\ UNCHANGED <<content, at, editor, history>>

-----------------------------------------------------------------------------
\* MSG AREAS.

OpenForm(rec, i, h) ==
  /\ form' = rec /\ id' = i /\ how' = h
  /\ tag' = IF "tag" \in DOMAIN rec THEN rec.tag ELSE ""

\* boards_do_create(): the board is saved before its form is shown.  If it
\* cannot be read again, it is deleted, whatever comes of that.
BoardsCreate(t) ==
  /\ at = "menu" /\ NextBoard <= MaxBoards
  /\ LET i == NextBoard  rec == BoardRecord(next + 1, t, i, FALSE, "") IN
     /\ New("boards", i)
     /\ \E p \in Save(Now, "boards", i, rec) :
          \/ ~p.ok /\ Keep(p) /\ UNCHANGED <<at, editor>>
          \/ /\ p.ok
             /\ \E q \in Open(p) :
                  \/ /\ q.ok /\ IsLive(rec) /\ Keep(q)
                     /\ at' = "board" /\ OpenForm(rec, i, "new")
                  \/ /\ ~q.ok \/ ~IsLive(rec)
                     /\ \E r \in Delete(Anyway(q), "boards", i) : Keep(r)
                     /\ UNCHANGED <<at, editor>>
  /\ UNCHANGED <<content, said>>

BoardsEdit(i) ==
  /\ at = "menu" /\ i \in Pick("boards") /\ disk' = view
  /\ at' = "board" /\ OpenForm(view.boards[i], i, "old")
  /\ UNCHANGED <<view, fails, content, history>>

\* A key of boards_edit_record().  The net tag is typed into a buffer of its
\* own, where N has been set.
BoardKey ==
  /\ at = "board"
  /\ \/ \E t \in Titles : form' = [form EXCEPT !.title = t] /\ UNCHANGED tag
     \/ \E o \in Orders : form' = [form EXCEPT !.order = o] /\ UNCHANGED tag
     \/ form' = [form EXCEPT !.net = ~@] /\ UNCHANGED tag
     \/ \E g \in {"", "tag"} : tag' = g /\ UNCHANGED form
  /\ UNCHANGED <<sets, content, at, id, how, history>>

\* board_set_net_area(): the record is read again, given the tag, and saved.
NetArea(rec) ==
  IF rec.net /\ tag # "" THEN [rec EXCEPT !.tag = tag] ELSE [rec EXCEPT !.tag = "", !.net = FALSE]
SetNetArea(o) ==
  UNION {IF p.ok /\ IsLive(form) THEN Save(p, "boards", id, NetArea(form))
         ELSE {[p EXCEPT !.ok = FALSE]}
         : p \in Open(o)}

\* S: once the record is saved BOARD SAVED is shown, after an error for the tag
\* of a net board, and none for that of another.
BoardSave ==
  /\ at = "board"
  /\ \E p \in Save(Now, "boards", id, form) :
       \/ /\ ~p.ok /\ Keep(p)
          /\ said' = Tried(form.born, Seen(form)) /\ UNCHANGED <<at, editor>>
       \/ /\ p.ok /\ at' = "menu" /\ ClosedForm
          /\ \E q \in SetNetArea(p) :
               /\ Keep(q)
               /\ said' = [said EXCEPT ![form.born] =
                    IF q.ok THEN {Seen(NetArea(form))}
                    ELSE {Seen(form), Seen(NetArea(form))}]
  /\ Old /\ UNCHANGED content

\* C: a new board is deleted again, whatever comes of it.
BoardCancel ==
  /\ at = "board" /\ at' = "menu" /\ ClosedForm
  /\ IF how = "new" THEN \E p \in Delete(Now, "boards", id) : Keep(p) ELSE UNCHANGED sets
  /\ UNCHANGED <<content, history>>

\* boards_do_delete(), with the scratch of two files of which either may fail.
BoardsDelete(i) ==
  /\ at = "menu" /\ i \in Pick("boards")
  /\ LET s == view.boards[i].born IN
     \E p \in Delete(Now, "boards", i) :
       \/ ~p.ok /\ Keep(p) /\ said' = Tried(s, Gone) /\ UNCHANGED <<index, bodies>>
       \/ /\ p.ok /\ said' = Told(s, Gone)
          /\ \E kept \in IF Fault("scratch", p) THEN SUBSET {"idx", "txt"} ELSE {{}} :
               /\ index' = [index EXCEPT ![i] = IF "idx" \in kept THEN @ ELSE 0]
               /\ bodies' = [bodies EXCEPT ![i] = IF "txt" \in kept THEN @ ELSE 0]
               /\ Keep(IF kept = {} THEN p ELSE [p EXCEPT !.fails = @ + 1])
  /\ Old /\ UNCHANGED <<pointers, entries, at, editor>>

-----------------------------------------------------------------------------
\* FILE AREAS.  An area's UD<n> stays when the area is deleted.

\* areas_do_create(), areas_do_edit(), areas_do_delete(): one save each.
AreasCreate(t, l) ==
  /\ at = "menu" /\ NextArea <= MaxAreas
  /\ LET i == NextArea  rec == AreaRecord(next + 1, t, l) IN
     /\ New("areas", i)
     /\ \E p \in Save(Now, "areas", i, rec) :
          Keep(p) /\ said' = IF p.ok THEN Told(rec.born, Seen(rec)) ELSE said
  /\ UNCHANGED <<content, at, editor>>

\* A blank title is refused.
AreasEdit(i, l) ==
  /\ at = "menu" /\ i \in Pick("areas")
  /\ LET rec == [view.areas[i] EXCEPT !.level = l] IN
     \E p \in Save(Now, "areas", i, rec) :
       Keep(p) /\ said' = IF p.ok THEN Told(rec.born, rec) ELSE Tried(rec.born, rec)
  /\ Old /\ UNCHANGED <<content, at, editor>>

AreasDelete(i) ==
  /\ at = "menu" /\ i \in Pick("areas")
  /\ LET s == view.areas[i].born IN
     \E p \in Delete(Now, "areas", i) :
       Keep(p) /\ said' = IF p.ok THEN Told(s, Gone) ELSE Tried(s, Gone)
  /\ Old /\ UNCHANGED <<content, at, editor>>

-----------------------------------------------------------------------------
\* VOTE MGMT.

\* votes_do_create(): the poll is saved with two options, read again and saved
\* with its own number; POLL CREATED is shown whatever comes of the latter.
VotesCreate(t, o) ==
  /\ at = "menu" /\ NextVote <= MaxPolls
  /\ LET i == NextVote
         first == VoteRecord(next + 1, t, 2, TRUE)
         rec == VoteRecord(next + 1, t, o, TRUE) IN
     /\ New("polls", i)
     /\ \E p \in Save(Now, "polls", i, first) :
          \/ ~p.ok /\ Keep(p) /\ UNCHANGED said
          \/ /\ p.ok
             /\ \E q \in Open(p) :
                  \E r \in IF q.ok /\ IsLive(rec) THEN Save(q, "polls", i, rec)
                          ELSE {[q EXCEPT !.ok = FALSE]} :
                    /\ Keep(r)
                    /\ said' = [said EXCEPT ![rec.born] =
                         IF r.ok THEN {Seen(rec)} ELSE {Seen(first), Seen(rec)}]
  /\ UNCHANGED <<content, at, editor>>

\* votes_do_tally(), T.
VotesToggle(i) ==
  /\ at = "menu" /\ i \in Pick("polls")
  /\ LET rec == [view.polls[i] EXCEPT !.active = ~@] IN
     \E p \in Save(Now, "polls", i, rec) :
       Keep(p) /\ said' = IF p.ok THEN Told(rec.born, rec) ELSE Tried(rec.born, rec)
  /\ Old /\ UNCHANGED <<content, at, editor>>

VotesDelete(i) ==
  /\ at = "menu" /\ i \in Pick("polls")
  /\ LET s == view.polls[i].born IN
     \E p \in Delete(Now, "polls", i) :
       Keep(p) /\ said' = IF p.ok THEN Told(s, Gone) ELSE Tried(s, Gone)
  /\ Old /\ UNCHANGED <<content, at, editor>>

-----------------------------------------------------------------------------
\* DOOR PROGRAMS.  A slot is used again when its door has been deleted.

\* Any failure of door_by_id() makes a slot a free one.
DoorsCreate(i) ==
  /\ at = "menu" /\ at' = "door" /\ disk' = view
  /\ \/ i \in DoorSlots /\ UNCHANGED fails
     \/ /\ Fault("slot", Now) /\ fails' = fails + 1
        /\ i \in Slots("doors") /\ \A j \in 1 .. i : IsLive(view.doors[j])
  /\ New("doors", i) /\ OpenForm(DoorRecord(next + 1, " ", 0), i, "new")
  /\ UNCHANGED <<view, content, said>>

\* Mutant: the line of the list is taken for the slot.
DoorsEditLine(i) ==
  /\ at = "menu" /\ i \in Pick("doors") /\ disk' = view
  /\ at' = "door"
  /\ \E n \in Slots("doors") : i \in DoorByIndex(view, n) /\ OpenForm(view.doors[i], n, "old")
  /\ UNCHANGED <<view, fails, content, history>>
DoorsEdit(i) ==
  /\ at = "menu" /\ i \in Pick("doors") /\ disk' = view
  /\ at' = "door" /\ OpenForm(view.doors[i], i, "old")
  /\ UNCHANGED <<view, fails, content, history>>

DoorKey ==
  /\ at = "door"
  /\ \/ \E t \in Titles : form' = [form EXCEPT !.title = t]
     \/ \E l \in Levels : form' = [form EXCEPT !.level = l]
  /\ UNCHANGED <<sets, content, at, id, tag, how, history>>

\* S: a title and a file name are required.
DoorSave ==
  /\ at = "door" /\ form.title # " "
  /\ \E p \in Save(Now, "doors", id, form) :
       /\ Keep(p)
       /\ IF p.ok THEN said' = Told(form.born, form) /\ at' = "menu" /\ ClosedForm
          ELSE said' = Tried(form.born, form) /\ UNCHANGED <<at, editor>>
  /\ Old /\ UNCHANGED content

DoorCancel ==
  /\ at = "door" /\ at' = "menu" /\ ClosedForm
  /\ UNCHANGED <<sets, content, history>>

\* door_delete(): the record becomes zero.
DoorsDelete(i) ==
  /\ at = "menu" /\ i \in Pick("doors")
  /\ LET s == view.doors[i].born IN
     \E p \in Save(Now, "doors", i, Unused) :
       Keep(p) /\ said' = IF p.ok THEN Told(s, Gone) ELSE Tried(s, Gone)
  /\ Old /\ UNCHANGED <<content, at, editor>>

-----------------------------------------------------------------------------
Init ==
  /\ view = [k \in Kinds |-> [i \in Slots(k) |-> Unused]] /\ disk = view
  /\ index = [i \in Slots("boards") |-> 0] /\ bodies = index /\ pointers = index
  /\ entries = [i \in Slots("areas") |-> 0]
  /\ at = "off" /\ form = Unused /\ id = 0 /\ tag = "" /\ how = "none"
  /\ next = 0 /\ fails = 0
  /\ said = [s \in 1 .. MaxEntries |-> {}] /\ place = [s \in 1 .. MaxEntries |-> << >>]

Boards ==
  \/ \E t \in Titles : BoardsCreate(t)
  \/ \E i \in Slots("boards") : BoardsEdit(i) \/ BoardsDelete(i)
  \/ BoardKey \/ BoardSave \/ BoardCancel
Areas ==
  \/ \E t \in Titles, l \in Levels : AreasCreate(t, l)
  \/ \E i \in Slots("areas") : AreasDelete(i) \/ \E l \in Levels : AreasEdit(i, l)
Votes ==
  \/ \E t \in Titles, o \in Options : VotesCreate(t, o)
  \/ \E i \in Slots("polls") : VotesToggle(i) \/ VotesDelete(i)
Doors ==
  \/ \E i \in Slots("doors") : DoorsCreate(i) \/ DoorsEdit(i) \/ DoorsDelete(i)
  \/ DoorKey \/ DoorSave \/ DoorCancel

Next ==
  \/ Start \/ Reset \/ Browse
  \/ \E b \in Slots("boards") : Visit(b)
  \/ \E a \in Slots("areas") : Upload(a)
  \/ Boards \/ Areas \/ Votes \/ Doors

Spec == Init /\ [][Next]_vars

-----------------------------------------------------------------------------
Serials == 0 .. MaxEntries
BoardRecords == [born : Serials, title : Titles, order : Orders \cup Slots("boards"),
                 net : BOOLEAN, tag : {"", "tag"}]
AreaRecords == [born : Serials, title : Titles, level : Levels]
VoteRecords == [born : Serials, title : Titles, options : Options, active : BOOLEAN]
Entries(k) ==
  {Unused} \cup CASE k = "boards" -> BoardRecords [] k = "polls" -> VoteRecords
                 [] OTHER -> AreaRecords

\* Every variable is of its type; a form is of an entry's own slot.
TypeOK ==
  /\ \A v \in {view, disk} : \A k \in Kinds :
       v[k] \in [Slots(k) -> Entries(k)] /\ \A i \in Slots(k) : v[k][i].born <= next
  /\ {index, bodies, pointers} \subseteq [Slots("boards") -> Serials]
  /\ entries \in [Slots("areas") -> Serials]
  /\ at \in {"off", "menu", "board", "door"} /\ how \in {"none", "new", "old"}
  /\ at = "board" => form \in BoardRecords /\ place[form.born] = <<"boards", id>>
  /\ at = "door" => form \in AreaRecords /\ place[form.born] = <<"doors", id>>
  /\ tag \in {"", "tag"} /\ next \in Serials /\ fails \in 0 .. MaxFaults

\* No board or area inherits what was kept under its number for an earlier
\* one: messages, bodies, read pointers, files.  Deleting an entry scratches
\* some of this and not the rest, and a scratch may fail; what it rests on is
\* that no number is given twice, over failed saves, resets and deletions.
OwnContent ==
  \A v \in {view, disk} :
    /\ \A b \in Slots("boards") : v.boards[b].born # 0 =>
         {index[b], bodies[b], pointers[b]} \subseteq {0, v.boards[b].born}
    /\ \A a \in Slots("areas") : v.areas[a].born # 0 => entries[a] \in {0, v.areas[a].born}

\* What a set has of entry s at the place the entry was given.
RecordOf(v, s) ==
  LET r == v[place[s][1]][place[s][2]] IN IF r.born = s THEN Seen(r) ELSE Gone

\* What the SysOp was told of an entry, "saved" or "deleted", is what a reset
\* leaves of it, or an attempt of theirs that failed since.
SaidSurvives == \A s \in 1 .. MaxEntries : said[s] # {} => RecordOf(disk, s) \in said[s]

\* A live entry is in exactly one place of its list, whatever its order.
Lines(k, i) ==
  {pd \in Pages(view, k) \X (1 .. PerPage) : i \in Page(view, k, pd[1], pd[2])}
ListedOnce ==
  \A k \in Kinds : \A i \in LiveIds(view, k) : Cardinality(Lines(k, i)) = 1

\* The lists of CONFIGURE and what it tells the SysOp: an entry that it said is
\* saved is there after a reset, one that it said is deleted is not, and each can
\* be reached from its list to be edited or deleted.
SaidIsKept == SaidSurvives /\ ListedOnce

\* file_areas.h:88, "BBS_EFULL: area table full (8 areas max)": not so, the number
\* of a deleted area is not given again.
FullIsFull ==
  at = "menu" /\ NextArea > MaxAreas => LiveIds(view, "areas") = Slots("areas")
=============================================================================
