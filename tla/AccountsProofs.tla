--------------------------- MODULE AccountsProofs ---------------------------
(***************************************************************************)
(* Theorems about Accounts, for any number of users, calls, edits, days    *)
(* and failures.                                                           *)
(*                                                                         *)
(* The handles of the live accounts are different, in the file and in what *)
(* a reset would leave of it (Unique), and every account that was          *)
(* announced has its handle in both (GivenInv), though user_by_handle()    *)
(* may not find the one that begins with a space.  This lasts because the    *)
(* copies that are written back later still have the handle of the record  *)
(* they are copies of (SessionInv, FormInv): the two programs never run at *)
(* the same time.                                                          *)
(***************************************************************************)
EXTENDS Accounts, SequenceTheorems, WellFoundedInduction, TLAPS

Unique(t) == \A i, j \in Ids : IsLive(t[i]) /\ t[i].handle = t[j].handle => i = j

Given == Handles \cup {Sysop, Blank, << >>}
GivenInv ==
  \A i \in Ids : given[i] # << >> =>
    users[i].handle = given[i] /\ disk[i].handle = given[i]

FileInv ==
  /\ users \in [Ids -> Records] /\ disk \in [Ids -> Records] /\ given \in [Ids -> Given]
  /\ Unique(users) /\ Unique(disk) /\ GivenInv

\* The session's record has the handle of the one on file, which is in use.
SessionInv ==
  /\ at = "password" => handle \in Handles \cup {Sysop}
  /\ at = "menu" => user_id # 0
  /\ user_id # 0 => /\ at \in {"register", "menu", "over"}
                    /\ user.handle # << >> /\ user.handle = users[user_id].handle

\* The form's handle is nobody else's, if it is that of a live account, though
\* it need not have been saved.
FormInv ==
  /\ at = "form" <=> form_id # 0
  /\ form_id # 0 => /\ form.handle # << >>
                    /\ \A j \in Ids : IsLive(form) /\ users[j].handle = form.handle => j = form_id
                    /\ given[form_id] \in {<< >>, form.handle}

\* What is in the buffer while a handle is typed: nothing, or too short a line.
Short == {<< >>, <<"s">>}

\* What a registration has collected, at each of its steps.
RegInv ==
  at = "register" =>
    /\ reg_step = 0 => reg_editing = FALSE
    /\ reg_step = 1 => handle \in Short
    /\ reg_step >= 2 => handle \in Handles
    /\ reg_step = 3 => password # NoLine
    /\ reg_step >= 4 \/ (reg_step = 1 /\ reg_editing = TRUE) => password # NoLine /\ confirm = password
    /\ reg_step >= 12 => user_id # 0 /\ user = Account(user_id, handle, password)

Inv == TypeOK /\ FileInv /\ SessionInv /\ FormInv /\ RegInv

-----------------------------------------------------------------------------
(* Sets of numbers. *)

\* A set of natural numbers has a least one.
LEMMA Least ==
  ASSUME NEW S, S \subseteq Nat, S # {}
  PROVE  Min(S) \in S /\ \A n \in S : Min(S) <= n
<1>1. \E x \in S : \A y \in S : ~ (<<y, x>> \in OpToRel(<, Nat))
  BY WFMin, NatLessThanWellFounded
<1>2. \E x \in S : \A y \in S : ~ (y < x)
  BY <1>1, Zenon DEF OpToRel
<1>3. \E x \in S : \A y \in S : x <= y
  BY <1>2
<1> QED BY <1>3 DEF Min

\* A set of numbers up to a bound has a greatest one, if it has one at all.
LEMMA Greatest ==
  ASSUME NEW m \in Nat, NEW S, S \subseteq 0 .. m, S # {}
  PROVE  Max(S) \in S /\ \A n \in S : n <= Max(S)
<1> DEFINE T == {n \in Nat : \A k \in S : k <= n}
<1>1. m \in T
  OBVIOUS
<1>2. Min(T) \in T /\ \A n \in T : Min(T) <= n
  BY <1>1, Least
<1> DEFINE x == Min(T)
<1> HIDE DEF x
<1>3. x \in S
  <2>1. SUFFICES ASSUME x \notin S PROVE FALSE
    OBVIOUS
  <2>2. \A k \in S : k <= x - 1
    BY <1>2, <2>1 DEF x
  <2>3. x - 1 \in Nat
    <3>1. PICK k \in S : TRUE
      OBVIOUS
    <3>2. x \in Nat /\ k \in 0 .. m /\ k <= x - 1
      BY <1>2, <2>2, <3>1 DEF x
    <3> QED BY <3>2
  <2> QED BY <1>2, <2>2, <2>3 DEF x
<1>4. \E g \in S : \A k \in S : g >= k
  BY <1>2, <1>3 DEF x
<1> QED BY <1>4 DEF Max

-----------------------------------------------------------------------------
(* The constants, and records. *)

LEMMA Bounds ==
  /\ MaxUsers \in Nat \ {0} /\ Tries \in Nat \ {0} /\ MaxDays \in Nat \ {0}
  /\ DayCap \in Nat \ {0} /\ Limit \in Nat
  /\ "PASS" \in Passwords /\ NoLine \notin Passwords
BY AccountsAssumption

LEMMA IdNumbers ==
  /\ MaxUsers \in Nat /\ 0 \in 0 .. MaxUsers
  /\ Ids \subseteq Nat /\ Ids \subseteq 0 .. MaxUsers /\ 0 \notin Ids /\ 1 \in Ids
<1>1. MaxUsers \in Nat /\ MaxUsers # 0
  BY Bounds
<1> QED BY <1>1 DEF Ids

\* A handle that can be registered is neither empty nor too short.
LEMMA LongHandles ==
  /\ \A h \in Handles : h \notin {<< >>, <<"s">>}
  /\ Sysop \notin {Blank, << >>} /\ Blank # << >>
<1>1. \A l \in Lines \ {"s"} : <<l>> \notin {<< >>, <<"s">>}
  OBVIOUS
<1>2. \A l \in Lines \ {"s"} : <<"s", l>> \notin {<< >>, <<"s">>}
  OBVIOUS
<1>3. Sysop \notin {Blank, << >>} /\ Blank # << >>
  BY DEF Blank, Sysop
<1> QED BY <1>1, <1>2, <1>3, Zenon DEF Handles

LEMMA TwoLines ==
  ASSUME NEW l
  PROVE  Append(<<"s">>, l) = <<"s", l>>
<1> DEFINE S == {"s", l}
<1>1. <<"s">> \in Seq(S) /\ Len(<<"s">>) = 1 /\ <<"s">>[1] = "s"
  OBVIOUS
<1>2. <<"s", l>> \in Seq(S) /\ Len(<<"s", l>>) = 2 /\ <<"s", l>>[1] = "s" /\ <<"s", l>>[2] = l
  OBVIOUS
<1>3. /\ Append(<<"s">>, l) \in Seq(S) /\ Len(Append(<<"s">>, l)) = 2
      /\ Append(<<"s">>, l)[1] = "s" /\ Append(<<"s">>, l)[2] = l
  BY <1>1, AppendProperties
<1> DEFINE a == Append(<<"s">>, l)
           b == <<"s", l>>
<1>4. /\ a \in Seq(S) /\ b \in Seq(S) /\ Len(a) = Len(b)
      /\ \A i \in 1 .. Len(a) : a[i] = b[i]
  BY <1>2, <1>3
<1> HIDE DEF S, a, b
<1>5. a = b
  BY <1>4, SeqEqual
<1> QED BY <1>5 DEF a, b

LEMMA ShortLines ==
  << >> \in Short /\ \A h \in Short : h \notin Handles
BY LongHandles DEF Short

LEMMA RecordTypes ==
  /\ Nobody \in Records
  /\ \A id \in Ids, h \in Handles \cup {Sysop}, p \in Passwords :
       /\ Account(id, h, p) \in Records
       /\ Account(id, h, p).handle = h
       /\ h # << >>
  /\ \A rec \in Records : rec.handle \in Handles \cup {Sysop, Blank, << >>}
BY LongHandles DEF Records, Nobody, Account, Hash

\* The record with another handle, and with another password.
LEMMA Edited ==
  ASSUME NEW rec \in Records
  PROVE  /\ \A h \in Handles \cup {Sysop, Blank, << >>} :
              [rec EXCEPT !.handle = h] \in Records /\ [rec EXCEPT !.handle = h].handle = h
         /\ \A id \in Ids, p \in Passwords :
              /\ [rec EXCEPT !.password = Hash(id, p)] \in Records
              /\ [rec EXCEPT !.password = Hash(id, p)].handle = rec.handle
BY DEF Records, Hash

\* One record written: the others are as they were.
LEMMA PutFacts ==
  ASSUME users \in [Ids -> Records], NEW id \in Ids, NEW rec \in Records, Put(id, rec)
  PROVE  /\ users' \in [Ids -> Records]
         /\ users'[id] = rec
         /\ \A j \in Ids \ {id} : users'[j] = users[j]
BY DEF Put

\* user_by_handle() finds a record with the handle, if there is one,
LEMMA Lookup ==
  ASSUME NEW t, NEW h
  PROVE  \/ ByHandle(t, h) = 0 /\ \A i \in Ids : t[i].handle # h
         \/ ByHandle(t, h) \in Ids /\ t[ByHandle(t, h)].handle = h
<1> DEFINE hits == {i \in Ids : t[i].handle = h}
<1>1. CASE hits = {}
  BY <1>1 DEF ByHandle
<1>2. CASE hits # {}
  <2>1. hits \subseteq Nat
    BY IdNumbers
  <2>2. Min(hits) \in hits
    BY <1>2, <2>1, Least
  <2>3. ByHandle(t, h) = Min(hits)
    BY <1>2 DEF ByHandle
  <2> QED BY <2>2, <2>3
<1> QED BY <1>1, <1>2

\* and the one account that has it, if it is that of a live account.
LEMMA FoundByHandle ==
  ASSUME NEW t, Unique(t), NEW h, h \notin {Blank, << >>},
         NEW i \in Ids, t[i].handle = h
  PROVE  ByHandle(t, h) = i
BY Lookup DEF Unique, IsLive

\* user_next_id() gives a number that was never used.
LEMMA NextIsFree ==
  ASSUME users \in [Ids -> Records], NextId # 0
  PROVE  NextId \in Ids /\ users[NextId] = Nobody
<1> DEFINE S == {0} \cup {i \in Ids : users[i] # Nobody}
<1>1. S \subseteq 0 .. MaxUsers /\ S # {} /\ MaxUsers \in Nat
  BY IdNumbers
<1>2. Max(S) \in S /\ \A n \in S : n <= Max(S)
  BY <1>1, Greatest
<1>3. NextId = Max(S) + 1 /\ Max(S) < MaxUsers
  BY DEF NextId
<1>4. NextId \in Ids
  BY <1>1, <1>2, <1>3 DEF Ids
<1>5. NextId \notin S
  BY <1>1, <1>2, <1>3
<1> QED BY <1>4, <1>5

-----------------------------------------------------------------------------
(* The user file. *)

\* What a write of a record does: all of it, nothing, or what a reset undoes.
Outcome(id, rec) ==
  \/ /\ Put(id, rec) /\ disk' = users'
     /\ given'[id] \in {<< >>, rec.handle}
  \/ /\ users' = users /\ disk' = disk
     /\ given'[id] \in {<< >>, given[id]}
  \/ /\ Put(id, rec) /\ disk' = disk
     /\ \/ given'[id] = << >>
        \/ given'[id] = given[id] /\ given[id] \in {<< >>, rec.handle}

LEMMA Written ==
  ASSUME FileInv, NEW id \in Ids, NEW rec \in Records,
         \A j \in Ids : IsLive(rec) /\ users[j].handle = rec.handle => j = id,
         given' \in [Ids -> Given], \A j \in Ids \ {id} : given'[j] = given[j],
         Outcome(id, rec)
  PROVE  FileInv'
<1>0. /\ users \in [Ids -> Records] /\ disk \in [Ids -> Records]
      /\ Unique(users) /\ Unique(disk) /\ GivenInv
  BY DEF FileInv
<1>1. CASE users' = users /\ disk' = disk /\ given'[id] \in {<< >>, given[id]}
  BY <1>0, <1>1 DEF FileInv, GivenInv, Unique
<1>2. ASSUME Put(id, rec)
      PROVE  /\ users' \in [Ids -> Records] /\ Unique(users')
             /\ users'[id] = rec /\ \A j \in Ids \ {id} : users'[j] = users[j]
  <2>1. /\ users' \in [Ids -> Records]
        /\ users'[id] = rec /\ \A j \in Ids \ {id} : users'[j] = users[j]
    BY <1>0, <1>2, PutFacts
  <2>2. Unique(users')
    BY <1>0, <2>1 DEF Unique, IsLive
  <2> QED BY <2>1, <2>2
<1>3. CASE Put(id, rec) /\ disk' = users' /\ given'[id] \in {<< >>, rec.handle}
  BY <1>0, <1>2, <1>3 DEF FileInv, GivenInv
<1>4. CASE /\ Put(id, rec) /\ disk' = disk
           /\ \/ given'[id] = << >>
              \/ given'[id] = given[id] /\ given[id] \in {<< >>, rec.handle}
  BY <1>0, <1>2, <1>4 DEF FileInv, GivenInv
<1> QED BY <1>1, <1>3, <1>4 DEF Outcome

\* user_save() of a record whose account keeps its name, or was promised none.
LEMMA SaveOutcome ==
  ASSUME NEW id, NEW rec, Save(id, rec) \/ SaveFails(id, rec),
         UNCHANGED given, given[id] \in {<< >>, rec.handle}
  PROVE  Outcome(id, rec)
BY DEF Save, SaveFails, Outcome

\* Without failures of its searches, a program numbers accounts as it should.
LEMMA NumberedFree ==
  ASSUME "scan" \notin Faults, FileInv, NEW id, NEW h \in Handles, Numbered(id, h), id \in Ids
  PROVE  /\ id = NextId /\ ByHandle(users, h) = 0
         /\ users[id] = Nobody /\ given[id] = << >>
         /\ \A j \in Ids : users[j].handle # h
<1>1. id = NextId /\ ByHandle(users, h) = 0
  BY DEF Numbered
<1>2. users[id] = Nobody
  BY <1>1, IdNumbers, NextIsFree DEF FileInv
<1>3. given[id] = << >>
  BY <1>2 DEF FileInv, GivenInv, Nobody
<1>4. \A j \in Ids : users[j].handle # h
  BY <1>1, Lookup, IdNumbers
<1> QED BY <1>1, <1>2, <1>3, <1>4

\* A new account under a handle that nobody has.
LEMMA NewAccount ==
  ASSUME "scan" \notin Faults, FileInv, NEW id \in Ids, NEW h \in Handles,
         NEW p \in Passwords, Numbered(id, h),
         \/ Save(id, Account(id, h, p)) /\ given' = [given EXCEPT ![id] = h]
         \/ SaveFails(id, Account(id, h, p)) /\ UNCHANGED given
  PROVE  FileInv'
<1> DEFINE rec == Account(id, h, p)
<1>1. rec \in Records /\ rec.handle = h
  BY RecordTypes
<1>2. /\ given[id] = << >> /\ \A j \in Ids : users[j].handle # h
      /\ given \in [Ids -> Given]
  BY NumberedFree DEF FileInv
<1>3. /\ given' \in [Ids -> Given] /\ \A j \in Ids \ {id} : given'[j] = given[j]
      /\ given'[id] \in {given[id], h}
  BY <1>2 DEF Given
<1> HIDE DEF rec
<1>4. Outcome(id, rec)
  <2>1. CASE Save(id, rec) /\ given' = [given EXCEPT ![id] = h]
    BY <1>1, <1>2, <2>1 DEF Outcome, Save
  <2>2. CASE SaveFails(id, rec) /\ UNCHANGED given
    BY <1>2, <2>2, SaveOutcome
  <2> QED BY <2>1, <2>2 DEF rec
<1> QED BY <1>1, <1>2, <1>3, <1>4, Written

\* The account that a registration is about to make.
LEMMA Collected ==
  ASSUME Inv, at = "register", reg_step = 11
  PROVE  handle \in Handles /\ password \in Passwords /\ confirm = password
<1>1. RegInv /\ password \in Passwords \cup {NoLine}
  BY DEF Inv, TypeOK
<1>2. reg_step >= 2 /\ reg_step >= 4
  OBVIOUS
<1> QED BY <1>1, <1>2, Zenon DEF RegInv

LEMMA RegisterFiles ==
  ASSUME "scan" \notin Faults, Inv, Register
  PROVE  FileInv' /\ SessionInv'
<1>0. /\ at = "register" /\ reg_step = 11
      /\ handle \in Handles /\ password \in Passwords
      /\ FileInv /\ SessionInv
  BY Collected DEF Register, Registering, Inv
<1>1. ASSUME NEW id \in Ids, Numbered(id, handle),
             IF id = NextId /\ ByHandle(users, handle) = 0
               THEN Save(id, Account(id, handle, password))
               ELSE /\ Fault("scan") /\ Put(id, Account(id, handle, password))
                    /\ disk' = users',
             user' = Account(id, handle, password), user_id' = id,
             given' = [given EXCEPT ![id] = handle], UNCHANGED at
      PROVE  FileInv' /\ SessionInv'
  <2>1. Save(id, Account(id, handle, password))
    BY <1>1 DEF Fault
  <2>2. FileInv'
    BY <1>0, <1>1, <2>1, NewAccount
  <2>3. users'[id] = user'
    BY <1>0, <1>1, <2>1, RecordTypes, PutFacts DEF Save, FileInv
  <2>4. user'.handle # << >>
    BY <1>0, <1>1, RecordTypes
  <2> QED BY <1>0, <1>1, <2>2, <2>3, <2>4 DEF SessionInv
<1>2. ASSUME UNCHANGED <<users, disk, at, who, given>>
      PROVE  FileInv' /\ SessionInv'
  BY <1>0, <1>2 DEF FileInv, SessionInv, GivenInv, Unique, who
<1>3. ASSUME ByHandle(users, handle) = 0, at' = "over", UNCHANGED <<who, given>>,
             \/ NextId = 0 /\ UNCHANGED <<users, disk>>
             \/ NextId # 0 /\ SaveFails(NextId, Account(NextId, handle, password))
      PROVE  FileInv' /\ SessionInv'
  <2>1. CASE NextId = 0 /\ UNCHANGED <<users, disk>>
    BY <1>0, <1>3, <2>1 DEF FileInv, SessionInv, GivenInv, Unique, who
  <2>2. CASE NextId # 0 /\ SaveFails(NextId, Account(NextId, handle, password))
    <3>1. NextId \in Ids /\ users[NextId] = Nobody
      BY <1>0, <2>2, NextIsFree DEF FileInv
    <3>2. FileInv'
      BY <1>0, <1>3, <2>2, <3>1, NewAccount DEF Numbered
    <3>3. \A j \in Ids \ {NextId} : users'[j] = users[j]
      BY <1>0, <2>2, <3>1, RecordTypes, PutFacts DEF SaveFails, FileInv
    <3>4. user_id # 0 => user_id # NextId /\ user_id \in Ids
      <4>1. user_id \in Ids \cup {0}
        BY DEF Inv, TypeOK
      <4>2. users[NextId].handle = << >>
        BY <3>1 DEF Nobody
      <4> QED BY <1>0, <4>1, <4>2 DEF SessionInv
    <3> QED BY <1>0, <1>3, <3>2, <3>3, <3>4 DEF SessionInv, who
  <2> QED BY <1>3, <2>1, <2>2
<1> QED BY <1>1, <1>2, <1>3 DEF Register

\* The session writes its copy back.
LEMMA CopySaved ==
  ASSUME Inv, user_id # 0, UNCHANGED given,
         \/ Save(user_id, user) \/ SaveFails(user_id, user)
         \/ Put(user_id, user) /\ disk' = users'
  PROVE  FileInv' /\ users'[user_id].handle = user.handle
<1>0. /\ FileInv /\ user_id \in Ids /\ user \in Records
      /\ users[user_id].handle = user.handle /\ users \in [Ids -> Records]
  BY DEF Inv, TypeOK, SessionInv, FileInv
<1>1. \A j \in Ids : IsLive(user) /\ users[j].handle = user.handle => j = user_id
  BY <1>0 DEF FileInv, Unique, IsLive
<1>2. given[user_id] \in {<< >>, user.handle} /\ given \in [Ids -> Given]
  BY <1>0 DEF FileInv, GivenInv
<1>3. Outcome(user_id, user)
  <2>1. CASE Save(user_id, user) \/ SaveFails(user_id, user)
    BY <1>2, <2>1, SaveOutcome
  <2>2. CASE Put(user_id, user) /\ disk' = users'
    BY <1>2, <2>2 DEF Outcome
  <2> QED BY <2>1, <2>2
<1>4. FileInv'
  BY <1>0, <1>1, <1>2, <1>3, Written
<1>5. users'[user_id].handle = user.handle
  BY <1>0, <1>3, PutFacts DEF Outcome
<1> QED BY <1>4, <1>5

LEMMA SessionFiles ==
  ASSUME Inv, ClearOnMsg \/ SessionDone
  PROVE  FileInv' /\ SessionInv'
<1>1. CASE ClearOnMsg
  <2>1. user_id # 0
    BY <1>1 DEF ClearOnMsg, Inv, SessionInv
  <2>2. FileInv' /\ users'[user_id].handle = user.handle
    BY <1>1, <2>1, CopySaved DEF ClearOnMsg
  <2> QED BY <1>1, <2>2 DEF ClearOnMsg, Inv, SessionInv, who
<1>2. CASE SessionDone
  <2>1. user_id' = 0 /\ at' = "wfc" /\ given' = given
    BY <1>2 DEF SessionDone, Fresh
  <2>2. FileInv'
    <3>1. CASE user_id = 0
      BY <1>2, <2>1, <3>1 DEF SessionDone, Inv, FileInv, GivenInv, Unique
    <3>2. CASE user_id # 0
      BY <1>2, <2>1, <3>2, CopySaved DEF SessionDone
    <3> QED BY <3>1, <3>2
  <2> QED BY <2>1, <2>2 DEF SessionInv
<1> QED BY <1>1, <1>2

-----------------------------------------------------------------------------
(* CONFIGURE's user editor. *)

\* At work on the form.
LEMMA OnForm ==
  ASSUME Inv, at = "form"
  PROVE  /\ FileInv /\ form_id \in Ids /\ form \in Records /\ form.handle # << >>
         /\ form.handle \in Handles \cup {Sysop, Blank}
         /\ \A j \in Ids : IsLive(form) /\ users[j].handle = form.handle => j = form_id
         /\ given[form_id] \in {<< >>, form.handle}
<1>1. FormInv /\ FileInv /\ form_id \in Ids \cup {0} /\ form \in Records
  BY DEF Inv, TypeOK
<1> QED BY <1>1, RecordTypes DEF FormInv

\* The form is saved under a handle that nobody else has.
LEMMA EditAccountFiles ==
  ASSUME "scan" \notin Faults, Inv, EditAccount
  PROVE  FileInv' /\ FormInv' /\ form' \in Records
<1>0. /\ at = "form" /\ at' = "form" /\ form_id' = form_id /\ form_id # 0
      /\ FileInv /\ form_id \in Ids /\ form \in Records
      /\ form.handle \in Handles \cup {Sysop, Blank} /\ form.handle # << >>
      /\ given \in [Ids -> Given]
  BY OnForm, IdNumbers DEF EditAccount, FileInv
<1>1. PICK h \in Handles \cup {Sysop, Blank} :
        /\ form' = [form EXCEPT !.handle = h]
        /\ ByHandle(users, h) \in {0, form_id}
        /\ \/ /\ Save(form_id, [form EXCEPT !.handle = h])
              /\ given' = [given EXCEPT ![form_id] = h]
           \/ /\ SaveFails(form_id, [form EXCEPT !.handle = h])
              /\ given' = [given EXCEPT ![form_id] = << >>]
  BY <1>0 DEF EditAccount, Fault
<1>2. form' \in Records /\ form'.handle = h
  BY <1>0, <1>1, Edited
<1>3. h # << >>
  BY LongHandles
<1>4. \A j \in Ids : IsLive(form') /\ users[j].handle = h => j = form_id
  BY <1>0, <1>1, <1>2, FoundByHandle, IdNumbers DEF FileInv, IsLive
<1>5. /\ given' \in [Ids -> Given] /\ \A j \in Ids \ {form_id} : given'[j] = given[j]
      /\ given'[form_id] \in {<< >>, h}
  BY <1>0, <1>1 DEF Given
<1>6. Outcome(form_id, form')
  BY <1>0, <1>1, <1>2 DEF Save, SaveFails, Outcome
<1>7. FileInv'
  BY <1>0, <1>2, <1>4, <1>5, <1>6, Written
<1>8. \A j \in Ids : IsLive(form') /\ users'[j].handle = h => j = form_id
  BY <1>0, <1>2, <1>4, <1>6, PutFacts DEF Outcome, FileInv
<1> QED BY <1>0, <1>2, <1>3, <1>5, <1>7, <1>8 DEF FormInv

\* The form is saved as it is.
LEMMA EditProfileFiles ==
  ASSUME Inv, EditProfile
  PROVE  FileInv' /\ FormInv'
<1>0. /\ at = "form" /\ at' = "form" /\ form_id' = form_id /\ form_id # 0
      /\ form' = form /\ given' = given /\ given \in [Ids -> Given]
      /\ FileInv /\ form_id \in Ids /\ form \in Records /\ form.handle # << >>
      /\ \A j \in Ids : IsLive(form) /\ users[j].handle = form.handle => j = form_id
      /\ given[form_id] \in {<< >>, form.handle}
  BY OnForm, IdNumbers DEF EditProfile, FileInv
<1>1. Outcome(form_id, form)
  BY <1>0, SaveOutcome DEF EditProfile
<1>2. FileInv'
  BY <1>0, <1>1, Written
<1>3. \A j \in Ids : IsLive(form) /\ users'[j].handle = form.handle => j = form_id
  BY <1>0, <1>1, PutFacts DEF Outcome, FileInv
<1> QED BY <1>0, <1>2, <1>3 DEF FormInv

\* The record on file gets another password, and keeps its handle.
LEMMA ResetPasswordFiles ==
  ASSUME Inv, ResetPassword
  PROVE  FileInv' /\ FormInv'
<1>0. /\ at = "form" /\ at' = "form" /\ form_id' = form_id /\ form_id # 0
      /\ form' = form /\ given' = given /\ given \in [Ids -> Given]
      /\ FileInv /\ form_id \in Ids /\ form.handle # << >>
      /\ users \in [Ids -> Records] /\ Unique(users) /\ GivenInv
      /\ \A j \in Ids : IsLive(form) /\ users[j].handle = form.handle => j = form_id
      /\ given[form_id] \in {<< >>, form.handle}
  BY OnForm, IdNumbers DEF ResetPassword, FileInv
<1>1. PICK p \in Passwords : LET rec == ResetRecord(form_id, p)
                             IN Save(form_id, rec) \/ SaveFails(form_id, rec)
  BY DEF ResetPassword
<1> DEFINE rec == ResetRecord(form_id, p)
<1>2. rec \in Records /\ rec.handle = users[form_id].handle
  BY <1>0, <1>1, Edited DEF ResetRecord
<1> HIDE DEF rec
<1>3. \A j \in Ids : IsLive(rec) /\ users[j].handle = rec.handle => j = form_id
  BY <1>0, <1>2 DEF Unique, IsLive
<1>4. Outcome(form_id, rec)
  <2>1. given[form_id] \in {<< >>, rec.handle}
    BY <1>0, <1>2 DEF GivenInv
  <2>2. Save(form_id, rec) \/ SaveFails(form_id, rec)
    BY <1>1 DEF rec
  <2> QED BY <1>0, <2>1, <2>2, SaveOutcome
<1>5. FileInv'
  BY <1>0, <1>2, <1>3, <1>4, Written
<1>6. \A j \in Ids : users'[j].handle = users[j].handle
  BY <1>0, <1>2, <1>4, PutFacts DEF Outcome
<1> QED BY <1>0, <1>5, <1>6 DEF FormInv

\* The handle goes, and with it what was promised.
LEMMA DeleteFiles ==
  ASSUME Inv, Delete
  PROVE  FileInv'
<1>0. FileInv /\ users \in [Ids -> Records] /\ given \in [Ids -> Given]
  BY DEF Inv, FileInv
<1>1. PICK i \in Ids :
        /\ Save(i, DeletedRecord(i)) \/ SaveFails(i, DeletedRecord(i))
        /\ given' = [given EXCEPT ![i] = << >>]
  BY DEF Delete, Listed
<1>2. DeletedRecord(i) \in Records /\ ~IsLive(DeletedRecord(i))
  BY <1>0, Edited DEF DeletedRecord, IsLive
<1>3. /\ given' \in [Ids -> Given] /\ given'[i] = << >>
      /\ \A j \in Ids \ {i} : given'[j] = given[j]
  BY <1>0, <1>1 DEF Given
<1>4. Outcome(i, DeletedRecord(i))
  BY <1>1, <1>3 DEF Outcome, Save, SaveFails
<1> QED BY <1>0, <1>2, <1>3, <1>4, Written

LEMMA CreateFiles ==
  ASSUME "scan" \notin Faults, Inv, Create
  PROVE  FileInv'
<1>0. FileInv
  BY DEF Inv
<1>1. PICK h \in Handles, id \in Ids :
        /\ Numbered(id, h)
        /\ \/ /\ Save(id, Account(id, h, "PASS"))
              /\ given' = [given EXCEPT ![id] = h]
           \/ SaveFails(id, Account(id, h, "PASS")) /\ UNCHANGED given
  BY DEF Create, Fault
<1> QED BY <1>0, <1>1, Bounds, NewAccount

-----------------------------------------------------------------------------
(* The other actions: what they leave alone. *)

\* Actions of which no file and no editor knows.
LEMMA SameFiles ==
  ASSUME Inv, UNCHANGED <<users, disk, given>>
  PROVE  FileInv'
BY DEF Inv, FileInv, GivenInv, Unique

LEMMA SameForm ==
  ASSUME Inv, UNCHANGED <<users, given, form, form_id>>, at' = "form" <=> at = "form"
  PROVE  FormInv'
BY DEF Inv, FormInv

\* The session goes on with the user it has.
LEMMA SameUser ==
  ASSUME Inv, UNCHANGED <<users, user, user_id>>, at' # "password",
         at' = "menu" => user_id # 0,
         user_id # 0 => at' \in {"register", "menu", "over"}
  PROVE  SessionInv'
BY DEF Inv, SessionInv

\* Programs come and go.
LEMMA ProgramsInv ==
  ASSUME Inv, Programs
  PROVE  FileInv' /\ SessionInv' /\ FormInv' /\ RegInv'
<1>0. FileInv /\ SessionInv /\ FormInv /\ RegInv
  BY DEF Inv
<1>1. CASE Boot \/ Configure
  <2>1. /\ UNCHANGED <<users, disk, given, user, user_id, form, form_id>>
        /\ at = "off" /\ at' \in {"wfc", "configure"}
    BY <1>1 DEF Boot, Configure, files, session, who, editor
  <2> QED BY <1>0, <2>1, SameFiles, SameForm DEF SessionInv, RegInv
<1>2. CASE Midnight
  <2>1. UNCHANGED <<users, disk, given, at, session, form, form_id>>
    BY <1>2 DEF Midnight, files, editor
  <2> QED BY <1>0, <2>1, SameFiles, SameForm
          DEF session, login, reg, who, SessionInv, RegInv
<1>3. CASE Stop
  <2>1. /\ users' = disk /\ disk' = disk /\ given' = given
        /\ at' = "off" /\ user_id' = 0 /\ form_id' = 0
    BY <1>3 DEF Stop, Fresh
  <2>2. FileInv'
    BY <1>0, <2>1 DEF FileInv, GivenInv, Unique
  <2> QED BY <2>1, <2>2 DEF SessionInv, FormInv, RegInv
<1>4. CASE LateFlush
  <2>1. UNCHANGED <<users, given, at, session, form, form_id>> /\ disk' = users
    BY <1>4 DEF LateFlush, editor
  <2>2. FileInv'
    BY <1>0, <2>1 DEF FileInv, GivenInv, Unique
  <2> QED BY <1>0, <2>1, <2>2, SameForm DEF session, login, reg, who, SessionInv, RegInv
<1> QED BY <1>1, <1>2, <1>3, <1>4 DEF Programs

\* A call up to its login.
LEMMA LoginsInv ==
  ASSUME Inv, Logins
  PROVE  FileInv' /\ SessionInv' /\ FormInv' /\ RegInv'
<1>0. /\ FileInv /\ SessionInv /\ FormInv /\ RegInv
      /\ 0 \notin Ids /\ Unique(users)
  BY IdNumbers DEF Inv, FileInv
<1>1. UNCHANGED <<users, disk, given, form, form_id>> /\ at # "form" /\ at' # "form"
  BY DEF Logins, Connect, EmptyLine, TypeHandle, StartRegistration, TypePassword,
     BadLogin, Offer, files, editor
<1>2. FileInv' /\ FormInv'
  BY <1>1, SameFiles, SameForm
<1>3. CASE Connect
  BY <1>2, <1>3 DEF Connect, Fresh, SessionInv, RegInv
<1>4. CASE EmptyLine
  BY <1>0, <1>1, <1>2, <1>4 DEF EmptyLine, SessionInv, RegInv, who
<1>5. CASE TypeHandle
  <2>1. user_id' = 0
    BY <1>0, <1>5 DEF TypeHandle, SessionInv, who
  <2>2. CASE at' = "register" /\ reg_step' = 0 /\ reg_editing' = FALSE
    BY <1>2, <2>1, <2>2 DEF SessionInv, RegInv
  <2>3. CASE at' = "password" /\ handle' \in Handles \cup {Sysop}
    BY <1>2, <2>1, <2>3 DEF SessionInv, RegInv
  <2> QED BY <1>5, <2>2, <2>3 DEF TypeHandle, StartRegistration
<1>6. CASE TypePassword
  <2>1. at = "password" /\ at' # "register" /\ at' # "password"
    BY <1>6 DEF TypePassword, BadLogin
  <2>2. handle # << >> /\ user_id = 0
    BY <1>0, <2>1, LongHandles DEF SessionInv
  <2>3. CASE user' = user /\ user_id' = user_id /\ at' # "menu"
    BY <1>2, <2>1, <2>2, <2>3 DEF SessionInv, RegInv
  <2>4. CASE LET id == ByHandle(users, handle) IN id # 0 /\ at' = "menu" /\ LoadUser(id)
    <3>1. /\ user_id' \in Ids /\ user' = users[user_id'] /\ user'.handle = handle
      BY <1>0, <2>4, Lookup DEF LoadUser
    <3> QED BY <1>0, <1>1, <1>2, <2>1, <2>2, <2>4, <3>1 DEF SessionInv, RegInv
  <2> QED BY <1>6, <2>3, <2>4 DEF TypePassword, BadLogin, who
<1>7. CASE Offer
  <2>1. user_id' = 0
    BY <1>0, <1>7 DEF Offer, SessionInv, who
  <2>2. at' = "over" \/ (at' = "register" /\ reg_step' = 0 /\ reg_editing' = FALSE)
    BY <1>7 DEF Offer, StartRegistration
  <2> QED BY <1>2, <2>1, <2>2 DEF SessionInv, RegInv
<1> QED BY <1>3, <1>4, <1>5, <1>6, <1>7 DEF Logins

\* A registration, up to the account and after it.
LEMMA RegistersInv ==
  ASSUME "scan" \notin Faults, Inv, Registers
  PROVE  FileInv' /\ SessionInv' /\ FormInv' /\ RegInv'
<1>0. /\ FileInv /\ SessionInv /\ FormInv /\ RegInv
      /\ password \in Passwords \cup {NoLine} /\ NoLine \notin Passwords
      /\ reg_step \in 0 .. 13 /\ user_id \in Ids \cup {0}
  BY Bounds DEF Inv, TypeOK
<1>1. UNCHANGED <<form, form_id>> /\ at = "register" /\ at' \in {"register", "menu", "over"}
  BY DEF Registers, Asked, RegHandle, Refused, RegPassword, RegConfirm, RegField, RegChange,
     Register, Welcome, Registering, editor
<1>2. CASE Register
  <2>1. FileInv' /\ SessionInv'
    BY <1>2, RegisterFiles
  <2>2. FormInv'
    BY <1>0, <1>1 DEF FormInv
  <2>3. handle \in Handles /\ password # NoLine /\ confirm = password
    BY <1>0, <1>2, Collected DEF Register, Registering
  <2>4. CASE /\ reg_step' = 12 /\ UNCHANGED <<handle, password, confirm, reg_editing>>
             /\ user_id' \in Ids /\ user' = Account(user_id', handle, password)
    BY <2>1, <2>2, <2>3, <2>4, IdNumbers DEF RegInv
  <2>5. CASE /\ reg_step' = 1 /\ handle' = << >> /\ UNCHANGED <<password, confirm>>
    BY <2>1, <2>2, <2>3, <2>5, ShortLines DEF RegInv
  <2>6. CASE at' = "over"
    BY <2>1, <2>2, <2>6 DEF RegInv
  <2> QED BY <1>2, <2>4, <2>5, <2>6 DEF Register
<1>3. ASSUME UNCHANGED <<users, disk, given, user, user_id>>,
             at' = "menu" => user_id # 0
      PROVE  FileInv' /\ SessionInv' /\ FormInv'
  BY <1>0, <1>1, <1>3, SameFiles, SameForm, SameUser
<1>4. CASE Asked
  <2>1. reg_editing' = FALSE /\ UNCHANGED <<users, disk, given, user, user_id>> /\ at' # "menu"
    BY <1>0, <1>1, <1>4 DEF Asked, RegInv, Registering, who
  <2>2. at' = "over" \/ (reg_step' = 1 /\ handle' = << >>)
    BY <1>4 DEF Asked
  <2> QED BY <1>3, <2>1, <2>2, ShortLines DEF RegInv
<1>5. CASE RegHandle
  <2>1. /\ reg_step = 1 /\ handle \in Short
        /\ UNCHANGED <<users, disk, given, user, user_id, at, confirm>>
    BY <1>0, <1>1, <1>5 DEF RegHandle, RegInv, Registering, who
  <2>2. CASE UNCHANGED <<reg_step, reg_editing, password>> /\ handle' \in Short
    <3>1. reg_editing' = TRUE => password' # NoLine /\ confirm' = password'
      BY <1>0, <1>1, <2>1, <2>2 DEF RegInv
    <3> QED BY <1>1, <1>3, <2>1, <2>2, <3>1 DEF RegInv
  <2>3. CASE handle' \in Handles /\ Onward(2) /\ reg_editing = TRUE /\ password' = password
    <3>1. password # NoLine /\ confirm = password
      BY <1>0, <1>1, <2>1, <2>3 DEF RegInv
    <3> QED BY <1>1, <1>3, <2>1, <2>3, <3>1 DEF RegInv, Onward
  <2>4. CASE handle' \in Handles /\ Onward(2) /\ reg_editing = FALSE
    BY <1>1, <1>3, <2>1, <2>4 DEF RegInv, Onward
  <2>5. ASSUME NEW l \in Lines \ {handle[i] : i \in DOMAIN handle},
               Append(handle, l) \notin Handles
        PROVE  Append(handle, l) \in Short
    <3>1. CASE handle = << >>
      <4>1. Append(handle, l) = <<l>>
        BY <3>1
      <4>2. l = "s"
        BY <2>5, <4>1 DEF Handles
      <4> QED BY <4>1, <4>2 DEF Short
    <3>2. CASE handle = <<"s">>
      <4>1. l # "s"
        BY <2>5, <3>2
      <4>2. Append(handle, l) = <<"s", l>>
        BY <3>2, TwoLines
      <4> QED BY <2>5, <4>1, <4>2 DEF Handles
    <3> QED BY <2>1, <3>1, <3>2 DEF Short
  <2>6. PICK l \in Lines \ {handle[i] : i \in DOMAIN handle} :
          LET h == Append(handle, l) IN
          \/ h \notin Handles /\ handle' = h /\ UNCHANGED <<reg_step, reg_editing, password>>
          \/ handle' = << >> /\ UNCHANGED <<reg_step, reg_editing, password>>
          \/ /\ h \in Handles /\ handle' = h /\ Onward(2)
             /\ password' = IF reg_editing THEN password ELSE NoLine
    BY <1>5, Zenon DEF RegHandle, Refused
  <2>7. reg_editing = TRUE \/ reg_editing = FALSE
    BY DEF Inv, TypeOK
  <2> QED BY <2>2, <2>3, <2>4, <2>5, <2>6, <2>7, ShortLines
<1>6. ASSUME UNCHANGED <<users, disk, given, user, user_id, at>>,
             \/ reg_step' = 2
             \/ reg_step' = 3 /\ password' # NoLine
             \/ reg_step' \in 4 .. 11 /\ password' # NoLine /\ confirm' = password',
             handle' \in Handles
      PROVE  FileInv' /\ SessionInv' /\ FormInv' /\ RegInv'
  <2>1. FileInv' /\ SessionInv' /\ FormInv'
    BY <1>0, <1>1, <1>3, <1>6
  <2>2. RegInv'
    BY <1>6 DEF RegInv
  <2> QED BY <2>1, <2>2
<1>7. CASE RegPassword
  <2>1. handle \in Handles /\ handle' = handle /\ reg_step = 2
    BY <1>0, <1>1, <1>7 DEF RegPassword, Registering, RegInv
  <2>2. \/ reg_step' = 3 /\ password' # NoLine
        \/ reg_step' = 2
    BY <1>0, <1>7, <2>1 DEF RegPassword
  <2> QED BY <1>6, <1>7, <2>1, <2>2 DEF RegPassword, who
<1>8. CASE RegConfirm
  <2>1. handle \in Handles /\ handle' = handle /\ password # NoLine
    BY <1>0, <1>1, <1>8 DEF RegConfirm, Registering, RegInv
  <2>2. \/ reg_step' = 2
        \/ reg_step' \in 4 .. 11 /\ password' # NoLine /\ confirm' = password'
    <3>1. PICK c \in Passwords :
            IF c # password
            THEN password' = NoLine /\ confirm' = NoLine /\ reg_editing' = FALSE /\ reg_step' = 2
            ELSE confirm' = c /\ UNCHANGED password /\ Onward(4)
      BY <1>8 DEF RegConfirm
    <3>2. CASE c # password
      BY <3>1, <3>2
    <3>3. CASE c = password
      BY <2>1, <3>1, <3>3 DEF Onward
    <3> QED BY <3>2, <3>3
  <2> QED BY <1>6, <1>8, <2>1, <2>2 DEF RegConfirm, who
<1>9. CASE RegField
  <2>1. /\ reg_step \in 4 .. 10 /\ UNCHANGED <<handle, password, confirm>>
        /\ reg_step' \in 5 .. 11
    <3>1. PICK step \in 4 .. 10 :
            /\ reg_step = step
            /\ IF step = 10 THEN reg_step' = 11 /\ UNCHANGED reg_editing
                            ELSE Onward(step + 1)
      BY <1>9 DEF RegField, Registering
    <3>2. UNCHANGED <<handle, password, confirm>>
      BY <1>9 DEF RegField
    <3>3. reg_step' \in 5 .. 11
      BY <3>1 DEF Onward
    <3> QED BY <3>1, <3>2, <3>3
  <2>2. handle \in Handles /\ password # NoLine /\ confirm = password
    BY <1>0, <1>1, <2>1 DEF RegInv
  <2> QED BY <1>6, <1>9, <2>1, <2>2 DEF RegField, who
<1>10. CASE RegChange
  <2>1. handle \in Handles /\ password # NoLine /\ confirm = password
    BY <1>0, <1>10, Collected DEF RegChange, Registering
  <2>2. CASE reg_step' = 1 /\ handle' = << >> /\ UNCHANGED password
    <3>1. /\ UNCHANGED <<users, disk, given, user, user_id, at, confirm>>
      BY <1>10 DEF RegChange, who
    <3> QED BY <1>1, <1>3, <2>1, <2>2, <3>1, ShortLines DEF RegInv
  <2>3. CASE reg_step' = 2 /\ password' = NoLine /\ UNCHANGED handle
    BY <1>6, <1>10, <2>1, <2>3 DEF RegChange, who
  <2>4. CASE reg_step' \in 4 .. 10 /\ UNCHANGED <<handle, password>>
    BY <1>6, <1>10, <2>1, <2>4 DEF RegChange, who
  <2> QED BY <1>10, <2>2, <2>3, <2>4 DEF RegChange
<1>11. CASE Welcome
  <2>1. /\ reg_step \in 12 .. 13 /\ at' # "password"
        /\ UNCHANGED <<users, disk, given, user, user_id, handle, password, confirm>>
        /\ at' = "menu" \/ (at' = at /\ reg_step' = 13)
    BY <1>11 DEF Welcome, Registering, who
  <2>2. /\ user_id # 0 /\ user = Account(user_id, handle, password)
        /\ handle \in Handles /\ password # NoLine /\ confirm = password
    BY <1>0, <1>1, <2>1 DEF RegInv
  <2>3. FileInv' /\ SessionInv' /\ FormInv'
    BY <1>3, <2>1, <2>2
  <2> QED BY <2>1, <2>2, <2>3 DEF RegInv
<1> QED BY <1>2, <1>4, <1>5, <1>7, <1>8, <1>9, <1>10, <1>11 DEF Registers

\* A session's time, and its end.
LEMMA CallsInv ==
  ASSUME Inv, Calls
  PROVE  FileInv' /\ SessionInv' /\ FormInv' /\ RegInv'
<1>0. FileInv /\ SessionInv /\ FormInv /\ RegInv
  BY DEF Inv
<1>1. CASE TimeBegin \/ Minute \/ TimeUp \/ Logoff
  <2>1. /\ UNCHANGED <<users, disk, given, user, user_id, form, form_id>>
        /\ at = "menu" /\ at' \in {"menu", "over"}
    BY <1>1 DEF TimeBegin, Minute, TimeUp, Logoff, files, session, who, editor
  <2>2. user_id # 0
    BY <1>0, <2>1 DEF SessionInv
  <2> QED BY <2>1, <2>2, SameFiles, SameForm, SameUser DEF RegInv
<1>2. CASE ClearOnMsg \/ SessionDone
  <2>1. FileInv' /\ SessionInv'
    BY <1>2, SessionFiles
  <2>2. /\ at # "form" /\ at' \in {"menu", "wfc"} /\ UNCHANGED <<form, form_id>>
    BY <1>2 DEF ClearOnMsg, SessionDone, InSession, Auth, editor
  <2> QED BY <1>0, <2>1, <2>2 DEF FormInv, RegInv
<1> QED BY <1>1, <1>2 DEF Calls

\* The editor: no session is there.
LEMMA EditsInv ==
  ASSUME "scan" \notin Faults, Inv, Edits
  PROVE  FileInv' /\ SessionInv' /\ FormInv' /\ RegInv'
<1>0. FileInv /\ SessionInv /\ FormInv /\ RegInv
  BY DEF Inv
<1>1. /\ at \in {"configure", "form"} /\ at' \in {"configure", "form"}
      /\ UNCHANGED user_id
  BY DEF Edits, Create, Pick, EditAccount, EditProfile, ResetPassword, BackToMenu, Delete,
     Editor, session, who
<1>2. SessionInv' /\ RegInv'
  BY <1>0, <1>1 DEF SessionInv, RegInv
<1>3. CASE Create \/ Delete
  <2>1. FileInv'
    BY <1>3, CreateFiles, DeleteFiles
  <2>2. UNCHANGED <<at, form_id>> /\ at = "configure"
    BY <1>3 DEF Create, Delete
  <2> QED BY <1>0, <1>2, <2>1, <2>2 DEF FormInv
<1>4. CASE Pick
  <2>1. FileInv'
    BY <1>4, SameFiles DEF Pick, files
  <2>2. PICK i \in Ids : /\ IsLive(users[i]) /\ form_id' = i /\ form' = users[i]
                         /\ at' = "form" /\ users' = users /\ given' = given
    BY <1>4 DEF Pick, Listed, files
  <2>3. /\ \A j \in Ids : users[j].handle = users[i].handle => j = i
        /\ users[i].handle # << >>
        /\ given[i] \in {<< >>, users[i].handle}
    BY <1>0, <2>2 DEF FileInv, Unique, GivenInv, IsLive
  <2>4. FormInv'
    BY <2>2, <2>3, IdNumbers DEF FormInv
  <2> QED BY <1>2, <2>1, <2>4
<1>5. CASE BackToMenu
  BY <1>2, <1>5, SameFiles DEF BackToMenu, files, FormInv
<1>6. CASE EditAccount \/ EditProfile \/ ResetPassword
  BY <1>2, <1>6, EditAccountFiles, EditProfileFiles, ResetPasswordFiles
<1> QED BY <1>3, <1>4, <1>5, <1>6 DEF Edits

-----------------------------------------------------------------------------
(* Types. *)

\* TypeOK, but for what is part of FileInv.
CountsOK ==
  /\ day \in [Ids -> [on : 0 .. MaxDays, really : 0 .. MaxDays, mins : 0 .. DayCap]]
  /\ today \in 1 .. MaxDays /\ date \in 0 .. today
  /\ at \in InSession \cup {"off", "wfc", "configure", "form"}
  /\ login_attempts \in 0 .. Tries /\ empty_handle_attempts \in 0 .. Tries
  /\ (at \in Auth => login_attempts < Tries /\ empty_handle_attempts < Tries)
  /\ reg_step \in 0 .. 13
  /\ timing \in {"off", "on", "fired"} /\ used \in 0 .. DayCap /\ mins \in 0 .. Limit + 1

FlagsOK == local \in BOOLEAN /\ reg_editing \in BOOLEAN

Buffered == Handles \cup {Sysop, <<"s">>, << >>}
BuffersOK ==
  /\ handle \in Buffered
  /\ password \in Passwords \cup {NoLine} /\ confirm \in Passwords \cup {NoLine}
  /\ user \in Records /\ user_id \in Ids \cup {0}
  /\ form \in Records /\ form_id \in Ids \cup {0}

LEMMA TypeParts ==
  TypeOK <=> /\ CountsOK /\ FlagsOK /\ BuffersOK
             /\ users \in [Ids -> Records] /\ disk \in [Ids -> Records]
BY DEF TypeOK, CountsOK, FlagsOK, BuffersOK, Buffered

LEMMA BufferedLines ==
  /\ \A h \in Handles : h \in Buffered
  /\ \A h \in Short : h \in Buffered
  /\ Sysop \in Buffered /\ << >> \in Buffered
BY DEF Buffered, Short

\* The minutes of a day's record, and what a session adds to them.
LEMMA DayTypes ==
  ASSUME CountsOK, NEW i \in Ids
  PROVE  /\ MinsOn(i) \in 0 .. DayCap
         /\ \A m \in 0 .. DayCap :
              SaveDay(i, m) =>
                day' \in [Ids -> [on : 0 .. MaxDays, really : 0 .. MaxDays, mins : 0 .. DayCap]]
         /\ Min({DayCap, MinsOn(i) + mins}) \in 0 .. DayCap
<1>0. /\ DayCap \in Nat /\ Limit \in Nat /\ MaxDays \in Nat
      /\ today \in 0 .. MaxDays /\ date \in 0 .. MaxDays /\ mins \in Nat
  BY Bounds DEF CountsOK
<1>1. MinsOn(i) \in 0 .. DayCap
  BY <1>0 DEF MinsOn, CountsOK
<1>2. ASSUME NEW m \in 0 .. DayCap, SaveDay(i, m)
      PROVE  day' \in [Ids -> [on : 0 .. MaxDays, really : 0 .. MaxDays, mins : 0 .. DayCap]]
  BY <1>0, <1>2 DEF SaveDay, CountsOK
<1>3. Min({DayCap, MinsOn(i) + mins}) \in 0 .. DayCap
  <2> DEFINE S == {DayCap, MinsOn(i) + mins}
  <2>1. S \subseteq Nat /\ DayCap \in S
    BY <1>0, <1>1
  <2>2. Min(S) \in Nat /\ Min(S) <= DayCap
    BY <2>1, Least
  <2> QED BY <1>0, <2>2
<1> QED BY <1>1, <1>2, <1>3

\* Numbers and places.
LEMMA ProgramsCounts ==
  ASSUME Inv, Programs
  PROVE  CountsOK'
<1> USE DEF CountsOK, InSession, Auth, files, clock, login, reg, who, timer, session, editor, bounds
<1>0. CountsOK /\ Tries \in Nat \ {0} /\ MaxDays \in Nat /\ Limit \in Nat /\ DayCap \in Nat
  BY Bounds, TypeParts DEF Inv
<1>1. CASE Boot
  BY <1>0, <1>1 DEF Boot
<1>2. CASE Configure
  BY <1>0, <1>2 DEF Configure
<1>3. CASE Stop
  BY <1>0, <1>3 DEF Stop, Fresh
<1>4. CASE Midnight
  BY <1>0, <1>4 DEF Midnight
<1>5. CASE LateFlush
  BY <1>0, <1>5 DEF LateFlush
<1> QED BY <1>1, <1>2, <1>3, <1>4, <1>5 DEF Programs

LEMMA LoginsCounts ==
  ASSUME Inv, Logins
  PROVE  CountsOK'
<1> USE DEF CountsOK, InSession, Auth, files, clock, login, reg, who, timer, session, editor, bounds
<1>0. CountsOK /\ Tries \in Nat \ {0} /\ MaxDays \in Nat /\ Limit \in Nat /\ DayCap \in Nat
  BY Bounds, TypeParts DEF Inv
<1>1. CASE Connect
  BY <1>0, <1>1 DEF Connect, Fresh
<1>2. CASE EmptyLine
  BY <1>0, <1>2 DEF EmptyLine
<1>3. CASE TypeHandle
  <2>1. /\ UNCHANGED <<day, today, date, timing, used, mins>>
        /\ \/ /\ at' = "register" /\ reg_step' = 0
              /\ login_attempts' = 0 /\ empty_handle_attempts' = 0
           \/ /\ at = "handle" /\ at' = "password"
              /\ UNCHANGED <<reg_step, login_attempts, empty_handle_attempts>>
    BY <1>3 DEF TypeHandle, StartRegistration, LoginOver
  <2> QED BY <1>0, <2>1
<1>4. CASE TypePassword
  <2>1. /\ UNCHANGED <<day, today, date, timing, used, mins, reg_step>>
        /\ \/ at' = "menu" /\ login_attempts' = 0 /\ empty_handle_attempts' = 0
           \/ BadLogin
           \/ at' = "offer" /\ UNCHANGED <<login_attempts, empty_handle_attempts>>
    BY <1>4 DEF TypePassword, LoginOver
  <2>2. at = "password"
    BY <1>4 DEF TypePassword
  <2> QED BY <1>0, <2>1, <2>2 DEF BadLogin
<1>5. CASE Offer
  <2>1. /\ at' \in {"register", "over"} /\ reg_step' \in {0, reg_step}
        /\ login_attempts' = 0 /\ empty_handle_attempts' = 0
    BY <1>5 DEF Offer, StartRegistration, LoginOver
  <2>2. UNCHANGED <<day, today, date, timing, used, mins>>
    BY <1>5 DEF Offer
  <2> QED BY <1>0, <2>1, <2>2
<1> QED BY <1>1, <1>2, <1>3, <1>4, <1>5 DEF Logins

LEMMA RegistersCounts ==
  ASSUME Inv, Registers
  PROVE  CountsOK'
<1> USE DEF CountsOK, InSession, Auth, files, clock, login, reg, who, timer, session, editor, bounds
<1>0. CountsOK /\ Tries \in Nat \ {0} /\ MaxDays \in Nat /\ Limit \in Nat /\ DayCap \in Nat
  BY Bounds, TypeParts DEF Inv
<1>1. CASE Asked
  BY <1>0, <1>1 DEF Asked, Registering
<1>2. CASE RegHandle
  BY <1>0, <1>2 DEF RegHandle, Refused, Onward, Registering
<1>3. CASE RegPassword
  BY <1>0, <1>3 DEF RegPassword, Registering
<1>4. CASE RegConfirm
  BY <1>0, <1>4 DEF RegConfirm, Onward, Registering
<1>5. CASE RegField
  BY <1>0, <1>5 DEF RegField, Onward, Registering
<1>6. CASE RegChange
  BY <1>0, <1>6 DEF RegChange, Registering
<1>7. CASE Register
  BY <1>0, <1>7 DEF Register, Registering
<1>8. CASE Welcome
  BY <1>0, <1>8 DEF Welcome, Registering
<1> QED BY <1>1, <1>2, <1>3, <1>4, <1>5, <1>6, <1>7, <1>8 DEF Registers

LEMMA CallsCounts ==
  ASSUME Inv, Calls
  PROVE  CountsOK'
<1> USE DEF CountsOK, InSession, Auth, files, clock, login, reg, who, timer, session, editor, bounds
<1>0. CountsOK /\ Tries \in Nat \ {0} /\ MaxDays \in Nat /\ Limit \in Nat /\ DayCap \in Nat
  BY Bounds, TypeParts DEF Inv
<1>u. user_id \in Ids \cup {0} /\ (at = "menu" => user_id # 0)
  BY DEF Inv, TypeOK, SessionInv
<1>1. CASE TimeBegin
  BY <1>0, <1>1, DayTypes, <1>u DEF TimeBegin
<1>2. CASE Minute
  BY <1>0, <1>2 DEF Minute
<1>3. CASE TimeUp
  BY <1>0, <1>3 DEF TimeUp
<1>4. CASE ClearOnMsg
  BY <1>0, <1>4 DEF ClearOnMsg
<1>5. CASE Logoff
  BY <1>0, <1>5 DEF Logoff
<1>6. CASE SessionDone
  <2>1. /\ at' = "wfc" /\ reg_step' = 0 /\ timing' = "off" /\ used' = 0 /\ mins' = 0
        /\ login_attempts' = 0 /\ empty_handle_attempts' = 0 /\ UNCHANGED <<today, date>>
    BY <1>6 DEF SessionDone, Fresh
  <2>2. day' = day \/ (user_id # 0 /\ Accrue)
    BY <1>6 DEF SessionDone
  <2>3. day' \in [Ids -> [on : 0 .. MaxDays, really : 0 .. MaxDays, mins : 0 .. DayCap]]
    BY <1>0, <1>u, <2>2, DayTypes DEF Accrue
  <2> QED BY <1>0, <2>1, <2>3
<1> QED BY <1>1, <1>2, <1>3, <1>4, <1>5, <1>6 DEF Calls

LEMMA EditsCounts ==
  ASSUME Inv, Edits
  PROVE  CountsOK'
<1> USE DEF CountsOK, InSession, Auth, files, clock, login, reg, who, timer, session, editor, bounds
<1>0. CountsOK /\ Tries \in Nat \ {0} /\ MaxDays \in Nat /\ Limit \in Nat /\ DayCap \in Nat
  BY Bounds, TypeParts DEF Inv
<1>1. CASE Create
  BY <1>0, <1>1 DEF Create, Editor
<1>2. CASE Pick
  BY <1>0, <1>2 DEF Pick
<1>3. CASE EditAccount
  BY <1>0, <1>3 DEF EditAccount, Editor
<1>4. CASE EditProfile
  BY <1>0, <1>4 DEF EditProfile, Editor
<1>5. CASE ResetPassword
  BY <1>0, <1>5 DEF ResetPassword, Editor
<1>6. CASE BackToMenu
  BY <1>0, <1>6 DEF BackToMenu
<1>7. CASE Delete
  BY <1>0, <1>7 DEF Delete, Editor
<1> QED BY <1>1, <1>2, <1>3, <1>4, <1>5, <1>6, <1>7 DEF Edits

\* What was typed, and the copies of records.
LEMMA ProgramsBuffers ==
  ASSUME Inv, Programs
  PROVE  BuffersOK'
<1>0. BuffersOK /\ Nobody \in Records
  BY TypeParts, RecordTypes DEF Inv
<1>1. CASE Stop
  BY <1>0, <1>1, BufferedLines DEF Stop, Fresh, BuffersOK
<1>2. CASE Boot \/ Configure \/ Midnight \/ LateFlush
  BY <1>0, <1>2 DEF Boot, Configure, Midnight, LateFlush, BuffersOK, session, login, who, editor
<1> QED BY <1>1, <1>2 DEF Programs

LEMMA LoginsBuffers ==
  ASSUME Inv, Logins
  PROVE  BuffersOK'
<1> USE BufferedLines DEF BuffersOK, who, editor
<1>0. BuffersOK /\ Nobody \in Records
  BY TypeParts, RecordTypes DEF Inv
<1>1. CASE Connect
  BY <1>0, <1>1 DEF Connect, Fresh
<1>2. CASE EmptyLine
  BY <1>0, <1>2 DEF EmptyLine
<1>3. CASE TypeHandle
  <2>1. handle' \in Buffered /\ password' = NoLine /\ UNCHANGED confirm
    BY <1>3 DEF TypeHandle, StartRegistration
  <2> QED BY <1>0, <1>3, <2>1 DEF TypeHandle
<1>4. CASE TypePassword
  <2>1. PICK p \in Passwords :
          LET id == ByHandle(users, handle) IN
          \/ id # 0 /\ password' = p /\ LoadUser(id) /\ UNCHANGED handle
          \/ UNCHANGED who /\ handle' \in {handle, << >>} /\ password' \in {p, password, NoLine}
    BY <1>4 DEF TypePassword, BadLogin
  <2>2. UNCHANGED <<confirm, form, form_id>>
    BY <1>4 DEF TypePassword
  <2>3. CASE ByHandle(users, handle) # 0 /\ LoadUser(ByHandle(users, handle))
    <3>1. at = "password" /\ FileInv /\ SessionInv
      BY <1>4 DEF TypePassword, Inv
    <3>2. ByHandle(users, handle) \in Ids /\ users \in [Ids -> Records]
      BY <2>3, <3>1, Lookup DEF FileInv
    <3> QED BY <1>0, <2>1, <2>2, <2>3, <3>2 DEF LoadUser
  <2> QED BY <1>0, <2>1, <2>2, <2>3
<1>5. CASE Offer
  <2>1. handle' \in {handle, << >>} /\ password' \in {password, NoLine} /\ UNCHANGED confirm
    BY <1>5 DEF Offer, StartRegistration
  <2> QED BY <1>0, <1>5, <2>1 DEF Offer
<1> QED BY <1>1, <1>2, <1>3, <1>4, <1>5 DEF Logins

LEMMA RegistersBuffers ==
  ASSUME "scan" \notin Faults, Inv, Registers
  PROVE  BuffersOK'
<1> USE BufferedLines DEF BuffersOK, who, editor, Registering
<1>0. BuffersOK
  BY TypeParts DEF Inv
<1>1. CASE RegHandle
  <2>1. RegInv' /\ at' = "register" /\ reg_step' \in {1, 2, 11} /\ handle' \in Buffered
    <3>1. RegInv' /\ at' = "register" /\ reg_step' \in {1, 2, 11}
      BY <1>1, RegistersInv DEF RegHandle, Refused, Onward
    <3> QED BY <3>1 DEF RegInv
  <2>2. password' \in {password, NoLine}
    BY <1>1 DEF RegHandle, Refused
  <2> QED BY <1>0, <1>1, <2>1, <2>2 DEF RegHandle
<1>2. CASE Register
  <2>1. handle \in Handles /\ password \in Passwords
    BY <1>2, Collected DEF Register
  <2>2. /\ UNCHANGED <<password, confirm, form, form_id>> /\ handle' \in {handle, << >>}
        /\ \/ user_id' \in Ids /\ user' = Account(user_id', handle, password)
           \/ UNCHANGED <<user, user_id>>
    BY <1>2 DEF Register
  <2> QED BY <1>0, <2>1, <2>2, RecordTypes
<1>3. CASE Asked
  BY <1>0, <1>3 DEF Asked
<1>4. CASE RegPassword
  BY <1>0, <1>4 DEF RegPassword
<1>5. CASE RegConfirm
  BY <1>0, <1>5 DEF RegConfirm
<1>6. CASE RegField
  BY <1>0, <1>6 DEF RegField
<1>7. CASE RegChange
  BY <1>0, <1>7 DEF RegChange
<1>8. CASE Welcome
  BY <1>0, <1>8 DEF Welcome
<1> QED BY <1>1, <1>2, <1>3, <1>4, <1>5, <1>6, <1>7, <1>8 DEF Registers

LEMMA CallsBuffers ==
  ASSUME Inv, Calls
  PROVE  BuffersOK'
<1>0. BuffersOK /\ Nobody \in Records
  BY TypeParts, RecordTypes DEF Inv
<1>1. CASE SessionDone
  BY <1>0, <1>1, BufferedLines DEF SessionDone, Fresh, BuffersOK, editor
<1>2. CASE TimeBegin \/ Minute \/ TimeUp \/ ClearOnMsg \/ Logoff
  BY <1>0, <1>2 DEF TimeBegin, Minute, TimeUp, ClearOnMsg, Logoff, BuffersOK, session, login,
     who, editor
<1> QED BY <1>1, <1>2 DEF Calls

LEMMA EditsBuffers ==
  ASSUME "scan" \notin Faults, Inv, Edits
  PROVE  BuffersOK'
<1>0. BuffersOK /\ Nobody \in Records /\ users \in [Ids -> Records]
  BY TypeParts, RecordTypes DEF Inv
<1>1. CASE EditAccount
  BY <1>0, <1>1, EditAccountFiles DEF EditAccount, Editor, BuffersOK, session, login, who
<1>2. CASE Pick
  BY <1>0, <1>2 DEF Pick, Listed, BuffersOK, session, login, who
<1>3. CASE BackToMenu
  BY <1>0, <1>3 DEF BackToMenu, BuffersOK, session, login, who
<1>4. CASE Create \/ EditProfile \/ ResetPassword \/ Delete
  BY <1>0, <1>4 DEF Create, EditProfile, ResetPassword, Delete, Editor, BuffersOK, session,
     login, who
<1> QED BY <1>1, <1>2, <1>3, <1>4 DEF Edits

\* Truth values stay truth values.
LEMMA FlagTypes ==
  ASSUME Inv, Next
  PROVE  FlagsOK'
<1> USE DEF FlagsOK, session, login, reg
<1>0. FlagsOK
  BY TypeParts DEF Inv
<1>1. CASE Programs
  BY <1>0, <1>1 DEF Programs, Boot, Configure, Stop, Fresh, Midnight, LateFlush
<1>2. CASE Logins
  BY <1>0, <1>2 DEF Logins, Connect, Fresh, EmptyLine, TypeHandle, StartRegistration,
     TypePassword, Offer
<1>3. CASE Registers
  BY <1>0, <1>3 DEF Registers, Registering, Asked, RegHandle, Refused, Onward, RegPassword,
     RegConfirm, RegField, RegChange, Register, Welcome
<1>4. CASE Calls
  BY <1>0, <1>4 DEF Calls, TimeBegin, Minute, TimeUp, ClearOnMsg, Logoff, SessionDone, Fresh
<1>5. CASE Edits
  BY <1>0, <1>5 DEF Edits, Create, Pick, EditAccount, EditProfile, ResetPassword, BackToMenu,
     Delete, Editor
<1> QED BY <1>1, <1>2, <1>3, <1>4, <1>5 DEF Next

-----------------------------------------------------------------------------

LEMMA InitInv ==
  Init => Inv
<1> SUFFICES ASSUME Init PROVE Inv
  OBVIOUS
<1>0. /\ 1 \in Ids /\ 0 \notin Ids /\ Nobody \in Records /\ "PASS" \in Passwords
      /\ Tries \in Nat \ {0} /\ MaxDays \in Nat \ {0} /\ Limit \in Nat /\ DayCap \in Nat
  BY IdNumbers, RecordTypes, Bounds
<1>1. /\ Account(1, Sysop, "PASS") \in Records
      /\ Account(1, Sysop, "PASS").handle = Sysop /\ ~IsLive(Nobody)
  BY <1>0, RecordTypes DEF IsLive, Nobody
<1>2. users \in [Ids -> Records] /\ disk \in [Ids -> Records]
  BY <1>0, <1>1 DEF Init
<1>3. Unique(users) /\ GivenInv /\ given \in [Ids -> Given] /\ disk = users
  <2>1. /\ \A i \in Ids \ {1} : users[i] = Nobody /\ given[i] = << >>
        /\ users[1] = Account(1, Sysop, "PASS") /\ given[1] = Sysop
    BY <1>0 DEF Init
  <2>2. given \in [Ids -> Given] /\ disk = users
    BY DEF Init, Given
  <2>3. Unique(users)
    BY <1>1, <2>1 DEF Unique, IsLive
  <2>4. GivenInv
    BY <1>1, <2>1, <2>2 DEF GivenInv
  <2> QED BY <2>2, <2>3, <2>4
<1>4. FileInv
  BY <1>2, <1>3 DEF FileInv
<1>5. SessionInv /\ FormInv /\ RegInv
  BY DEF Init, SessionInv, FormInv, RegInv
<1>6. CountsOK
  BY <1>0 DEF Init, CountsOK, InSession, Auth
<1>7. FlagsOK
  BY DEF Init, FlagsOK
<1>8. BuffersOK
  BY <1>0, BufferedLines DEF Init, BuffersOK
<1> QED BY <1>2, <1>4, <1>5, <1>6, <1>7, <1>8, TypeParts DEF Inv

LEMMA StepInv ==
  ASSUME "scan" \notin Faults, Inv, [Next]_vars
  PROVE  Inv'
<1>1. CASE Next
  <2>1. FileInv' /\ SessionInv' /\ FormInv' /\ RegInv'
    BY <1>1, ProgramsInv, LoginsInv, RegistersInv, CallsInv, EditsInv DEF Next
  <2>2. CountsOK'
    BY <1>1, ProgramsCounts, LoginsCounts, RegistersCounts, CallsCounts, EditsCounts DEF Next
  <2>3. BuffersOK'
    BY <1>1, ProgramsBuffers, LoginsBuffers, RegistersBuffers, CallsBuffers, EditsBuffers
       DEF Next
  <2>4. FlagsOK'
    BY <1>1, FlagTypes
  <2>5. TypeOK'
    BY <2>1, <2>2, <2>3, <2>4 DEF FileInv, TypeOK, CountsOK, FlagsOK, BuffersOK, Buffered
  <2> QED BY <2>1, <2>5 DEF Inv
<1>2. CASE UNCHANGED vars
  BY <1>2 DEF vars, files, clock, session, login, reg, who, timer, editor, Inv, TypeOK,
     FileInv, GivenInv, Unique, SessionInv, FormInv, RegInv, MinsOn
<1> QED BY <1>1, <1>2

LEMMA AlwaysInv ==
  ASSUME "scan" \notin Faults
  PROVE  Spec => []Inv
BY InitInv, StepInv, PTL DEF Spec

\* Every variable is of its type, if no search of USR LOG fails.
THEOREM TypeCorrect ==
  ASSUME "scan" \notin Faults
  PROVE  Spec => []TypeOK
BY AlwaysInv, PTL DEF Inv

\* As long as no search of USR LOG fails, an account that was announced is found
\* under its handle, in the file that a reset leaves too, whatever the session
\* or the editor writes back; unless the handle begins with a space.
THEOREM AnnouncedAreFound ==
  ASSUME "scan" \notin Faults
  PROVE  Spec => []GivenFound
<1>1. ASSUME Inv PROVE GivenFound
  <2>1. /\ Unique(disk) /\ given \in [Ids -> Given] /\ GivenInv
    BY <1>1 DEF Inv, FileInv
  <2>2. ASSUME NEW i \in Ids, given[i] \notin {<< >>, Blank}
        PROVE  Found(i)
    BY <2>1, <2>2, FoundByHandle DEF GivenInv, Found
  <2> QED BY <2>2 DEF GivenFound
<1> QED BY <1>1, AlwaysInv, PTL

\* The password of a new account was typed twice, and its handle checked, in
\* whatever order the fields were changed.
THEOREM PasswordsTypedTwice ==
  ASSUME "scan" \notin Faults
  PROVE  Spec => []TypedTwice
<1>1. ASSUME Inv PROVE TypedTwice
  <2>1. RegInv /\ reg_step \in Nat
    BY <1>1 DEF Inv, TypeOK
  <2> QED BY <2>1 DEF RegInv, TypedTwice
<1> QED BY <1>1, AlwaysInv, PTL

=============================================================================
