------------------------------ MODULE Accounts ------------------------------
(***************************************************************************)
(* The user file, and the programs that keep it: the BBS, with its login,  *)
(* its registration and its daily limit (session.c, auth.c, newuser.c),    *)
(* and CONFIGURE's user editor (src-editor/admin/users.c).                 *)
(*                                                                         *)
(* Both read records of USR LOG into a structure of their own, the session *)
(* and the form, and write whole records back later.  Lines are typed one  *)
(* per action; an action meets at most one failed disk operation.          *)
(***************************************************************************)
EXTENDS Naturals, Sequences, FiniteSetsExt

CONSTANTS
  MaxUsers,    \* USERS_MAX
  Lines,       \* what may be typed as a handle: "s" is too short a line, and
               \* " " one of a legal length that begins with a space
  Passwords,   \* passwords of a legal length: "PASS" and others
  Tries,       \* wrong passwords, and empty lines, that end a call: 3
  Limit,       \* MINS/DAY of a caller's level, in units of the model
  DayCap,      \* the most minutes a day's record holds: 1440
  Faults,      \* subset of {"open", "scan", "flush", "overlay"}
  MaxFaults,   \* bounds on the failures,
  MaxSessions, \* the calls,
  MaxEdits,    \* the changes made in CONFIGURE,
  MaxDays      \* and the days

\* What an input buffer holds when it is cleared.
NoLine == ""

ASSUME AccountsAssumption ==
  /\ {MaxUsers, Tries, MaxDays, DayCap} \subseteq Nat \ {0}
  /\ {Limit, MaxFaults, MaxSessions, MaxEdits} \subseteq Nat
  /\ "PASS" \in Passwords /\ NoLine \notin Passwords
  /\ "s" \in Lines
  /\ Faults \subseteq {"open", "scan", "flush", "overlay"}

Ids == 1 .. MaxUsers
Blank == <<" ">>            \* a handle that begins with a space
Sysop == <<"SYSOP">>

\* handle_eq() compares handles up to their first space: a handle that begins
\* with one is Blank whatever follows, like what user_delete() leaves.  A line
\* that is too short stays in the buffer, and the next is added to it (one of a
\* legal length here).
Handles == {<<l>> : l \in Lines \ {"s"}} \cup {<<"s", l>> : l \in Lines \ {"s"}}

\* user_hash_password(): the password is hashed with the account's number.
\* Two passwords with one hash are not modelled.
Hash(id, p) == <<id, p>>

\* user_record_t: its settings and counters are not told apart.
Account(id, h, p) == [handle |-> h, password |-> Hash(id, p)]
Nobody == [handle |-> << >>, password |-> << >>]
Records == [handle : Handles \cup {Sysop, Blank, << >>},
            password : (Ids \X Passwords) \cup {<< >>}]

\* user_is_live(): neither a slot never used, nor a deleted account, nor one
\* whose handle begins with a space.
IsLive(rec) == rec.handle \notin {Blank, << >>}

VARIABLES
  users, disk,     \* USR LOG: as rel_open() shows it, and as it survives a reset
  day,             \* USR.DAY: a date and the minutes of that date; in "really",
                   \* the calendar's date when they were written
  today, date,     \* the calendar, and wfc.date
  at,              \* where the program is
  local, handle, password, confirm, login_attempts, empty_handle_attempts,
  reg_step, reg_editing, user, user_id,            \* session_t
  timing,          \* session_time_begin(): "off", "on", or "fired"
  used, mins,      \* minutes used before this session, and in it
  form, form_id,   \* user_record_t of users_do_edit()
  given,           \* history: the handle each account was promised under
  fails, sessions, edits   \* history: counted against the bounds

files   == <<users, disk, day>>
clock   == <<today, date>>
login   == <<local, handle, password, confirm, login_attempts, empty_handle_attempts>>
reg     == <<reg_step, reg_editing>>
who     == <<user, user_id>>
timer   == <<timing, used, mins>>
session == <<login, reg, who, timer>>
editor  == <<form, form_id>>
bounds  == <<fails, sessions, edits>>
vars    == <<files, clock, at, session, editor, given, bounds>>

Auth == {"handle", "password", "offer"}     \* s->auth_step 0, 1, 2
InSession == Auth \cup {"register", "menu", "over"}

-----------------------------------------------------------------------------
(* The user file (users.c). *)

Fault(kind) == kind \in Faults /\ fails < MaxFaults /\ fails' = fails + 1

\* user_by_handle(): the first record in use that matches, or 0.  It does not
\* ask whether the account is live, and finds a deleted one under Blank.
ByHandle(t, h) == LET hits == {i \in Ids : t[i].handle = h}
                  IN IF hits = {} THEN 0 ELSE Min(hits)

\* user_next_id(): one more than the highest; 0 when the file is full.
NextId == LET highest == Max({0} \cup {i \in Ids : users[i] # Nobody})
          IN IF highest < MaxUsers THEN highest + 1 ELSE 0

Matches(id, p) == users[id].password = Hash(id, p)
LoadUser(id) == user' = users[id] /\ user_id' = id

\* user_delete() and user_reset_password() read the record they write.
DeletedRecord(id) == [users[id] EXCEPT !.handle = Blank]
ResetRecord(id, p) == [users[id] EXCEPT !.password = Hash(id, p)]

\* user_save(): a flush that fails leaves the record where rel_open() finds it.
Put(id, rec) == users' = [users EXCEPT ![id] = rec]
Save(id, rec) == Put(id, rec) /\ disk' = users' /\ UNCHANGED fails
SaveFails(id, rec) ==
  \/ Fault("open") /\ UNCHANGED <<users, disk>>
  \/ Fault("flush") /\ Put(id, rec) /\ UNCHANGED disk

\* The number a new account gets: user_by_handle() says 0 and user_next_id()
\* says 1 when the file cannot be opened.
Numbered(id, h) ==
  \/ id = NextId /\ ByHandle(users, h) = 0
  \/ "scan" \in Faults /\ fails < MaxFaults /\ (id = NextId \/ (id = 1 /\ ByHandle(users, h) = 0))

\* The backend writes a set it could not write before, at a later rel_open().
LateFlush ==
  /\ at # "off" /\ disk # users /\ disk' = users
  /\ UNCHANGED <<users, day, clock, at, session, editor, given, bounds>>

-----------------------------------------------------------------------------
(* Programs come and go. *)

\* The date is read, or typed, when the BBS starts, and only then.
Boot ==
  /\ at = "off" /\ at' = "wfc" /\ date' = today
  /\ UNCHANGED <<files, today, session, editor, given, bounds>>

Configure ==
  /\ at = "off" /\ at' = "configure"
  /\ UNCHANGED <<files, clock, session, editor, given, bounds>>

Midnight ==
  /\ today < MaxDays /\ today' = today + 1
  /\ UNCHANGED <<files, date, at, session, editor, given, bounds>>

\* session_init() clears the session; the model does it as well when one is
\* over, after which nobody reads it.
Fresh ==
  /\ handle' = << >> /\ password' = NoLine /\ confirm' = NoLine
  /\ login_attempts' = 0 /\ empty_handle_attempts' = 0
  /\ reg_step' = 0 /\ reg_editing' = FALSE /\ user' = Nobody /\ user_id' = 0
  /\ timing' = "off" /\ used' = 0 /\ mins' = 0

\* Power goes, or a program ends: what was not written is lost.
Stop ==
  /\ at # "off" /\ at' = "off" /\ users' = disk
  /\ Fresh /\ local' = FALSE /\ form' = Nobody /\ form_id' = 0
  /\ UNCHANGED <<disk, day, clock, given, bounds>>

\* session_init(), and SESS_CONNECTED.
Connect ==
  /\ at = "wfc" /\ sessions < MaxSessions /\ sessions' = sessions + 1
  /\ at' = "handle" /\ Fresh /\ local' \in BOOLEAN
  /\ UNCHANGED <<files, clock, editor, given, fails, edits>>

-----------------------------------------------------------------------------
(* Login: session_step() in SESS_AUTHENTICATING. *)

\* An empty line is asked for again; the third one ends the call.
EmptyLine ==
  /\ at \in {"handle", "password"}
  /\ empty_handle_attempts' = empty_handle_attempts + 1
  /\ at' = IF empty_handle_attempts' >= Tries THEN "over" ELSE at
  /\ UNCHANGED <<files, clock, local, handle, password, confirm, login_attempts,
                 reg, who, timer, editor, given, bounds>>

\* The two counters are not read again in a session that is past its login.
LoginOver == login_attempts' = 0 /\ empty_handle_attempts' = 0

StartRegistration ==
  /\ at' = "register" /\ reg_step' = 0 /\ reg_editing' = FALSE
  /\ handle' = << >> /\ password' = NoLine
  /\ LoginOver /\ UNCHANGED confirm

\* "NEW" goes to the registration at once.
TypeHandle ==
  /\ at = "handle"
  /\ \/ StartRegistration
     \/ /\ \E h \in Handles \cup {Sysop} : handle' = h
        /\ at' = "password" /\ password' = NoLine
        /\ UNCHANGED <<confirm, login_attempts, empty_handle_attempts, reg>>
  /\ UNCHANGED <<files, clock, local, who, timer, editor, given, bounds>>

\* A wrong password, and a failure on the way, count as a try.
BadLogin ==
  /\ login_attempts' = login_attempts + 1
  /\ UNCHANGED <<who, empty_handle_attempts>>
  /\ IF login_attempts' >= Tries
     THEN at' = "over" /\ UNCHANGED <<handle, password>>
     ELSE at' = "handle" /\ handle' = << >> /\ password' = NoLine

\* auth_prompt_login(), once OVL_AUTH is loaded.
TypePassword ==
  /\ at = "password"
  /\ \E p \in Passwords :
       LET id == ByHandle(users, handle) IN
       \/ /\ id # 0 /\ Matches(id, p)
          /\ at' = "menu" /\ password' = p /\ LoadUser(id)
          /\ LoginOver /\ UNCHANGED <<fails, handle>>
       \/ id # 0 /\ ~Matches(id, p) /\ BadLogin /\ UNCHANGED fails
       \/ id # 0 /\ Fault("open") /\ BadLogin      \* user_by_id() fails
       \/ Fault("overlay") /\ BadLogin
       \/ /\ (id = 0 /\ UNCHANGED fails) \/ (id # 0 /\ Fault("open"))
          /\ at' = "offer" /\ password' = p
          /\ UNCHANGED <<handle, who, login_attempts, empty_handle_attempts>>
  /\ UNCHANGED <<files, clock, local, confirm, reg, timer, editor, given, sessions, edits>>

\* "APPLY FOR AN ACCOUNT? Y/N"
Offer ==
  /\ at = "offer"
  /\ \/ StartRegistration
     \/ at' = "over" /\ LoginOver /\ UNCHANGED <<handle, password, confirm, reg>>
  /\ UNCHANGED <<files, clock, local, who, timer, editor, given, bounds>>

-----------------------------------------------------------------------------
(* Registration: session_reg_step(). *)

Registering(step) ==
  /\ at = "register" /\ reg_step = step
  /\ UNCHANGED <<day, clock, local, login_attempts, empty_handle_attempts,
                 timer, editor, sessions, edits>>

\* One more field asked for, or back to the confirmation.
Onward(next) ==
  IF reg_editing THEN reg_step' = 11 /\ reg_editing' = FALSE
  ELSE reg_step' = next /\ UNCHANGED reg_editing

Asked ==
  /\ Registering(0)
  /\ \/ at' = "over" /\ UNCHANGED <<handle, reg_step>>
     \/ reg_step' = 1 /\ handle' = << >> /\ UNCHANGED at
  /\ UNCHANGED <<users, disk, password, confirm, reg_editing, who, given, fails>>

\* auth_validate_handle() refuses what is reserved, all digits or in use.
Refused == handle' = << >> /\ UNCHANGED <<reg_step, reg_editing, password, fails>>

\* A line too short is asked for again, and kept; a refused one is cleared.
RegHandle ==
  /\ Registering(1)
  /\ \E l \in Lines \ {handle[i] : i \in DOMAIN handle} :
       LET h == Append(handle, l) IN
       \/ /\ h \notin Handles /\ handle' = h
          /\ UNCHANGED <<reg_step, reg_editing, password, fails>>
       \/ Refused
       \/ /\ h \in Handles /\ handle' = h
          /\ (ByHandle(users, h) = 0 /\ UNCHANGED fails) \/ Fault("open")
          /\ Onward(2) /\ password' = IF reg_editing THEN password ELSE NoLine
  /\ UNCHANGED <<users, disk, at, confirm, who, given>>

\* Too short a password is asked for again.
RegPassword ==
  /\ Registering(2)
  /\ \/ password' \in Passwords /\ reg_step' = 3 /\ confirm' = NoLine
     \/ password' = NoLine /\ UNCHANGED <<reg_step, confirm>>
  /\ UNCHANGED <<users, disk, at, handle, reg_editing, who, given, fails>>

\* Mutant: a field being edited goes back to the confirmation first of all.
RegConfirmEditedFirst ==
  /\ Registering(3)
  /\ \E c \in Passwords :
       IF c # password /\ ~reg_editing
       THEN password' = NoLine /\ confirm' = NoLine /\ reg_editing' = FALSE /\ reg_step' = 2
       ELSE confirm' = c /\ UNCHANGED password /\ Onward(4)
  /\ UNCHANGED <<users, disk, at, handle, who, given, fails>>

RegConfirm ==
  /\ Registering(3)
  /\ \E c \in Passwords :
       IF c # password
       THEN password' = NoLine /\ confirm' = NoLine /\ reg_editing' = FALSE /\ reg_step' = 2
       ELSE confirm' = c /\ UNCHANGED password /\ Onward(4)
  /\ UNCHANGED <<users, disk, at, handle, who, given, fails>>

\* Mail, name, place and terminal; the last leaves reg_editing as it is.
RegField ==
  /\ \E step \in 4 .. 10 :
       /\ Registering(step)
       /\ IF step = 10 THEN reg_step' = 11 /\ UNCHANGED reg_editing ELSE Onward(step + 1)
  /\ UNCHANGED <<users, disk, at, handle, password, confirm, who, given, fails>>

\* A digit at the confirmation: handle, password, or another field.
RegChange ==
  /\ Registering(11)
  /\ reg_editing' = TRUE
  /\ \/ reg_step' = 1 /\ handle' = << >> /\ UNCHANGED password
     \/ reg_step' = 2 /\ password' = NoLine /\ UNCHANGED handle
     \/ reg_step' \in 4 .. 10 /\ UNCHANGED <<handle, password>>
  /\ UNCHANGED <<users, disk, at, confirm, who, given, fails>>

\* Mutant: an account that could not be written is announced.
RegisterUnsaved ==
  /\ Registering(11)
  /\ UNCHANGED <<password, confirm>>
  /\ \E id \in Ids :
       LET rec == Account(id, handle, password) IN
       /\ Numbered(id, handle)
       /\ Save(id, rec) \/ SaveFails(id, rec)
       /\ reg_step' = 12 /\ user' = rec /\ user_id' = id
       /\ given' = [given EXCEPT ![id] = handle]
       /\ UNCHANGED <<at, handle, reg_editing>>

\* auth_register_new(), which looks for the handle again.
Register ==
  /\ Registering(11)
  /\ UNCHANGED <<password, confirm>>
  /\ \/ \E id \in Ids :
          LET rec == Account(id, handle, password) IN
          /\ Numbered(id, handle)
          /\ IF id = NextId /\ ByHandle(users, handle) = 0
             THEN Save(id, rec)
             ELSE Fault("scan") /\ Put(id, rec) /\ disk' = users'
          /\ reg_step' = 12 /\ user' = rec /\ user_id' = id
          /\ given' = [given EXCEPT ![id] = handle]
          /\ UNCHANGED <<at, handle, reg_editing>>
     \/ /\ ByHandle(users, handle) # 0
        /\ reg_step' = 1 /\ handle' = << >>
        /\ UNCHANGED <<users, disk, at, who, given, reg_editing, fails>>
     \/ /\ ByHandle(users, handle) = 0
        /\ \/ NextId = 0 /\ UNCHANGED <<users, disk, fails>>
           \/ NextId # 0 /\ SaveFails(NextId, Account(NextId, handle, password))
        /\ at' = "over"
        /\ UNCHANGED <<handle, who, given, reg_step, reg_editing>>

\* Two keys to read the account's number and the welcome.
Welcome ==
  /\ \/ Registering(12) /\ reg_step' = 13 /\ UNCHANGED at
     \/ Registering(13) /\ at' = "menu" /\ UNCHANGED reg_step
  /\ UNCHANGED <<users, disk, handle, password, confirm, reg_editing, who, given, fails>>

-----------------------------------------------------------------------------
(* The session's time, its settings and its end. *)

\* day_apply_reset(): another date's minutes do not count.
MinsOn(i) == IF day[i].on = date THEN day[i].mins ELSE 0

\* session_time_begin(), at the first menu: the console and levels without a
\* limit are exempt, and so is everyone when the limits cannot be read.
TimeBegin ==
  /\ at = "menu" /\ timing = "off" /\ ~local
  /\ timing' = "on" /\ used' = MinsOn(user_id)
  /\ UNCHANGED <<files, clock, at, login, reg, who, mins, editor, given, bounds>>

\* A minute of a session whose time is counted.
Minute ==
  /\ at = "menu" /\ timing = "on" /\ mins <= Limit
  /\ mins' = mins + 1
  /\ UNCHANGED <<files, clock, at, login, reg, who, timing, used, editor,
                 given, bounds>>

\* session_time_check(), from the reads of a feature (not of the menu).
TimeUp ==
  /\ at = "menu" /\ timing = "on" /\ used + mins >= Limit
  /\ at' = "over" /\ timing' = "fired"
  /\ UNCHANGED <<files, clock, login, reg, who, used, mins, editor, given, bounds>>

\* action_clear_on_msg(): the result of user_save() is not looked at.
ClearOnMsg ==
  /\ at = "menu"
  /\ Save(user_id, user) \/ SaveFails(user_id, user)
  /\ UNCHANGED <<day, clock, at, login, reg, who, timer, editor, given,
                 sessions, edits>>

Logoff ==
  /\ at = "menu" /\ at' = "over"
  /\ UNCHANGED <<files, clock, session, editor, given, bounds>>

\* usrday_save(), with the date of the BBS.
SaveDay(i, m) == day' = [day EXCEPT ![i] = [on |-> date, really |-> today, mins |-> m]]

\* Mutant: the minutes are added without a limit.
AccrueUncapped == SaveDay(user_id, MinsOn(user_id) + mins)

\* The minutes of this session, in session_done().
Accrue == SaveDay(user_id, Min({DayCap, MinsOn(user_id) + mins}))

\* session_done(), when the session is over or its caller gone: the record
\* read at login is written back, and so it is when USR.DAY fails.
SessionDone ==
  /\ at \in InSession /\ (at = "over" \/ ~local)
  /\ at' = "wfc" /\ Fresh /\ local' = FALSE
  /\ IF user_id = 0
     THEN UNCHANGED <<users, disk, day, fails>>
     ELSE \/ /\ IF timing = "off" THEN UNCHANGED day ELSE Accrue
             /\ Save(user_id, user) \/ SaveFails(user_id, user)
          \/ /\ timing # "off" /\ Fault("open") /\ UNCHANGED day
             /\ Put(user_id, user) /\ disk' = users'
  /\ UNCHANGED <<clock, editor, given, sessions, edits>>

-----------------------------------------------------------------------------
(* CONFIGURE's user editor. *)

Editing == edits < MaxEdits /\ edits' = edits + 1
Editor == UNCHANGED <<day, clock, session, sessions>>

\* users_do_create(), with the password "PASS".
Create ==
  /\ at = "configure" /\ Editing /\ Editor
  /\ \E h \in Handles, id \in Ids :
       /\ Numbered(id, h)
       /\ \/ /\ IF id = NextId /\ ByHandle(users, h) = 0
                THEN Save(id, Account(id, h, "PASS"))
                ELSE Fault("scan") /\ Put(id, Account(id, h, "PASS")) /\ disk' = users'
             /\ given' = [given EXCEPT ![id] = h]
          \/ /\ id = NextId /\ ByHandle(users, h) = 0
             /\ SaveFails(id, Account(id, h, "PASS")) /\ UNCHANGED given
  /\ UNCHANGED <<at, form, form_id>>

\* user_by_index(): the users that are not deleted.
Listed == {i \in Ids : IsLive(users[i])}

\* users_pick(), by the line of a page.
Pick ==
  /\ at = "configure" /\ at' = "form"
  /\ \E i \in Listed :
       /\ form_id' = i /\ form' = users[i]
  /\ UNCHANGED <<files, clock, session, given, bounds>>

\* The account form is saved: with a handle that nobody else has, if changed.
\* What is promised under an old handle ends with the attempt.
EditAccount ==
  /\ at = "form" /\ Editing /\ Editor
  /\ \E h \in Handles \cup {form.handle} :
       LET rec == [form EXCEPT !.handle = h]
           saved == given' = [given EXCEPT ![form_id] = h]
           failed == given' = [given EXCEPT ![form_id] = << >>]
       IN
       /\ form' = rec
       /\ \/ /\ ByHandle(users, h) \in {0, form_id}
             /\ (Save(form_id, rec) /\ saved) \/ (SaveFails(form_id, rec) /\ failed)
          \/ /\ ByHandle(users, h) \notin {0, form_id}
             /\ Fault("scan") /\ Put(form_id, rec) /\ disk' = users' /\ saved
  /\ UNCHANGED <<at, form_id>>

\* The profile form: the settings in the user's record.
EditProfile ==
  /\ at = "form" /\ Editing /\ Editor
  /\ Save(form_id, form) \/ SaveFails(form_id, form)
  /\ UNCHANGED <<at, form, form_id, given>>

\* user_reset_password() reads and writes the record, not the form.
ResetPassword ==
  /\ at = "form" /\ Editing /\ Editor
  /\ \E p \in Passwords :
       Save(form_id, ResetRecord(form_id, p)) \/ SaveFails(form_id, ResetRecord(form_id, p))
  /\ UNCHANGED <<at, form, form_id, given>>

BackToMenu ==
  /\ at = "form" /\ at' = "configure" /\ form' = Nobody /\ form_id' = 0
  /\ UNCHANGED <<files, clock, session, given, bounds>>

\* users_do_delete(): the SysOp, record 1, cannot be deleted.
Delete ==
  /\ at = "configure" /\ Editing /\ Editor
  /\ \E i \in Listed \ {1} :
       /\ Save(i, DeletedRecord(i)) \/ SaveFails(i, DeletedRecord(i))
       /\ given' = [given EXCEPT ![i] = << >>]
  /\ UNCHANGED <<at, form, form_id>>

-----------------------------------------------------------------------------
(* The specification: setup_create_user_database() made the SysOp's account. *)

Init ==
  /\ users = [i \in Ids |-> IF i = 1 THEN Account(1, Sysop, "PASS") ELSE Nobody]
  /\ disk = users /\ day = [i \in Ids |-> [on |-> 0, really |-> 0, mins |-> 0]]
  /\ today = 1 /\ date = 0 /\ at = "off"
  /\ local = FALSE /\ handle = << >> /\ password = NoLine /\ confirm = NoLine
  /\ login_attempts = 0 /\ empty_handle_attempts = 0
  /\ reg_step = 0 /\ reg_editing = FALSE
  /\ user = Nobody /\ user_id = 0 /\ timing = "off" /\ used = 0 /\ mins = 0
  /\ form = Nobody /\ form_id = 0
  /\ given = [i \in Ids |-> IF i = 1 THEN Sysop ELSE << >>]
  /\ fails = 0 /\ sessions = 0 /\ edits = 0

Programs == Boot \/ Configure \/ Stop \/ Midnight \/ LateFlush
Logins == Connect \/ EmptyLine \/ TypeHandle \/ TypePassword \/ Offer
Registers == Asked \/ RegHandle \/ RegPassword \/ RegConfirm \/ RegField \/ RegChange
             \/ Register \/ Welcome
Calls == TimeBegin \/ Minute \/ TimeUp \/ ClearOnMsg \/ Logoff \/ SessionDone
Edits == Create \/ Pick \/ EditAccount \/ EditProfile \/ ResetPassword \/ BackToMenu \/ Delete
Next == Programs \/ Logins \/ Registers \/ Calls \/ Edits

Spec == Init /\ [][Next]_vars

-----------------------------------------------------------------------------
(* Properties. *)

\* Every variable holds what its C counterpart can: three tries and no more,
\* a registration step the code has, a day of at most 1440 minutes.
TypeOK ==
  /\ users \in [Ids -> Records] /\ disk \in [Ids -> Records]
  /\ day \in [Ids -> [on : 0 .. MaxDays, really : 0 .. MaxDays, mins : 0 .. DayCap]]
  /\ today \in 1 .. MaxDays /\ date \in 0 .. today
  /\ at \in InSession \cup {"off", "wfc", "configure", "form"}
  /\ local \in BOOLEAN /\ handle \in Handles \cup {Sysop, <<"s">>, << >>}
  /\ password \in Passwords \cup {NoLine} /\ confirm \in Passwords \cup {NoLine}
  /\ login_attempts \in 0 .. Tries /\ empty_handle_attempts \in 0 .. Tries
  /\ (at \in Auth => login_attempts < Tries /\ empty_handle_attempts < Tries)
  /\ reg_step \in 0 .. 13 /\ reg_editing \in BOOLEAN
  /\ user \in Records /\ user_id \in Ids \cup {0}
  /\ timing \in {"off", "on", "fired"} /\ used \in 0 .. DayCap /\ mins \in 0 .. Limit + 1
  /\ form \in Records /\ form_id \in Ids \cup {0}

Found(i) == ByHandle(disk, given[i]) = i

\* An account that was announced is found again: a lookup of its handle in the
\* file as it would survive a reset gives its number, whatever was registered,
\* edited, deleted or written back since by the session or the form.  Excepted
\* is a handle that begins with a space, see BlankFound.
GivenFound ==
  \A i \in Ids : given[i] \notin {<< >>, Blank} => Found(i)

\* users.c:362-364, "A slot holds a real user only if it has an id AND a
\* non-blank handle": deleting another account does not take from an account
\* the handle it was announced under, though that begins with a space.
BlankFound ==
  \A i \in Ids : given[i] = Blank => Found(i)

\* From the confirmation on, the password is one that was typed twice, and the
\* handle one that passed the checks, in whatever order fields were changed;
\* and the account, once made, has them both.
TypedTwice ==
  at = "register" /\ reg_step >= 4 =>
    /\ password # NoLine /\ confirm = password /\ handle \in Handles
    /\ reg_step >= 12 => user = Account(user_id, handle, password)

\* README, MINS/DAY, "maximum online minutes per day": the minutes a caller
\* begins with are minutes of that day.
DayIsNew == timing = "on" /\ mins = 0 /\ used > 0 => day[user_id].really = today

\* Saving an account, its settings, or the session's copy of them changes no
\* password: only "RESET PASSWORD" does.
SavesKeepPasswords ==
  [][EditAccount \/ EditProfile \/ ClearOnMsg \/ SessionDone =>
       \A i \in Ids : users'[i].password = users[i].password]_vars
=============================================================================
