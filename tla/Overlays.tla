------------------------------ MODULE Overlays ------------------------------
(***************************************************************************)
(* What runs at $9700 (src/src/main.c and its callees).                    *)
(*                                                                         *)
(* Seven overlays and the door programs share one zone of memory.  Code    *)
(* that stays resident loads a bank from disk, calls into it, and loads    *)
(* back what was there; overlay code that has something loaded over it     *)
(* must be back in place when the call returns.  Nothing checks which bank *)
(* a call lands in: wfc.ovl_wfc_loaded is the program's only knowledge of  *)
(* the zone, and it is about one bank.  This module follows the program    *)
(* from boot through sessions and menus, one action for each stretch of    *)
(* code that loads a bank, calls into one or returns into one.             *)
(***************************************************************************)
EXTENDS Naturals, Sequences

CONSTANTS
  Failures,      \* how a load may fail: "absent" leaves the zone as it was,
                 \* "partial" stops in mid-load
  MaxFails,      \* bound on the failed loads
  GarbageLimit,  \* MENU_GARBAGE_LIMIT
  MaxDepth,      \* levels of menus below MAIN: 5 in the code
  MaxDoors       \* bound on the doors run at login: DOORS_MAX in the code

ASSUME OverlaysAssumption ==
  /\ Failures \subseteq {"absent", "partial"}
  /\ MaxFails \in Nat /\ MaxDoors \in Nat /\ MaxDepth \in Nat
  /\ GarbageLimit \in Nat \ {0}

Banks == {"BOOT", "WFC", "MSGS", "DOORS", "FILES", "ZMODEM", "AUTH"}

\* The menus, and what the letters of each one do.
Menus == {"main", "email", "prefs"}
commands ==
  [main  |-> {"msgs", "files", "doors", "info", "email", "prefs"},
   email |-> {"info"},
   prefs |-> {"info"}]

VARIABLES
  zone,     \* what lies at $9700: a bank, "DOOR", or "junk"
  ovl_wfc_loaded,
  at,       \* where the program is
  ret,      \* where it goes on after a reload, or after a door
  local, user, wide, carrier,
            \* the session: at the console; logged in; on the 80-column spy;
            \* its call still connected
  menu, parents, unknown_count,   \* s->menu_state
  doors,    \* login doors run so far
  stray,    \* history: the call that ran into the wrong bank, or "none"
  fails     \* history: loads that failed

memory  == <<zone, ovl_wfc_loaded>>
menus   == <<menu, parents, unknown_count>>
caller  == <<local, user, wide, carrier>>
session == <<caller, menus, doors>>
vars    == <<memory, at, ret, session, stray, fails>>

\* Where overlay code runs, and of which bank.
Home == [boot |-> "BOOT", auth |-> "AUTH", msgs |-> "MSGS", files |-> "FILES",
         zmodem |-> "ZMODEM", doormenu |-> "DOORS", logindoors |-> "DOORS",
         door |-> "DOOR"]

\* Where main_loop() is between two calls of session_step().
Turns == {"login", "offer", "register", "menu", "logoff"}
InSession ==
  Turns \cup {"authload", "reload", "restore"} \cup (DOMAIN Home \ {"boot"})

\* A console session has no carrier to lose: sess_carrier_ok().
Present == local \/ carrier

-----------------------------------------------------------------------------
(* Loading, calling and returning. *)

\* disk_load_overlay(): positions the drive, then loads.
Loads(bank) == zone' = bank /\ UNCHANGED fails

LoadFails ==
  /\ fails < MaxFails /\ fails' = fails + 1
  /\ \E f \in Failures : zone' = IF f = "absent" THEN zone ELSE "junk"

\* A call, or a return, to code of a bank: what happens next if another bank
\* is there is anybody's guess, and the model stops.
Runs(site, bank, next) ==
  IF zone' = bank
  THEN at' = next /\ UNCHANGED stray
  ELSE at' = "wild" /\ stray' = site

\* load_ovl_wfc(), when the flag says that a load is needed.
LoadWfc == ~ovl_wfc_loaded /\ Loads("WFC") /\ ovl_wfc_loaded' = TRUE
WfcThere == ovl_wfc_loaded /\ UNCHANGED <<zone, ovl_wfc_loaded, fails>>
WfcFails == ~ovl_wfc_loaded /\ LoadFails /\ UNCHANGED ovl_wfc_loaded

\* wfc_reload(), before the program goes on at ret.
Reload ==
  /\ at = "reload" /\ at' = ret
  /\ (WfcThere \/ LoadWfc \/ WfcFails)
  /\ UNCHANGED <<ret, session, stray>>

\* wfc_display_session() and wfc_update_session(): the 40-column panel is code
\* of WFC, and is drawn when the flag says that WFC is there.
Panel(next) ==
  IF ovl_wfc_loaded /\ ~wide
  THEN Runs("panel", "WFC", next)
  ELSE at' = next /\ UNCHANGED stray

-----------------------------------------------------------------------------
(* Boot, and waiting for a call. *)

\* main() loads OVL_BOOT itself, and compares its stamp.
BootLoad ==
  /\ at = "power"
  /\ \/ Loads("BOOT") /\ at' \in {"boot", "basic"}
     \/ LoadFails /\ at' = "basic"
  /\ UNCHANGED <<ovl_wfc_loaded, ret, session, stray>>

\* boot_sequence() gives up: no configuration, no network driver, no user
\* database, or no SEQ storage.
BootFails == at' = "basic" /\ UNCHANGED <<memory, fails, stray>>

\* boot_sequence(), and wfc_init().
BootSequence ==
  /\ at = "boot"
  /\ \/ BootFails
     \/ (LoadWfc /\ Runs("init", "WFC", "redraw"))
     \/ (WfcFails /\ at' = "redraw" /\ UNCHANGED stray)
  /\ UNCHANGED <<ret, session>>

WfcDisplay ==
  /\ at = "redraw"
  /\ \/ (LoadWfc \/ WfcThere) /\ Runs("wfc", "WFC", "wfc")
     \/ WfcFails /\ at' = "wfc" /\ UNCHANGED stray
  /\ UNCHANGED <<ret, session>>

\* wfc_update(): without the overlay it returns BBS_EIO, main_loop() calls it
\* again, and neither the modem nor the keyboard is looked at.
WfcUpdate ==
  /\ at = "wfc"
  /\ \/ (LoadWfc \/ WfcThere) /\ Runs("wfc", "WFC", "wfc") /\ UNCHANGED session
     \/ WfcFails /\ UNCHANGED <<at, stray, session>>
     \/ WfcThere /\ zone = "WFC" /\ at' = "basic" /\ UNCHANGED <<stray, session>>
     \/ /\ WfcThere /\ zone = "WFC" /\ at' = "start" /\ UNCHANGED stray
        /\ local' \in BOOLEAN /\ wide' \in {FALSE, ~local'}
        /\ user' = FALSE /\ carrier' = ~local'
        /\ menu' = "main" /\ parents' = << >> /\ unknown_count' = 0 /\ doors' = 0
  /\ UNCHANGED ret

\* session_spy_init() and wfc_display_session(): spy80_init() is code of WFC
\* and is called without a look at the flag; session_init() took no time.
SessionStart ==
  /\ at = "start"
  /\ UNCHANGED <<memory, fails>>
  /\ IF wide THEN Runs("spy80", "WFC", "login") ELSE Panel("login")
  /\ UNCHANGED <<ret, session>>

-----------------------------------------------------------------------------
(* A turn of main_loop()'s session loop. *)

\* wfc_update_session(), once per second.
PanelTick ==
  /\ at \in Turns
  /\ UNCHANGED <<memory, fails>>
  /\ Panel(at)
  /\ UNCHANGED <<ret, session>>

\* The caller goes, or is dropped; every wait of a session sees it in the end.
HangUp ==
  /\ at \in InSession /\ carrier
  /\ carrier' = FALSE
  /\ UNCHANGED <<memory, at, ret, local, user, wide, menus, doors, stray, fails>>

\* Mutant: a dropped call is noticed by the menu prompt only.
SessionEndAtMenu ==
  /\ at \in Turns
  /\ at = "logoff" \/ (at = "menu" /\ ~Present)
  /\ at' = "redraw" /\ carrier' = FALSE /\ user' = FALSE
  /\ UNCHANGED <<memory, ret, local, wide, menus, doors, stray, fails>>

\* main_loop() ends a session that is over, logs it, and redraws.
SessionEnd ==
  /\ at \in Turns
  /\ at = "logoff" \/ ~Present
  /\ at' = "redraw" /\ carrier' = FALSE /\ user' = FALSE
  /\ UNCHANGED <<memory, ret, local, wide, menus, doors, stray, fails>>

Go(from, to) ==
  /\ at = from /\ at' = to
  /\ UNCHANGED <<memory, ret, session, stray, fails>>

\* session_step() in SESS_AUTHENTICATING: a password is typed and OVL_AUTH
\* loaded to check it; or the handle is NEW; or too many tries end it.
Login ==
  /\ at = "login" /\ Present
  /\ \/ /\ at' \in {"register", "logoff"}
        /\ UNCHANGED <<memory, ret, stray, fails>>
     \/ /\ Loads("AUTH") /\ ovl_wfc_loaded' = FALSE
        /\ Runs("auth", "AUTH", "auth") /\ UNCHANGED ret
     \/ /\ LoadFails /\ UNCHANGED <<ovl_wfc_loaded, stray>>
        /\ at' = "reload" /\ ret' \in {"login", "logoff"}
  /\ UNCHANGED session

\* auth_prompt_login() returns, and WFC is reloaded first of all.
AuthReturns ==
  /\ at = "auth" /\ at' = "reload"
  /\ \/ ret' = "authload" /\ user' = TRUE
     \/ ret' \in {"offer", "login", "logoff"} /\ UNCHANGED user
  /\ UNCHANGED <<memory, local, wide, carrier, menus, doors, stray, fails>>

\* The offer to register: Y or N.
Offer == Present /\ (Go("offer", "register") \/ Go("offer", "logoff"))

\* session_reg_step() is code of WFC; session_step() calls it for each key.
Register ==
  /\ at = "register" /\ Present
  /\ UNCHANGED <<memory, fails>>
  /\ \/ Runs("register", "WFC", "register") /\ UNCHANGED user
     \/ Runs("register", "WFC", "menu") /\ user' = TRUE
     \/ Runs("register", "WFC", "logoff") /\ UNCHANGED user
  /\ UNCHANGED <<ret, local, wide, carrier, menus, doors>>

-----------------------------------------------------------------------------
(* Doors. *)

\* session_run_login_doors(): the flag is cleared only when it is done.
LoginDoors ==
  /\ at = "authload"
  /\ \/ /\ Loads("DOORS") /\ Runs("doors", "DOORS", "logindoors")
        /\ UNCHANGED <<ovl_wfc_loaded, ret>>
     \/ /\ LoadFails /\ ovl_wfc_loaded' = FALSE
        /\ at' = "reload" /\ ret' = "menu" /\ UNCHANGED stray
  /\ UNCHANGED session

LoginDoorsDone ==
  /\ at = "logindoors"
  /\ ovl_wfc_loaded' = FALSE /\ at' = "reload" /\ ret' = "menu"
  /\ UNCHANGED <<zone, session, stray, fails>>

\* A door is chosen from the records doors_scan() copied to the stack.
Chosen ==
  \/ at = "logindoors" /\ doors < MaxDoors /\ doors' = doors + 1
  \/ at = "doormenu" /\ Present /\ UNCHANGED doors

\* door_run(), up to its call of the program: the load is checked, and so is
\* the header.  Whatever fails, OVL_DOORS has to be restored.
DoorRun ==
  /\ Chosen /\ ret' = at
  /\ \/ Loads("DOOR") /\ at' \in {"door", "restore"}
     \/ LoadFails /\ at' = "restore"
  /\ UNCHANGED <<ovl_wfc_loaded, caller, menus, stray>>

\* w_display(): session_display_file() redraws the panel of a console session
\* that is logged in.
DoorDisplay ==
  /\ at = "door"
  /\ UNCHANGED <<memory, fails>>
  /\ IF local /\ user THEN Panel("door") ELSE at' = "door" /\ UNCHANGED stray
  /\ UNCHANGED <<ret, session>>

DoorExit == Go("door", "restore")

\* Mutant: a door that could not be restored is returned into.
RestoreUnchecked ==
  /\ at = "restore"
  /\ (Loads("DOORS") \/ LoadFails)
  /\ ovl_wfc_loaded' = FALSE /\ Runs("return", "DOORS", ret)
  /\ UNCHANGED <<ret, session>>

\* The end of door_run(): without OVL_DOORS there is nowhere to return to.
Restore ==
  /\ at = "restore"
  /\ \/ Loads("DOORS") /\ ovl_wfc_loaded' = FALSE /\ Runs("return", "DOORS", ret)
     \/ LoadFails /\ at' = "halted" /\ UNCHANGED <<ovl_wfc_loaded, stray>>
  /\ UNCHANGED <<ret, session>>

-----------------------------------------------------------------------------
(* The menus and what they call. *)

\* menu_dispatch() with the letter of a command: the three actions that load
\* an overlay, or a submenu, or one of the actions that only print.
OverlayOf == [msgs |-> "MSGS", files |-> "FILES", doors |-> "DOORS"]
EntryOf   == [msgs |-> "msgs", files |-> "files", doors |-> "doormenu"]

\* Mutant: the shims leave the flag alone.
RunActionFlagKept(c) ==
  /\ \/ Loads(OverlayOf[c]) /\ Runs(c, OverlayOf[c], EntryOf[c])
     \/ LoadFails /\ UNCHANGED <<at, stray>>
  /\ UNCHANGED <<ovl_wfc_loaded, ret, session>>

RunAction(c) ==
  /\ \/ /\ Loads(OverlayOf[c]) /\ ovl_wfc_loaded' = FALSE
        /\ Runs(c, OverlayOf[c], EntryOf[c])
     \/ LoadFails /\ UNCHANGED <<ovl_wfc_loaded, at, stray>>
  /\ UNCHANGED <<ret, session>>

EnterMenu(c) ==
  /\ IF Len(parents) < MaxDepth
     THEN menu' = c /\ parents' = Append(parents, menu)
     ELSE UNCHANGED <<menu, parents>>
  /\ UNCHANGED <<memory, at, ret, caller, unknown_count, doors, stray, fails>>

MenuCommand ==
  /\ at = "menu" /\ Present
  /\ \E c \in commands[menu] :
       \/ c \in DOMAIN OverlayOf /\ RunAction(c)
       \/ c \in Menus /\ EnterMenu(c)
       \/ c = "info" /\ UNCHANGED vars

\* 'Q': back to the parent menu, or off.
MenuBack ==
  /\ at = "menu" /\ Present
  /\ IF parents = << >>
     THEN at' = "logoff" /\ UNCHANGED <<menu, parents>>
     ELSE /\ menu' = parents[Len(parents)]
          /\ parents' = SubSeq(parents, 1, Len(parents) - 1)
          /\ UNCHANGED at
  /\ UNCHANGED <<memory, ret, caller, unknown_count, doors, stray, fails>>

\* Mutant: the limit is passed, not met.
MenuUnknownLate ==
  /\ at = "menu" /\ Present
  /\ unknown_count' = IF local THEN unknown_count ELSE unknown_count + 1
  /\ at' = IF unknown_count' > GarbageLimit THEN "logoff" ELSE at
  /\ UNCHANGED <<memory, ret, caller, menu, parents, doors, stray, fails>>

\* Any other letter: a remote session has a limited number of them in all.
MenuUnknown ==
  /\ at = "menu" /\ Present
  /\ unknown_count' = IF local THEN unknown_count ELSE unknown_count + 1
  /\ at' = IF unknown_count' >= GarbageLimit THEN "logoff" ELSE at
  /\ UNCHANGED <<memory, ret, caller, menu, parents, doors, stray, fails>>

\* bulletin_run(), files_run() and action_doors_menu() return to their shims.
ActionReturns ==
  /\ at \in {"msgs", "files", "doormenu"}
  /\ at' = "reload" /\ ret' = "menu"
  /\ UNCHANGED <<memory, session, stray, fails>>

\* z_load_zmodem(): if it fails the caller is told, and files_run() goes on.
ZmodemLoad ==
  /\ at = "files" /\ Present
  /\ \/ /\ Loads("ZMODEM") /\ ovl_wfc_loaded' = FALSE
        /\ Runs("zmodem", "ZMODEM", "zmodem")
     \/ LoadFails /\ Runs("return", "FILES", "files") /\ UNCHANGED ovl_wfc_loaded
  /\ UNCHANGED <<ret, session>>

\* z_load_files(), after the transfer.
ZmodemReturns ==
  /\ at = "zmodem"
  /\ \/ Loads("FILES") /\ ovl_wfc_loaded' = FALSE /\ Runs("return", "FILES", "files")
     \/ LoadFails /\ at' = "halted" /\ UNCHANGED <<ovl_wfc_loaded, stray>>
  /\ UNCHANGED <<ret, session>>

-----------------------------------------------------------------------------

Init ==
  /\ zone = "junk" /\ ovl_wfc_loaded = FALSE /\ at = "power" /\ ret = "none"
  /\ local = FALSE /\ user = FALSE /\ wide = FALSE /\ carrier = FALSE
  /\ menu = "main" /\ parents = << >> /\ unknown_count = 0 /\ doors = 0
  /\ stray = "none" /\ fails = 0

\* The program by itself, whoever calls or types.
Program ==
  \/ Reload \/ BootLoad \/ BootSequence \/ WfcDisplay \/ SessionStart
  \/ SessionEnd \/ AuthReturns \/ LoginDoors \/ LoginDoorsDone \/ DoorExit
  \/ Restore \/ ActionReturns \/ ZmodemReturns

Next ==
  \/ Program \/ WfcUpdate \/ PanelTick \/ HangUp \/ Login \/ Offer \/ Register
  \/ DoorRun \/ DoorDisplay \/ MenuCommand \/ MenuBack \/ MenuUnknown \/ ZmodemLoad

Spec == Init /\ [][Next]_vars

\* One thread: a step of the program that waits for nobody is taken in the end.
FairSpec == Spec /\ WF_vars(Program)

-----------------------------------------------------------------------------
(* What must hold. *)

Places ==
  InSession \cup {"power", "boot", "redraw", "wfc", "start", "halted", "basic", "wild"}

\* Everything is of its type.
TypeOK ==
  /\ zone \in Banks \cup {"DOOR", "junk"} /\ ovl_wfc_loaded \in BOOLEAN
  /\ at \in Places /\ ret \in Places \cup {"none"}
  /\ local \in BOOLEAN /\ user \in BOOLEAN /\ wide \in BOOLEAN /\ carrier \in BOOLEAN
  /\ menu \in Menus /\ parents \in Seq(Menus) /\ Len(parents) <= MaxDepth
  /\ unknown_count \in 0..GarbageLimit /\ doors \in 0..MaxDoors
  /\ stray \in {"none", "init", "wfc", "panel", "spy80", "auth", "register", "doors",
                "msgs", "files", "zmodem", "return"}
  /\ fails \in 0..MaxFails

\* Every call and return into the zone finds its bank there, but for three
\* ways out, of which the first takes no failure: the panel drawn over a
\* login door's own display; registration after the reload of WFC failed,
\* which it does not look at; and whatever comes after a load that stopped
\* half-way.
StraysKnown ==
  at = "wild" =>
    \/ stray = "panel" /\ local /\ ret = "logindoors"
    \/ stray = "register" /\ fails > 0
    \/ zone = "junk"

\* wfc.ovl_wfc_loaded tells the truth, except between the load of the login
\* doors and their end, and after a load that stopped half-way.
FlagTold ==
  ovl_wfc_loaded =>
    \/ zone \in {"WFC", "junk"}
    \/ at = "logindoors"
    \/ at \in {"door", "restore", "halted", "wild"} /\ ret = "logindoors"

\* sysop.c: the 40-column panel is in the WFC overlay, so it only draws while
\* WFC is resident.
PanelNeedsWfc == stray # "panel"

\* A session whose caller is gone ends, and the BBS waits for the next one,
\* unless a failed load has halted it.
BackToWfc ==
  (at \in InSession /\ ~local /\ ~carrier)
    ~> (at \in {"wfc", "halted", "wild"})

=============================================================================
