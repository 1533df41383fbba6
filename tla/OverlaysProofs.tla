--------------------------- MODULE OverlaysProofs ---------------------------
(***************************************************************************)
(* Theorems about Overlays, for any number of failed loads, of doors and   *)
(* of levels of menus.                                                     *)
(*                                                                         *)
(* The flag ovl_wfc_loaded speaks of one bank; what the program knows of   *)
(* the others is where it is.  HomeInv says so: code of a bank that runs   *)
(* finds itself at $9700.  It needs to know where a reload and a door      *)
(* return to (ReturnInv), and that WFC is missing from a session's logon   *)
(* only after a failure (LogonInv, JunkInv).                               *)
(***************************************************************************)
EXTENDS Overlays, SequenceTheorems, TLAPS

HomeInv == at \in DOMAIN Home => zone = Home[at]

ReturnInv ==
  /\ at \in {"door", "restore"} => ret \in {"logindoors", "doormenu"}
  /\ at = "reload" => ret \in {"authload", "login", "logoff", "offer", "menu"}

\* Only a load that failed leaves a broken bank; at power-on nothing is loaded.
JunkInv ==
  /\ zone = "junk" /\ fails = 0 => at = "power"
  /\ at = "power" => ~ovl_wfc_loaded

\* The screens that are part of WFC, and the login before them.
LogonInv == at \in {"login", "offer", "register"} => zone = "WFC" \/ fails > 0
StartInv == at = "start" => zone = "WFC"

\* A session that goes on has not used up its unknown letters.
CountInv ==
  at \in (InSession \ {"logoff"}) \cup {"start"} => unknown_count < GarbageLimit

Inv ==
  /\ TypeOK /\ StraysKnown /\ FlagTold
  /\ HomeInv /\ ReturnInv /\ JunkInv /\ LogonInv /\ StartInv /\ CountInv

-----------------------------------------------------------------------------
(* The zone, the flag and the strays: everything but the menus' data. *)

ZoneInv ==
  /\ StraysKnown /\ FlagTold
  /\ HomeInv /\ ReturnInv /\ JunkInv /\ LogonInv /\ StartInv

\* Boot, and waiting for a call.
LEMMA BootZone ==
  ASSUME Inv, BootLoad \/ BootSequence \/ WfcDisplay \/ WfcUpdate \/ SessionStart
  PROVE  ZoneInv'
<1> USE DEF Inv, ZoneInv, StraysKnown, FlagTold, HomeInv, ReturnInv, JunkInv,
            LogonInv, StartInv, Home, Runs, Loads, LoadFails, LoadWfc, WfcThere,
            WfcFails, Panel, memory, session, caller, menus, OverlaysAssumption
<1>0. fails \in Nat /\ Failures \subseteq {"absent", "partial"}
  BY OverlaysAssumption DEF TypeOK
<1>1. CASE BootLoad
  BY <1>0, <1>1 DEF BootLoad
<1>2. CASE BootSequence
  BY <1>0, <1>2 DEF BootSequence, BootFails
<1>3. CASE WfcDisplay
  BY <1>0, <1>3 DEF WfcDisplay
<1>4. CASE WfcUpdate
  <2>1. ASSUME at = "wfc", LoadWfc \/ WfcThere, Runs("wfc", "WFC", "wfc")
        PROVE  ZoneInv'
    BY <1>0, <1>4, <2>1 DEF WfcUpdate
  <2>2. ASSUME at = "wfc", WfcFails, UNCHANGED <<at, stray, session>>
        PROVE  ZoneInv'
    BY <1>0, <1>4, <2>2 DEF WfcUpdate
  <2>3. ASSUME at = "wfc", WfcThere, zone = "WFC", at' \in {"basic", "start"}, UNCHANGED stray
        PROVE  ZoneInv'
    BY <1>0, <1>4, <2>3
  <2> QED BY <1>4, <2>1, <2>2, <2>3 DEF WfcUpdate
<1>5. CASE SessionStart
  BY <1>0, <1>5 DEF SessionStart
<1> QED BY <1>1, <1>2, <1>3, <1>4, <1>5

\* Loading WFC again, and what draws with its code.
LEMMA WfcZone ==
  ASSUME Inv, Reload \/ PanelTick \/ DoorDisplay \/ Register
  PROVE  ZoneInv'
<1> USE DEF Inv, ZoneInv, StraysKnown, FlagTold, HomeInv, ReturnInv, JunkInv,
            LogonInv, StartInv, Home, Runs, Loads, LoadFails, LoadWfc, WfcThere,
            WfcFails, Panel, Turns, memory, session, caller, menus
<1>0. fails \in Nat /\ Failures \subseteq {"absent", "partial"}
  BY OverlaysAssumption DEF TypeOK
<1>1. CASE Reload
  BY <1>0, <1>1 DEF Reload
<1>2. CASE PanelTick
  BY <1>0, <1>2 DEF PanelTick
<1>3. CASE DoorDisplay
  BY <1>0, <1>3 DEF DoorDisplay
<1>4. CASE Register
  BY <1>0, <1>4 DEF Register
<1> QED BY <1>1, <1>2, <1>3, <1>4

\* What loads another bank, or goes back after one.
LEMMA BankZone ==
  ASSUME Inv,
         Login \/ AuthReturns \/ LoginDoors \/ LoginDoorsDone \/ DoorRun \/ DoorExit
           \/ Restore \/ ActionReturns \/ ZmodemLoad \/ ZmodemReturns
  PROVE  ZoneInv'
<1> USE DEF Inv, ZoneInv, StraysKnown, FlagTold, HomeInv, ReturnInv, JunkInv,
            LogonInv, StartInv, Home, Runs, Loads, LoadFails,
            memory, session, caller, menus
<1>0. fails \in Nat /\ Failures \subseteq {"absent", "partial"}
  BY OverlaysAssumption DEF TypeOK
<1>1. CASE Login
  BY <1>0, <1>1 DEF Login
<1>2. CASE AuthReturns
  BY <1>0, <1>2 DEF AuthReturns
<1>3. CASE LoginDoors
  BY <1>0, <1>3 DEF LoginDoors
<1>4. CASE LoginDoorsDone
  BY <1>0, <1>4 DEF LoginDoorsDone
<1>5. CASE DoorRun
  BY <1>0, <1>5 DEF DoorRun, Chosen
<1>6. CASE DoorExit
  BY <1>0, <1>6 DEF DoorExit, Go
<1>7. CASE Restore
  BY <1>0, <1>7 DEF Restore
<1>8. CASE ActionReturns
  BY <1>0, <1>8 DEF ActionReturns
<1>9. CASE ZmodemLoad
  BY <1>0, <1>9 DEF ZmodemLoad
<1>10. CASE ZmodemReturns
  BY <1>0, <1>10 DEF ZmodemReturns
<1> QED BY <1>1, <1>2, <1>3, <1>4, <1>5, <1>6, <1>7, <1>8, <1>9, <1>10

\* The menus, and the end of a session.
LEMMA MenuZone ==
  ASSUME Inv,
         HangUp \/ SessionEnd \/ Offer \/ MenuCommand \/ MenuBack \/ MenuUnknown
  PROVE  ZoneInv'
<1> USE DEF Inv, ZoneInv, StraysKnown, FlagTold, HomeInv, ReturnInv, JunkInv,
            LogonInv, StartInv, Home, Runs, Loads, LoadFails,
            memory, session, caller, menus
<1>0. fails \in Nat /\ Failures \subseteq {"absent", "partial"}
  BY OverlaysAssumption DEF TypeOK
<1>1. CASE HangUp
  BY <1>0, <1>1 DEF HangUp
<1>2. CASE SessionEnd
  BY <1>0, <1>2 DEF SessionEnd, Turns
<1>3. CASE Offer
  BY <1>0, <1>3 DEF Offer, Go
<1>4. CASE MenuCommand
  <2>1. ASSUME NEW c \in {"msgs", "files", "doors"}, at = "menu", RunAction(c)
        PROVE  ZoneInv'
    BY <1>0, <2>1 DEF RunAction, OverlayOf, EntryOf
  <2>2. ASSUME NEW c, at = "menu", EnterMenu(c)
        PROVE  ZoneInv'
    BY <1>0, <2>2 DEF EnterMenu
  <2>3. ASSUME UNCHANGED vars
        PROVE  ZoneInv'
    BY <2>3 DEF vars
  <2> QED BY <1>4, <2>1, <2>2, <2>3 DEF MenuCommand, OverlayOf
<1>5. CASE MenuBack
  BY <1>0, <1>5 DEF MenuBack
<1>6. CASE MenuUnknown
  BY <1>0, <1>6 DEF MenuUnknown
<1> QED BY <1>1, <1>2, <1>3, <1>4, <1>5, <1>6

-----------------------------------------------------------------------------
(* The types of the zone and of the session, for all actions alike. *)

\* TypeOK in three parts.
FlagsOK ==
  /\ ovl_wfc_loaded \in BOOLEAN /\ local \in BOOLEAN /\ user \in BOOLEAN
  /\ wide \in BOOLEAN /\ carrier \in BOOLEAN

PlaceOK ==
  /\ zone \in Banks \cup {"DOOR", "junk"}
  /\ at \in Places /\ ret \in Places \cup {"none"}
  /\ stray \in {"none", "init", "wfc", "panel", "spy80", "auth", "register", "doors",
                "msgs", "files", "zmodem", "return"}
  /\ fails \in 0..MaxFails

MenuOK ==
  /\ menu \in Menus /\ parents \in Seq(Menus) /\ Len(parents) <= MaxDepth
  /\ unknown_count \in 0..GarbageLimit /\ doors \in 0..MaxDoors

\* The places, one by one.
LEMMA PlaceNames ==
  {"power", "boot", "redraw", "wfc", "start", "halted", "basic", "wild", "login",
   "offer", "register", "menu", "logoff", "authload", "reload", "restore", "auth",
   "msgs", "files", "zmodem", "doormenu", "logindoors", "door"} \subseteq Places
BY DEF Places, InSession, Turns, Home

\* Boot, and waiting for a call.
LEMMA BootPlaces ==
  ASSUME Inv, BootLoad \/ BootSequence \/ WfcDisplay \/ WfcUpdate \/ SessionStart
  PROVE  PlaceOK'
<1> USE DEF PlaceOK, Banks, Runs, Loads, LoadFails, LoadWfc, WfcThere, WfcFails,
            Panel, memory, session, caller, menus
<1>0. PlaceOK /\ ReturnInv /\ MaxFails \in Nat
  BY OverlaysAssumption DEF Inv, TypeOK
<1> USE PlaceNames
<1>1. CASE BootLoad
  BY <1>0, <1>1 DEF ReturnInv, BootLoad
<1>2. CASE BootSequence
  BY <1>0, <1>2 DEF ReturnInv, BootSequence, BootFails
<1>3. CASE WfcDisplay
  BY <1>0, <1>3 DEF ReturnInv, WfcDisplay
<1>4. CASE WfcUpdate
  <2>1. /\ at' \in {"wfc", "wild", "basic", "start"} /\ ret' = ret
        /\ stray' \in {"wfc", stray}
    BY <1>0, <1>4 DEF WfcUpdate
  <2>2. LoadWfc \/ WfcThere \/ WfcFails
    BY <1>4 DEF WfcUpdate
  <2>3. zone' \in {"WFC", "junk", zone} /\ fails' \in 0..MaxFails
    BY <1>0, <2>2
  <2> QED BY <1>0, <2>1, <2>3
<1>5. CASE SessionStart
  BY <1>0, <1>5 DEF ReturnInv, SessionStart
<1> QED BY <1>1, <1>2, <1>3, <1>4, <1>5

\* Loading WFC again, and what draws with its code.
LEMMA WfcPlaces ==
  ASSUME Inv, Reload \/ PanelTick \/ DoorDisplay \/ Register
  PROVE  PlaceOK'
<1> USE DEF PlaceOK, Banks, Runs, Loads, LoadFails, LoadWfc, WfcThere, WfcFails,
            Panel, memory, session, caller, menus
<1>0. PlaceOK /\ ReturnInv /\ MaxFails \in Nat
  BY OverlaysAssumption DEF Inv, TypeOK
<1> USE PlaceNames
<1>1. CASE Reload
  BY <1>0, <1>1 DEF ReturnInv, Reload
<1>2. CASE PanelTick
  BY <1>0, <1>2 DEF ReturnInv, PanelTick
<1>3. CASE DoorDisplay
  BY <1>0, <1>3 DEF ReturnInv, DoorDisplay
<1>4. CASE Register
  BY <1>0, <1>4 DEF ReturnInv, Register
<1> QED BY <1>1, <1>2, <1>3, <1>4

\* What loads another bank, or goes back after one.
LEMMA BankPlaces ==
  ASSUME Inv, Login \/ AuthReturns \/ LoginDoors \/ LoginDoorsDone \/ DoorRun \/ DoorExit \/ Restore \/ ActionReturns \/ ZmodemLoad \/ ZmodemReturns
  PROVE  PlaceOK'
<1> USE DEF PlaceOK, Banks, Runs, Loads, LoadFails, LoadWfc, WfcThere, WfcFails,
            Panel, memory, session, caller, menus
<1>0. PlaceOK /\ ReturnInv /\ MaxFails \in Nat
  BY OverlaysAssumption DEF Inv, TypeOK
<1> USE PlaceNames
<1>1. CASE Login
  BY <1>0, <1>1 DEF ReturnInv, Login
<1>2. CASE AuthReturns
  BY <1>0, <1>2 DEF ReturnInv, AuthReturns
<1>3. CASE LoginDoors
  BY <1>0, <1>3 DEF ReturnInv, LoginDoors
<1>4. CASE LoginDoorsDone
  BY <1>0, <1>4 DEF ReturnInv, LoginDoorsDone
<1>5. CASE DoorRun
  BY <1>0, <1>5 DEF ReturnInv, DoorRun, Chosen
<1>6. CASE DoorExit
  BY <1>0, <1>6 DEF ReturnInv, DoorExit, Go
<1>7. CASE Restore
  BY <1>0, <1>7 DEF ReturnInv, Restore
<1>8. CASE ActionReturns
  BY <1>0, <1>8 DEF ReturnInv, ActionReturns
<1>9. CASE ZmodemLoad
  BY <1>0, <1>9 DEF ReturnInv, ZmodemLoad
<1>10. CASE ZmodemReturns
  BY <1>0, <1>10 DEF ReturnInv, ZmodemReturns
<1> QED BY <1>1, <1>2, <1>3, <1>4, <1>5, <1>6, <1>7, <1>8, <1>9, <1>10

\* The menus, and the end of a session.
LEMMA MenuPlaces ==
  ASSUME Inv, HangUp \/ SessionEnd \/ Offer \/ MenuCommand \/ MenuBack \/ MenuUnknown
  PROVE  PlaceOK'
<1> USE DEF PlaceOK, Banks, Runs, Loads, LoadFails, LoadWfc, WfcThere, WfcFails,
            Panel, memory, session, caller, menus
<1>0. PlaceOK /\ ReturnInv /\ MaxFails \in Nat
  BY OverlaysAssumption DEF Inv, TypeOK
<1> USE PlaceNames
<1>1. CASE HangUp
  BY <1>0, <1>1 DEF ReturnInv, HangUp
<1>2. CASE SessionEnd
  BY <1>0, <1>2 DEF ReturnInv, SessionEnd
<1>3. CASE Offer
  BY <1>0, <1>3 DEF ReturnInv, Offer, Go
<1>4. CASE MenuCommand
  <2>1. ASSUME NEW c \in {"msgs", "files", "doors"}, RunAction(c)
        PROVE  PlaceOK'
    BY <1>0, <2>1 DEF RunAction, OverlayOf, EntryOf
  <2>2. ASSUME NEW c, EnterMenu(c)
        PROVE  PlaceOK'
    BY <1>0, <2>2 DEF EnterMenu
  <2>3. ASSUME UNCHANGED vars
        PROVE  PlaceOK'
    BY <1>0, <2>3 DEF vars
  <2> QED BY <1>4, <2>1, <2>2, <2>3 DEF MenuCommand, OverlayOf
<1>5. CASE MenuBack
  BY <1>0, <1>5 DEF ReturnInv, MenuBack
<1>6. CASE MenuUnknown
  BY <1>0, <1>6 DEF ReturnInv, MenuUnknown
<1> QED BY <1>1, <1>2, <1>3, <1>4, <1>5, <1>6

-----------------------------------------------------------------------------
(* The flags, and the menus' data. *)

\* Truth values stay truth values.
LEMMA Flags ==
  ASSUME Inv, Next
  PROVE  FlagsOK'
<1> USE DEF FlagsOK, Loads, LoadFails, LoadWfc, WfcThere, WfcFails, memory, session,
            caller, menus
<1>0. FlagsOK
  BY DEF Inv, TypeOK
<1>1. CASE Program
  BY <1>0, <1>1 DEF Program, Reload, BootLoad, BootSequence, BootFails, WfcDisplay,
     SessionStart, SessionEnd, AuthReturns, LoginDoors, LoginDoorsDone, DoorExit, Go,
     Restore, ActionReturns, ZmodemReturns
<1>2. CASE WfcUpdate
  BY <1>0, <1>2 DEF WfcUpdate
<1>3. CASE PanelTick \/ HangUp \/ Offer \/ MenuBack \/ MenuUnknown \/ DoorDisplay
  BY <1>0, <1>3 DEF PanelTick, HangUp, Offer, Go, MenuBack, MenuUnknown, DoorDisplay
<1>4. CASE Login \/ Register \/ DoorRun \/ ZmodemLoad
  BY <1>0, <1>4 DEF Login, Register, DoorRun, ZmodemLoad
<1>5. CASE MenuCommand
  BY <1>0, <1>5 DEF MenuCommand, RunAction, EnterMenu, vars
<1> QED BY <1>1, <1>2, <1>3, <1>4, <1>5 DEF Next

\* Menus are entered and left within MaxDepth levels; letters are counted.
LEMMA MenuTypes ==
  ASSUME Inv, Next
  PROVE  MenuOK' /\ CountInv'
<1> USE DEF CountInv, InSession, Turns, Home, Runs, Panel, memory, session, caller, menus
<1>0. /\ MenuOK /\ CountInv /\ ReturnInv /\ MaxDepth \in Nat /\ MaxDoors \in Nat
      /\ GarbageLimit \in Nat \ {0} /\ at \in Places
  BY OverlaysAssumption DEF Inv, TypeOK, MenuOK
<1>1. CASE Program
  <2>1. UNCHANGED <<menus, doors>>
    BY <1>1 DEF Program, Reload, BootLoad, BootSequence, WfcDisplay, SessionStart,
       SessionEnd, AuthReturns, LoginDoors, LoginDoorsDone, DoorExit, Go, Restore,
       ActionReturns, ZmodemReturns, session
  <2>2. MenuOK'
    BY <1>0, <2>1 DEF MenuOK
  <2>3. CountInv'
    <3>1. CASE Reload
      BY <1>0, <2>1, <3>1 DEF ReturnInv, Reload
    <3>2. CASE BootLoad \/ BootSequence \/ WfcDisplay
      BY <1>0, <2>1, <3>2 DEF BootLoad, BootSequence, BootFails, WfcDisplay
    <3>3. CASE SessionStart \/ SessionEnd
      BY <1>0, <2>1, <3>3 DEF SessionStart, SessionEnd
    <3>4. CASE AuthReturns \/ LoginDoors \/ LoginDoorsDone
      BY <1>0, <2>1, <3>4 DEF AuthReturns, LoginDoors, LoginDoorsDone
    <3>5. CASE DoorExit \/ Restore
      BY <1>0, <2>1, <3>5 DEF DoorExit, Go, Restore
    <3>6. CASE ActionReturns \/ ZmodemReturns
      BY <1>0, <2>1, <3>6 DEF ActionReturns, ZmodemReturns
    <3> QED BY <1>1, <3>1, <3>2, <3>3, <3>4, <3>5, <3>6 DEF Program
  <2> QED BY <2>2, <2>3
<1>2. CASE WfcUpdate
  <2>1. << >> \in Seq(Menus) /\ Len(<< >>) = 0 /\ "main" \in Menus
    BY EmptySeq DEF Menus
  <2>2. \/ UNCHANGED <<menus, doors>> /\ at' \in {"wfc", "wild", "basic"}
        \/ /\ menu' = "main" /\ parents' = << >> /\ unknown_count' = 0 /\ doors' = 0
    BY <1>2 DEF WfcUpdate, session
  <2>3. MenuOK'
    <3>1. CASE menu' = "main" /\ parents' = << >> /\ unknown_count' = 0 /\ doors' = 0
      <4>1. parents' \in Seq(Menus) /\ Len(parents') = 0
        BY <2>1, <3>1
      <4> QED BY <1>0, <2>1, <3>1, <4>1 DEF MenuOK
    <3>2. CASE UNCHANGED <<menus, doors>>
      BY <1>0, <3>2 DEF MenuOK
    <3> QED BY <2>2, <3>1, <3>2
  <2>4. CountInv'
    BY <1>0, <2>2
  <2> QED BY <2>3, <2>4
<1>3. CASE PanelTick \/ HangUp \/ Offer \/ DoorDisplay
  BY <1>0, <1>3 DEF MenuOK, PanelTick, HangUp, Offer, Go, DoorDisplay
<1>4. CASE Login \/ Register \/ ZmodemLoad
  BY <1>0, <1>4 DEF MenuOK, Login, Register, ZmodemLoad
<1>5. CASE DoorRun
  BY <1>0, <1>5 DEF MenuOK, DoorRun, Chosen
<1>6. CASE MenuUnknown
  BY <1>0, <1>6 DEF MenuOK, MenuUnknown
<1>7. CASE MenuBack
  BY <1>0, <1>7 DEF MenuOK, MenuBack
<1>8. CASE MenuCommand
  <2>1. ASSUME NEW c \in {"msgs", "files", "doors"}, RunAction(c)
        PROVE  UNCHANGED <<menus, doors>>
    BY <2>1 DEF RunAction, session
  <2>2. ASSUME NEW c \in Menus, EnterMenu(c)
        PROVE  MenuOK' /\ UNCHANGED <<at, unknown_count>>
    BY SMTT(20), <1>0, <2>2 DEF MenuOK, EnterMenu
  <2>3. at = "menu" /\ unknown_count < GarbageLimit
    BY <1>0, <1>8 DEF MenuCommand
  <2> QED BY <1>0, <1>8, <2>1, <2>2, <2>3 DEF MenuOK, MenuCommand, OverlayOf, vars
<1> QED BY <1>1, <1>2, <1>3, <1>4, <1>5, <1>6, <1>7, <1>8 DEF Next

-----------------------------------------------------------------------------

\* The invariant is inductive.
LEMMA InitInv ==
  Init => Inv
<1>1. << >> \in Seq(Menus) /\ Len(<< >>) = 0 /\ "main" \in Menus
  BY EmptySeq DEF Menus
<1>2. ASSUME Init PROVE FlagsOK
  BY <1>2 DEF Init, FlagsOK
<1>3. ASSUME Init PROVE PlaceOK /\ MenuOK
  BY <1>1, <1>3, PlaceNames, OverlaysAssumption DEF Init, PlaceOK, MenuOK
<1>4. ASSUME Init PROVE ZoneInv /\ CountInv
  BY <1>4 DEF Init, ZoneInv, StraysKnown, FlagTold, HomeInv, ReturnInv, JunkInv, LogonInv,
     StartInv, CountInv, InSession, Turns, Home
<1> QED BY <1>2, <1>3, <1>4 DEF Inv, ZoneInv, TypeOK, FlagsOK, PlaceOK, MenuOK

LEMMA StepInv ==
  Inv /\ [Next]_vars => Inv'
<1>1. ASSUME Inv, Next PROVE Inv'
  <2>1. ZoneInv'
    BY <1>1, BootZone, WfcZone, BankZone, MenuZone DEF Next, Program
  <2>2. PlaceOK'
    BY <1>1, BootPlaces, WfcPlaces, BankPlaces, MenuPlaces DEF Next, Program
  <2>3. FlagsOK' /\ MenuOK' /\ CountInv'
    BY <1>1, Flags, MenuTypes
  <2> QED BY <2>1, <2>2, <2>3 DEF Inv, ZoneInv, TypeOK, FlagsOK, PlaceOK, MenuOK
<1>2. ASSUME Inv, UNCHANGED vars PROVE Inv'
  BY <1>2 DEF vars, memory, session, caller, menus, Inv, TypeOK, StraysKnown, FlagTold,
     HomeInv, ReturnInv, JunkInv, LogonInv, StartInv, CountInv
<1> QED BY <1>1, <1>2

LEMMA AlwaysInv ==
  Spec => []Inv
BY InitInv, StepInv, PTL DEF Spec

\* Every variable is of its type, whatever fails.
THEOREM TypeCorrect ==
  Spec => []TypeOK
BY AlwaysInv, PTL DEF Inv

\* Whatever fails, a call or return into the zone that finds another bank there
\* is a panel over a login door, a registration after the reload of WFC
\* failed, or one after a load that stopped half-way.
THEOREM StraysAreKnown ==
  Spec => []StraysKnown
BY AlwaysInv, PTL DEF Inv

\* wfc.ovl_wfc_loaded is true only of a zone that holds WFC, the login doors
\* and a load that stopped half-way apart.
THEOREM FlagIsTrue ==
  Spec => []FlagTold
BY AlwaysInv, PTL DEF Inv

\* Code of an overlay or a door that runs is at $9700: what was loaded over it
\* is gone when the call returns.
THEOREM CodeAtHome ==
  Spec => []HomeInv
BY AlwaysInv, PTL DEF Inv

=============================================================================
