------------------------------- MODULE Locker -------------------------------
(***************************************************************************)
(* Deposit, pick-up and recycling of parcels: the Package table, the box    *)
(* flags of CBox, and the command handlers of CTranProDlg that change them. *)
(* Handlers run one after the other in the MessageFromFlash thread; the     *)
(* NetworkMonitor thread refreshes the box flags meanwhile, step by step.   *)
(* Devices and the database answer as they like, within a budget of faults. *)
(* Rows move to a history one by one, in transactions on a connection the   *)
(* two threads share; the program may be restarted between any two steps.   *)
(*                                                                         *)
(* The Flash movie, which is not part of the source, is the variable        *)
(* "screen": it sends the commands of a deposit, a pick-up or a recycling   *)
(* in the order their replies ask for, refreshes the cabinet status before  *)
(* it opens a door by size, and may fall back to the idle screen at any     *)
(* time.  The messages to the host are module-external; what matters here   *)
(* is whether the host accepted a deposit.                                  *)
(***************************************************************************)
EXTENDS Integers, FiniteSets

CONSTANTS BoxCountTotal,     \* number of boxes
          BoxSpec,           \* per box: 0 disabled, else the size
          Mails,             \* bar codes
          PWs,               \* pick-up codes
          OpenFailMax,       \* m_iOpenFailMaxTimes
          EmptyFailMax,      \* m_iEmptyFailMaxTimes
          MaxRetries,        \* repeated openings of one box in OpenDoorBySpecState, 3
          MaxFaults,         \* bound on faults of devices and of changing statements
          PostFailOpenDoor,  \* m_iIsPostFailOpenDoor
          QueryMayFail,      \* whether SELECT statements may fail
          Logins,            \* what the host may grant a postman: [overdue, available]
          Readings,          \* what the box sensors may read: box -> occupied
          Monitoring         \* whether NetworkMonitor runs

Box == 1 .. BoxCountTotal
NoBox == -1
NoMail == "none"

ASSUME LockerAssumption ==
  /\ BoxCountTotal \in Nat \ {0}
  /\ BoxSpec \in [Box -> 0 .. 5]
  /\ IsFiniteSet(Mails) /\ NoMail \notin Mails
  /\ IsFiniteSet(PWs) /\ Cardinality(PWs) >= BoxCountTotal
  /\ OpenFailMax \in Nat \ {0} /\ EmptyFailMax \in Nat \ {0}
  /\ MaxRetries \in Nat /\ MaxFaults \in Nat
  /\ {PostFailOpenDoor, QueryMayFail, Monitoring} \subseteq BOOLEAN
  /\ Logins \subseteq [overdue : SUBSET Box, available : SUBSET Box]
  /\ Readings \subseteq [Box -> BOOLEAN]

Modes == {"NONE", "POST", "POSTMAN_TAKE", "TAKE", "POST_CANCEL", "MANAGER_TAKE",
          "OPENDOOR_TEST"}
TakeModes == {"TAKE", "MANAGER_TAKE", "POSTMAN_TAKE"}
Row == [box : Box, mail : Mails, pw : PWs]
Insert == [table : {"none", "pickuphistory", "recycle"}, rows : SUBSET [box : Box, mail : Mails]]
NoInsert == [table |-> "none", rows |-> {}]

VARIABLES
  package,               \* the Package table, as committed
  archived,              \* what UpdateDataToDB last committed to a history, and to which
  postmanTimeout,        \* HostTimeoutBox of the postman table
  localPackage, hostTimeout, hide, notEmpty, openFail, notEmptyFail, status, \* CBox
  m_iWorkMode, m_iLogicalCurrentBox, m_iCurrentOpenBox, m_barCode,
  screen,                \* the Flash movie
  cpc, size, tries,      \* the command's place; OpenDoorBySpecState: iSpec, iOpenDoorCount
  left, moving, failed,  \* UpdateDataToDB: mails still to move, the one whose transaction is
                         \* open, ~bAllSucceed
  mpc, updating,         \* NetworkMonitor's place in UpdateBoxStatus; m_iIsUpdateingBoxStatus
  deposit,               \* history: the mail scanned for this deposit
  occupied,              \* history: ConfirmDepositState met a row for its box
  entrusted,             \* history: mails deposited and not entered in a history since
  foreign,               \* history: the monitor committed a transaction of this thread
  faults                 \* faults so far

tables == <<package, archived, postmanTimeout>>
flags  == <<localPackage, hostTimeout, hide, notEmpty, openFail, notEmptyFail, status>>
trans  == <<m_iWorkMode, m_iLogicalCurrentBox, m_iCurrentOpenBox, m_barCode>>
update == <<left, moving, failed>>
loop   == <<cpc, size, tries, update>>
mon    == <<mpc, updating>>
records == <<entrusted, foreign>>
hist   == <<deposit, occupied, faults, records>>
vars == <<tables, flags, trans, screen, loop, mon, hist>>

NoFlags == [b \in Box |-> FALSE]
NoFailures == [b \in Box |-> 0]
FirstStatus == [b \in Box |-> IF BoxSpec[b] = 0 THEN 3 ELSE 0]

Init ==
  /\ package = {} /\ archived = NoInsert /\ postmanTimeout = {}
  /\ localPackage = NoFlags /\ hostTimeout = NoFlags /\ hide = NoFlags /\ notEmpty = NoFlags
  /\ openFail = NoFailures /\ notEmptyFail = NoFailures
  /\ status = FirstStatus
  /\ m_iWorkMode = "NONE" /\ m_iLogicalCurrentBox = NoBox /\ m_iCurrentOpenBox = NoBox
  /\ m_barCode = NoMail
  /\ screen = "idle"
  /\ cpc = "ready" /\ size = 0 /\ tries = 0
  /\ left = {} /\ moving = NoMail /\ failed = FALSE
  /\ mpc = "wait" /\ updating = FALSE
  /\ deposit = NoMail /\ occupied = FALSE /\ faults = 0
  /\ entrusted = {} /\ foreign = FALSE

RowsOf(b) == {r \in package : r.box = b}
Fault == faults < MaxFaults /\ faults' = faults + 1
Bounded(n, max) == IF n < max THEN n ELSE max   \* counters matter up to their limit

(* The DELETE of UpdateDataToDB goes by mail number.  A SELECT on the       *)
(* connection sees it before it is committed.                               *)
Without(m) == {r \in package : r.mail # m}
Visible == IF cpc = "commit" THEN Without(moving) ELSE package

(* A SELECT: its result, or nothing when the statement fails.               *)
Query(rows, result) == result = rows \/ (QueryMayFail /\ result = {})

-----------------------------------------------------------------------------
(* CBox.                                                                    *)

OutOfOrder(b, ne) ==
  ne[b] \/ notEmptyFail[b] >= EmptyFailMax \/ openFail[b] >= OpenFailMax

UpdateStatus_SensorOnly(lp, ne) ==
  [b \in Box |-> IF BoxSpec[b] = 0 \/ OutOfOrder(b, ne) THEN 3
                 ELSE IF lp[b] /\ hostTimeout[b] THEN 1 ELSE 0]

(* The overall status of every box, given the local-package flags and the   *)
(* sensors: 0 empty, 1 overdue, 2 holds a parcel, 3 out of order.           *)
UpdateStatus(lp, ne) ==
  [b \in Box |-> IF BoxSpec[b] = 0 THEN 3
                 ELSE IF lp[b] THEN (IF hostTimeout[b] THEN 1 ELSE 2)
                 ELSE IF OutOfOrder(b, ne) THEN 3 ELSE 0]

(* GetClassifyBoxID picks one of these at random.                           *)
GetClassifyBoxID(wanted, spec) ==
  {b \in Box : status[b] = wanted /\ BoxSpec[b] = spec /\ ~hide[b]}

(* UpdateLocalPackageStatus: the flags are cleared and then set from the    *)
(* Package table.                                                           *)
Filled(rows) == [b \in Box |-> \E r \in rows : r.box = b]

-----------------------------------------------------------------------------
(* UpdateBoxStatus in the command thread: skipped when the monitor is at it.*)
UpdateBoxStatus ==
  \/ /\ updating
     /\ UNCHANGED flags
  \/ /\ ~updating
     /\ notEmpty' \in Readings
     /\ \E rows \in {package, {}} :
          /\ Query(package, rows)
          /\ localPackage' = Filled(rows)
          /\ status' = UpdateStatus(Filled(rows), notEmpty')
     /\ UNCHANGED <<hostTimeout, hide, openFail, notEmptyFail>>

(* UpdateBoxStatus in the NetworkMonitor thread, which begins it when the   *)
(* terminal is idle.                                                        *)
MonitorBegins ==
  /\ Monitoring /\ mpc = "wait" /\ screen = "idle"
  /\ updating' = TRUE /\ mpc' = "sensors"
  /\ UNCHANGED <<tables, flags, trans, screen, loop, hist>>

MonitorReadsSensors ==
  /\ mpc = "sensors"
  /\ notEmpty' \in Readings
  /\ mpc' = "clear"
  /\ UNCHANGED <<tables, localPackage, hostTimeout, hide, openFail, notEmptyFail, status,
                 trans, screen, loop, updating, hist>>

MonitorClears ==
  /\ mpc = "clear"
  /\ localPackage' = [b \in Box |-> FALSE]
  /\ mpc' = "load"
  /\ UNCHANGED <<tables, hostTimeout, hide, notEmpty, openFail, notEmptyFail, status,
                 trans, screen, loop, updating, hist>>

MonitorLoads ==
  /\ mpc = "load"
  /\ \E rows \in {Visible, {}} :
       /\ Query(Visible, rows)
       /\ localPackage' = [b \in Box |-> localPackage[b] \/ Filled(rows)[b]]
  /\ mpc' = "status"
  /\ UNCHANGED <<tables, hostTimeout, hide, notEmpty, openFail, notEmptyFail, status,
                 trans, screen, loop, updating, hist>>

MonitorEnds ==
  /\ mpc = "status"
  /\ status' = UpdateStatus(localPackage, notEmpty)
  /\ updating' = FALSE /\ mpc' = "wait"
  /\ UNCHANGED <<tables, localPackage, hostTimeout, hide, notEmpty, openFail, notEmptyFail,
                 trans, screen, loop, hist>>

-----------------------------------------------------------------------------
(* OpenDoorByIDState(b) in a work mode: what its outcomes do.  The callers  *)
(* add the reply and their own variables, hide included.                    *)

SelectRows_OneTable(mode, b) ==
  /\ left' = {r.mail : r \in RowsOf(b)} /\ failed' = FALSE
  /\ archived' = [table |-> "pickuphistory", rows |-> {}]
  /\ cpc' = "insert"
  /\ UNCHANGED <<hide, faults>>

(* UpdateDataToDB begins: the rows of the box are read.  When the SELECT    *)
(* fails the box is hidden, and nothing else happens.                       *)
SelectRows(mode, b) ==
  \/ /\ left' = {r.mail : r \in RowsOf(b)} /\ failed' = FALSE
     /\ archived' = [table |-> IF mode = "POSTMAN_TAKE" THEN "recycle" ELSE "pickuphistory",
                     rows |-> {}]
     /\ cpc' = "insert"
     /\ UNCHANGED <<hide, faults>>
  \/ /\ Fault \/ (QueryMayFail /\ UNCHANGED faults)
     /\ hide' = [hide EXCEPT ![b] = TRUE]
     /\ cpc' = "ready"
     /\ UNCHANGED <<left, failed, archived>>

(* Only a box with a row can be opened for a take, and the row's mail       *)
(* number is loaded then (LoadPackageByBoxIDFromDB).                        *)
CanOpen(mode, b) ==
  IF mode \in TakeModes THEN \E r \in RowsOf(b) : m_barCode' = r.mail
  ELSE UNCHANGED m_barCode

(* The lists are text, and a longer number that ends with the digits of b   *)
(* is damaged too (module Postmen has the details).                         *)
UpdateTimeoutBoxToPostman(b) ==
  postmanTimeout' \in IF \E n \in postmanTimeout : n > b /\ n % 10 = b % 10
                     THEN SUBSET Box ELSE {postmanTimeout \ {b}}

(* The door opens, and UpdateDataToDB follows a take.                       *)
DoorOpens(mode, b) ==
  /\ CanOpen(mode, b)
  /\ m_iWorkMode' = mode /\ m_iLogicalCurrentBox' = b
  /\ openFail' = [openFail EXCEPT ![b] = 0]
  /\ localPackage' = [localPackage EXCEPT ![b] = FALSE]
  /\ hostTimeout' = [hostTimeout EXCEPT ![b] = FALSE]
  /\ UpdateTimeoutBoxToPostman(b)
  /\ \/ mode \in TakeModes /\ SelectRows(mode, b)
     \/ /\ mode \notin TakeModes /\ cpc' = "ready"
        /\ UNCHANGED <<left, failed, archived, hide, faults>>
  /\ UNCHANGED <<package, moving, notEmpty, notEmptyFail, status, records>>

(* The lock does not open, or the take has no row; then the current box     *)
(* stays the one the caller had chosen.                                     *)
DoorStaysShut(mode, b, chosen) ==
  /\ m_iWorkMode' = mode
  /\ \/ /\ Fault /\ CanOpen(mode, b)
        /\ m_iLogicalCurrentBox' = b
        /\ openFail' = [openFail EXCEPT ![b] = Bounded(@ + 1, OpenFailMax)]
     \/ /\ mode \in TakeModes /\ (RowsOf(b) = {} \/ QueryMayFail)
        /\ m_iLogicalCurrentBox' = chosen
        /\ UNCHANGED <<m_barCode, openFail, faults>>
  /\ UNCHANGED <<tables, localPackage, notEmpty, notEmptyFail, status>>

-----------------------------------------------------------------------------
(* UpdateDataToDB, row by row: INSERT into the history, DELETE by mail      *)
(* number, Commit.                                                          *)

InsertRow(m) ==
  /\ cpc = "insert" /\ m \in left
  /\ left' = left \ {m}
  /\ \/ moving' = m /\ cpc' = "delete" /\ UNCHANGED <<failed, faults>>
     \/ Fault /\ failed' = TRUE /\ UNCHANGED <<moving, cpc>>
  /\ UNCHANGED <<tables, flags, trans, screen, size, tries, mon, deposit, occupied, records>>

(* A DELETE that fails is followed by Rollback.                             *)
DeletePackage ==
  /\ cpc = "delete"
  /\ \/ cpc' = "commit" /\ UNCHANGED <<moving, failed, faults>>
     \/ Fault /\ failed' = TRUE /\ moving' = NoMail /\ cpc' = "insert"
  /\ UNCHANGED <<tables, flags, trans, screen, size, tries, left, mon, deposit, occupied,
                 records>>

(* What is committed of the open transaction.                               *)
InsertIsKept ==
  /\ archived' = [archived EXCEPT
       !.rows = @ \cup {[box |-> m_iLogicalCurrentBox, mail |-> moving]}]
  /\ entrusted' = entrusted \ {moving}

DeleteIsKept_ByBox == package' = package \ RowsOf(m_iLogicalCurrentBox)

DeleteIsKept == package' = Without(moving)

(* Nobody looks at the result of Commit.                                    *)
CommitRow ==
  /\ cpc = "commit"
  /\ \/ InsertIsKept /\ DeleteIsKept /\ UNCHANGED faults
     \/ Fault /\ UNCHANGED <<package, archived, entrusted>>
  /\ moving' = NoMail /\ cpc' = "insert"
  /\ UNCHANGED <<postmanTimeout, flags, trans, screen, size, tries, left, failed, mon, deposit,
                 occupied, foreign>>

(* Every row has been tried; a failure hides the box.                       *)
EndUpdate ==
  /\ cpc = "insert" /\ left = {}
  /\ hide' = IF failed THEN [hide EXCEPT ![m_iLogicalCurrentBox] = TRUE] ELSE hide
  /\ cpc' = "ready"
  /\ UNCHANGED <<tables, localPackage, hostTimeout, notEmpty, openFail, notEmptyFail, status,
                 trans, screen, size, tries, update, mon, hist>>

(* NetworkMonitor commits its own statements in TransactionQueue, on the    *)
(* same connection: what this thread has done so far is kept.               *)
MonitorCommits ==
  /\ Monitoring /\ mpc = "wait" /\ cpc \in {"delete", "commit"}
  /\ InsertIsKept
  /\ IF cpc = "commit" THEN DeleteIsKept ELSE UNCHANGED package
  /\ foreign' = TRUE
  /\ UNCHANGED <<postmanTimeout, flags, trans, screen, loop, mon, deposit, occupied, faults>>

(* Power failure, reboot or exit: what was not committed is undone.         *)
Restart ==
  /\ localPackage' = NoFlags /\ hostTimeout' = NoFlags /\ hide' = NoFlags
  /\ notEmpty' = NoFlags /\ openFail' = NoFailures /\ notEmptyFail' = NoFailures
  /\ status' = FirstStatus
  /\ m_iWorkMode' = "NONE" /\ m_iLogicalCurrentBox' = NoBox /\ m_iCurrentOpenBox' = NoBox
  /\ m_barCode' = NoMail
  /\ screen' = "idle"
  /\ cpc' = "ready" /\ size' = 0 /\ tries' = 0
  /\ left' = {} /\ moving' = NoMail /\ failed' = FALSE
  /\ mpc' = "wait" /\ updating' = FALSE
  /\ deposit' = NoMail
  /\ UNCHANGED <<tables, occupied, faults, records>>

-----------------------------------------------------------------------------
(* The commands.  Ready: the command thread is between two commands.        *)
Ready(s) == cpc = "ready" /\ screen = s

Idle ==
  /\ cpc = "ready" /\ screen # "idle"
  /\ hide' = [b \in Box |-> FALSE]
  /\ m_iWorkMode' = "NONE"
  /\ m_iLogicalCurrentBox' = NoBox /\ m_iCurrentOpenBox' = NoBox
  /\ screen' = "idle" /\ deposit' = NoMail
  /\ UNCHANGED <<tables, localPackage, hostTimeout, notEmpty, openFail, notEmptyFail,
                 status, m_barCode, loop, mon, occupied, faults, records>>

MainMenu ==
  /\ Ready("idle")
  /\ screen' = "menu"
  /\ UNCHANGED <<tables, flags, trans, loop, mon, hist>>

(* PostmanLoginState, successful: the host's list of overdue boxes replaces *)
(* the stored one when the log-in was online; only the boxes the host gave  *)
(* this postman stay visible.                                               *)
PostmanLogin(overdue, available) ==
  /\ Ready("menu")
  /\ postmanTimeout' = overdue
  /\ hostTimeout' = [b \in Box |-> b \in overdue]
  /\ hide' = [b \in Box |-> b \notin available \cup overdue]
  /\ screen' = "postman"
  /\ UNCHANGED <<package, archived, localPackage, notEmpty, openFail,
                 notEmptyFail, status, trans, loop, mon, hist>>

ManageCommands ==
  /\ Ready("menu")
  /\ screen' = "admin"
  /\ UNCHANGED <<tables, flags, trans, loop, mon, hist>>

(* ExecFunc_BarCode and ExecFunc_BarCodeCompleted: a parcel that is in the  *)
(* Package table already is refused.                                        *)
CheckMailNo_Skipped(m) == FALSE

CheckMailNo(m) == \E r \in package : r.mail = m

BarCode_GoesOn(m) ==
  /\ Ready("postman")
  /\ m_iLogicalCurrentBox' = NoBox
  /\ \/ /\ ~CheckMailNo(m) \/ QueryMayFail
        /\ m_barCode' = m /\ deposit' = m
        /\ screen' = "scanned"
     \/ /\ CheckMailNo(m)
        /\ m_barCode' = NoMail /\ deposit' = NoMail
        /\ screen' = "scanned"
  /\ UNCHANGED <<tables, flags, m_iWorkMode, m_iCurrentOpenBox, loop, mon, occupied, faults,
                 records>>

BarCode(m) ==
  /\ Ready("postman")
  /\ m_iLogicalCurrentBox' = NoBox
  /\ \/ /\ ~CheckMailNo(m) \/ QueryMayFail
        /\ m_barCode' = m /\ deposit' = m
        /\ screen' = "scanned"
     \/ /\ CheckMailNo(m)
        /\ m_barCode' = NoMail /\ deposit' = NoMail
        /\ UNCHANGED screen
  /\ UNCHANGED <<tables, flags, m_iWorkMode, m_iCurrentOpenBox, loop, mon, occupied, faults,
                 records>>

(* The open-door check saw a door open (or none).                           *)
CheckOpenDoor(b) ==
  /\ Ready("scanned")
  /\ m_iCurrentOpenBox' = b
  /\ UNCHANGED <<tables, flags, m_iWorkMode, m_iLogicalCurrentBox, m_barCode, screen, loop,
                 mon, hist>>

(* ExecFunc_GetCabinetStatus, then ExecFunc_OpenDoor by size.               *)
OpenDoorBySpec(mode, spec) ==
  /\ \/ mode = "POST" /\ Ready("scanned")
     \/ mode = "POSTMAN_TAKE" /\ Ready("postman")
  /\ UpdateBoxStatus
  /\ m_iWorkMode' = mode
  /\ cpc' = "spec" /\ size' = spec /\ tries' = 0
  /\ UNCHANGED <<tables, m_iLogicalCurrentBox, m_iCurrentOpenBox, m_barCode, screen, update, mon,
                 hist>>

Wanted == IF m_iWorkMode = "POST" THEN 0 ELSE 1

PickBox ==
  IF /\ m_iCurrentOpenBox \in Box
     /\ BoxSpec[m_iCurrentOpenBox] = size /\ status[m_iCurrentOpenBox] = Wanted
  THEN {m_iCurrentOpenBox}
  ELSE GetClassifyBoxID(Wanted, size)

(* One turn of OpenDoorBySpecState: a box that does not open is tried again *)
(* a few times and then hidden.                                             *)
SpecOpens(b) ==
  /\ cpc = "spec" /\ b \in PickBox
  /\ DoorOpens(m_iWorkMode, b)
  /\ screen' = IF m_iWorkMode = "POST" THEN "opened" ELSE "recycling"
  /\ UNCHANGED <<m_iCurrentOpenBox, size, tries, mon, deposit, occupied>>

SpecFails(b) ==
  /\ cpc = "spec" /\ b \in PickBox
  /\ DoorStaysShut(m_iWorkMode, b, b)
  /\ IF tries < MaxRetries
     THEN tries' = tries + 1 /\ m_iCurrentOpenBox' = b /\ UNCHANGED hide
     ELSE tries' = 0 /\ m_iCurrentOpenBox' = NoBox /\ hide' = [hide EXCEPT ![b] = TRUE]
  /\ UNCHANGED <<hostTimeout, cpc, size, update, screen, mon, deposit, occupied, records>>

(* No box of the size is left: the reply is 02.                             *)
SpecNoBox ==
  /\ cpc = "spec" /\ PickBox = {}
  /\ cpc' = "ready"
  /\ UNCHANGED <<tables, flags, trans, screen, size, tries, update, mon, hist>>

(* The closing thread found the door closed.  After a deposit it reports    *)
(* whether the sensor feels the parcel; without one the postman opens a     *)
(* box again.                                                               *)
CloseDoor(felt) ==
  /\ cpc = "ready" /\ screen \in {"opened", "recycling", "returning", "taking", "managing"}
  /\ m_iCurrentOpenBox' = NoBox
  /\ notEmptyFail' = IF screen = "opened" /\ felt
                     THEN [notEmptyFail EXCEPT ![m_iLogicalCurrentBox] = 0] ELSE notEmptyFail
  /\ screen' = CASE screen = "opened"                 -> IF felt THEN "closed" ELSE "scanned"
                 [] screen \in {"recycling", "returning"} -> "postman"
                 [] screen = "taking"                 -> "menu"
                 [] OTHER                             -> "admin"
  /\ UNCHANGED <<tables, localPackage, hostTimeout, hide, notEmpty, openFail, status,
                 m_iWorkMode, m_iLogicalCurrentBox, m_barCode, loop, mon, hist>>

(* ConfirmDepositState.  Its replies: 01 done, 00 failed, open the box.     *)
Occupied(b) == RowsOf(b) # {}

FreshPW(pw) == QueryMayFail \/ \A r \in package : r.pw # pw

ConfirmDeposit(felt) ==
  /\ Ready("closed")
  /\ LET b == m_iLogicalCurrentBox IN
     /\ notEmptyFail' = IF felt THEN notEmptyFail
                        ELSE [notEmptyFail EXCEPT ![b] = Bounded(@ + 1, EmptyFailMax)]
     /\ \/ /\ Occupied(b)
           /\ \E r \in RowsOf(b) : m_barCode' = r.mail
           /\ occupied' = TRUE
           /\ screen' = "refused"
           /\ UNCHANGED <<package, localPackage, hostTimeout, entrusted, faults>>
        \/ /\ ~Occupied(b) \/ QueryMayFail
           /\ Fault
           /\ screen' = "refused"
           /\ UNCHANGED <<package, localPackage, hostTimeout, m_barCode, entrusted, occupied>>
        \/ /\ ~Occupied(b) \/ QueryMayFail
           /\ \E pw \in PWs : FreshPW(pw)
                /\ package' = package \cup {[box |-> b, mail |-> m_barCode, pw |-> pw]}
           /\ entrusted' = entrusted \cup {m_barCode}
           /\ localPackage' = [localPackage EXCEPT ![b] = TRUE]
           /\ hostTimeout' = [hostTimeout EXCEPT ![b] = FALSE]
           /\ \/ screen' = "postman"
              \/ PostFailOpenDoor /\ screen' = "refused"
           /\ UNCHANGED <<m_barCode, occupied, faults>>
  /\ UNCHANGED <<archived, postmanTimeout, hide, notEmpty, openFail, status,
                 m_iWorkMode, m_iLogicalCurrentBox, m_iCurrentOpenBox, loop, mon, deposit,
                 foreign>>

-----------------------------------------------------------------------------
(* ExecFunc_OpenDoor by box number.                                         *)

OpenDoorByID(from, to, mode, b) ==
  /\ Ready(from)
  /\ \/ DoorOpens(mode, b) /\ screen' = to
     \/ /\ DoorStaysShut(mode, b, m_iLogicalCurrentBox)
        /\ UNCHANGED <<screen, hostTimeout, hide, cpc, update, records>>
  /\ UNCHANGED <<m_iCurrentOpenBox, size, tries, mon, deposit, occupied>>

(* The parcel of a failed deposit is given back.                            *)
ReturnParcel ==
  OpenDoorByID("refused", "returning", "POST_CANCEL", m_iLogicalCurrentBox)

(* ExecFunc_CheckPackagePW: the row of a pick-up code.                      *)
CheckPackagePW(pw) ==
  /\ Ready("menu")
  /\ \E r \in package :
       /\ r.pw = pw
       /\ m_iLogicalCurrentBox' = r.box /\ m_barCode' = r.mail
  /\ screen' = "verified"
  /\ UNCHANGED <<tables, flags, m_iWorkMode, m_iCurrentOpenBox, loop, mon, hist>>

TakeParcel == OpenDoorByID("verified", "taking", "TAKE", m_iLogicalCurrentBox)

ManagerTake(b) == OpenDoorByID("admin", "managing", "MANAGER_TAKE", b)

(* Opening a box as a test is refused when the flag says it holds a parcel. *)
OpenDoorTest(b) ==
  /\ ~localPackage[b]
  /\ OpenDoorByID("admin", "managing", "OPENDOOR_TEST", b)

(* The retry of a recycling: the box no longer counts as overdue.           *)
OpenDoorOnce(b) ==
  /\ Ready("postman") /\ m_iWorkMode = "POSTMAN_TAKE" /\ m_iLogicalCurrentBox = b
  /\ \/ DoorOpens(m_iWorkMode, b) /\ screen' = "recycling"
     \/ /\ DoorStaysShut(m_iWorkMode, b, m_iLogicalCurrentBox)
        /\ hostTimeout' = [hostTimeout EXCEPT ![b] = FALSE]
        /\ UNCHANGED <<screen, hide, cpc, update, records>>
  /\ UNCHANGED <<m_iCurrentOpenBox, size, tries, mon, deposit, occupied>>

FixBox ==
  /\ Ready("admin")
  /\ notEmptyFail' = [b \in Box |-> 0] /\ openFail' = [b \in Box |-> 0]
  /\ UNCHANGED <<tables, localPackage, hostTimeout, hide, notEmpty, status, trans, screen,
                 loop, mon, hist>>

-----------------------------------------------------------------------------
Monitor ==
  \/ MonitorBegins \/ MonitorReadsSensors \/ MonitorClears \/ MonitorLoads \/ MonitorEnds
  \/ MonitorCommits

UpdateDataToDB ==
  \/ \E m \in Mails : InsertRow(m)
  \/ DeletePackage \/ CommitRow \/ EndUpdate

Sizes == {BoxSpec[b] : b \in Box} \ {0}

Next ==
  \/ Monitor \/ UpdateDataToDB \/ Restart
  \/ Idle \/ MainMenu \/ ManageCommands \/ FixBox
  \/ \E l \in Logins : PostmanLogin(l.overdue, l.available)
  \/ \E m \in Mails : BarCode(m)
  \/ \E b \in Box \cup {NoBox} : CheckOpenDoor(b)
  \/ \E mode \in {"POST", "POSTMAN_TAKE"}, spec \in Sizes : OpenDoorBySpec(mode, spec)
  \/ SpecNoBox
  \/ \E felt \in BOOLEAN : CloseDoor(felt) \/ ConfirmDeposit(felt)
  \/ \E b \in Box : \/ SpecOpens(b) \/ SpecFails(b)
                    \/ ManagerTake(b) \/ OpenDoorTest(b) \/ OpenDoorOnce(b)
  \/ ReturnParcel \/ TakeParcel
  \/ \E pw \in PWs : CheckPackagePW(pw)

Spec == Init /\ [][Next]_vars

-----------------------------------------------------------------------------
Screens == {"idle", "menu", "postman", "admin", "scanned", "opened", "closed", "refused",
            "returning", "recycling", "verified", "taking", "managing"}

TypeOK ==
  /\ package \subseteq Row
  /\ archived \in Insert
  /\ postmanTimeout \subseteq Box
  /\ {localPackage, hostTimeout, hide, notEmpty} \subseteq [Box -> BOOLEAN]
  /\ openFail \in [Box -> 0 .. OpenFailMax] /\ notEmptyFail \in [Box -> 0 .. EmptyFailMax]
  /\ status \in [Box -> 0 .. 3]
  /\ m_iWorkMode \in Modes
  /\ m_iLogicalCurrentBox \in Box \cup {NoBox} /\ m_iCurrentOpenBox \in Box \cup {NoBox}
  /\ m_barCode \in Mails \cup {NoMail}
  /\ screen \in Screens
  /\ cpc \in {"ready", "spec", "insert", "delete", "commit"}
  /\ size \in 0 .. 5 /\ tries \in 0 .. MaxRetries
  /\ left \subseteq Mails /\ moving \in Mails \cup {NoMail} /\ failed \in BOOLEAN
  /\ mpc \in {"wait", "sensors", "clear", "load", "status"} /\ updating \in BOOLEAN
  /\ entrusted \subseteq Mails /\ foreign \in BOOLEAN
  /\ deposit \in Mails \cup {NoMail} /\ occupied \in BOOLEAN /\ faults \in 0 .. MaxFaults

(* No box is recorded to hold two parcels, no parcel to lie in two boxes,   *)
(* and a pick-up code opens one box only.                                   *)
PackageKeys ==
  \A r, q \in package :
    r # q => r.box # q.box /\ r.mail # q.mail /\ r.pw # q.pw

(* "Impossible, surely!!" says the comment in ConfirmDepositState on a      *)
(* deposit into a box that has a row.                                       *)
DepositFindsFreeBox == ~occupied

(* A row leaves the Package table only when its own box is opened for a     *)
(* take, and then it is kept in the history of that take.                   *)
RowsLeaveByTaking ==
  [][\A r \in package \ package' :
       /\ m_iWorkMode' \in TakeModes /\ m_iLogicalCurrentBox' = r.box
       /\ [box |-> r.box, mail |-> r.mail] \in archived'.rows
       /\ archived'.table = (IF m_iWorkMode' = "POSTMAN_TAKE" THEN "recycle" ELSE "pickuphistory")]_vars

(* Whatever statement fails, whenever the program is restarted and whoever  *)
(* commits: a parcel that was deposited and is in no history since has a    *)
(* row, so none drops out of the records.  And unless the monitor committed *)
(* a transaction half-way, a parcel is not in a history and in the Package  *)
(* table at once.                                                           *)
NothingForgotten ==
  /\ entrusted \subseteq {r.mail : r \in package}
  /\ foreign \/ {r.mail : r \in package} \subseteq entrusted
=============================================================================
