---------------------------- MODULE LockerProofs ----------------------------
(***************************************************************************)
(* Proofs about Locker, for any cabinet, any parcels and any faults: the    *)
(* types, the keys of the Package table, the free box a deposit finds, and  *)
(* what becomes of the rows that leave the table.  The records of a parcel  *)
(* (LedgerInv) are kept by every step on their own.                         *)
(*                                                                         *)
(* The keys and the free box need more than themselves.  That a deposit     *)
(* adds no second row for its parcel rests on a check made when the bar     *)
(* code was scanned, three screens earlier (KeyInv); that its box has no    *)
(* row rests on the status the box had when it was picked, which speaks of  *)
(* the table only while nobody else refreshes the statuses (FreeInv).       *)
(***************************************************************************)
EXTENDS Locker, TLAPS

Scanned == {"scanned", "opened", "closed"}          \* a bar code has been accepted
Chosen == {"opened", "closed", "refused", "verified"} \* the current box is known

Moving == {"insert", "delete", "commit"}            \* inside UpdateDataToDB
TableOf(mode) == IF mode = "POSTMAN_TAKE" THEN "recycle" ELSE "pickuphistory"

(* What the screens and the loop of OpenDoorBySpecState say of the members. *)
PlaceInv ==
  /\ screen \in Scanned => m_barCode \in Mails
  /\ screen \in Chosen => m_iLogicalCurrentBox \in Box
  /\ cpc = "spec" => \/ m_iWorkMode = "POST" /\ screen = "scanned"
                     \/ m_iWorkMode = "POSTMAN_TAKE" /\ screen = "postman"

(* UpdateDataToDB runs on the screens of an opened take, and knows its box, *)
(* its history and the mail it is at.                                       *)
MoveInv ==
  /\ cpc \in Moving => /\ screen \in {"recycling", "taking", "managing"}
                      /\ m_iWorkMode \in TakeModes /\ m_iLogicalCurrentBox \in Box
                      /\ archived.table = TableOf(m_iWorkMode)
  /\ cpc \in {"delete", "commit"} => moving \in Mails

TypeInv == TypeOK /\ PlaceInv /\ MoveInv

(* The mails UpdateDataToDB has still to delete are of the opened box.      *)
OwnRows ==
  cpc \in Moving => \A r \in package :
    (r.mail \in left \/ (cpc # "insert" /\ r.mail = moving)) => r.box = m_iLogicalCurrentBox

(* As long as no SELECT fails, a parcel that was scanned is not in the      *)
(* table until its deposit is confirmed ...                                 *)
KeyInv ==
  QueryMayFail \/ (PackageKeys /\ OwnRows /\ (screen \in Scanned => ~CheckMailNo(m_barCode)))

(* ... and, when nobody else refreshes the flags, neither is anything in    *)
(* the box that was chosen by its status.                                   *)
FreeInv == QueryMayFail \/ Monitoring \/
  /\ mpc = "wait" /\ updating = FALSE /\ ~occupied
  /\ cpc = "spec" /\ m_iWorkMode = "POST" => \A b \in Box : status[b] = 0 => RowsOf(b) = {}
  /\ screen \in {"opened", "closed"} => RowsOf(m_iLogicalCurrentBox) = {}

(* The records, whatever fails.                                             *)
LedgerInv == NothingForgotten

IInv == TypeInv /\ KeyInv /\ FreeInv /\ LedgerInv
-----------------------------------------------------------------------------
(* The types, one by one.                                                   *)
TablesOK == package \subseteq Row /\ archived \in Insert /\ postmanTimeout \subseteq Box
FlagsOK ==
  /\ localPackage \in [Box -> BOOLEAN] /\ hostTimeout \in [Box -> BOOLEAN]
  /\ hide \in [Box -> BOOLEAN] /\ notEmpty \in [Box -> BOOLEAN]
CountersOK ==
  /\ openFail \in [Box -> 0 .. OpenFailMax] /\ notEmptyFail \in [Box -> 0 .. EmptyFailMax]
StatusOK == status \in [Box -> 0 .. 3]
MembersOK ==
  /\ m_iWorkMode \in Modes
  /\ m_iLogicalCurrentBox \in Box \cup {NoBox} /\ m_iCurrentOpenBox \in Box \cup {NoBox}
  /\ m_barCode \in Mails \cup {NoMail}
LoopOK ==
  /\ screen \in Screens
  /\ cpc \in {"ready", "spec", "insert", "delete", "commit"}
  /\ size \in 0 .. 5 /\ tries \in 0 .. MaxRetries
  /\ mpc \in {"wait", "sensors", "clear", "load", "status"} /\ updating \in BOOLEAN
UpdateOK == left \subseteq Mails /\ moving \in Mails \cup {NoMail} /\ failed \in BOOLEAN
HistoryOK ==
  /\ entrusted \subseteq Mails /\ foreign \in BOOLEAN
  /\ deposit \in Mails \cup {NoMail} /\ occupied \in BOOLEAN /\ faults \in 0 .. MaxFaults

(* TypeOK, in these parts.                                                  *)
LEMMA TypeParts ==
  /\ TypeInv <=> /\ TablesOK /\ FlagsOK /\ CountersOK /\ StatusOK /\ MembersOK /\ LoopOK
                 /\ UpdateOK /\ HistoryOK /\ PlaceInv /\ MoveInv
  /\ TypeInv' <=> /\ TablesOK' /\ FlagsOK' /\ CountersOK' /\ StatusOK' /\ MembersOK' /\ LoopOK'
                  /\ UpdateOK' /\ HistoryOK' /\ PlaceInv' /\ MoveInv'
  BY DEF TypeInv, TypeOK, TablesOK, FlagsOK, CountersOK, StatusOK, MembersOK, LoopOK, UpdateOK,
     HistoryOK

(* What is committed of an open transaction is one more row of the history. *)
LEMMA RowKept ==
  ASSUME TypeInv, cpc \in {"delete", "commit"}, InsertIsKept
  PROVE  /\ m_iLogicalCurrentBox \in Box /\ moving \in Mails
         /\ archived' \in Insert /\ archived'.table = archived.table
         /\ [box |-> m_iLogicalCurrentBox, mail |-> moving] \in archived'.rows
<1>1. m_iLogicalCurrentBox \in Box /\ moving \in Mails
  BY TypeParts DEF MoveInv, Moving
<1>2. archived \in Insert
  BY TypeParts DEF TablesOK
<1> DEFINE n == [box |-> m_iLogicalCurrentBox, mail |-> moving]
<1>3. archived' = [archived EXCEPT !.rows = @ \cup {n}]
  BY DEF InsertIsKept
<1>4. n \in [box : Box, mail : Mails]
  BY <1>1
<1> HIDE DEF n
<1>5. archived' \in Insert /\ archived'.table = archived.table /\ n \in archived'.rows
  BY <1>2, <1>3, <1>4 DEF Insert
<1> QED
  BY <1>1, <1>5 DEF n

(* The status of a box is one of four, whatever the flags are.              *)
LEMMA StatusRange ==
  ASSUME NEW lp, NEW ne PROVE UpdateStatus(lp, ne) \in [Box -> 0 .. 3]
  BY DEF UpdateStatus

(* A counter that is bounded stays within its bound.                        *)
LEMMA BoundedRange ==
  ASSUME NEW max \in Nat \ {0}, NEW n \in 0 .. max PROVE Bounded(n + 1, max) \in 0 .. max
  BY DEF Bounded

(* The tables hold rows of boxes and parcels; a deposit adds a row for the  *)
(* box and the bar code that the closed screen stands for.                  *)
LEMMA TablesOKStep ==
  ASSUME TypeInv, [Next]_vars
  PROVE  TablesOK'
<1> USE TypeParts, LockerAssumption, StatusRange, BoundedRange DEF TablesOK, Row, Insert,
   tables, flags, trans, loop, mon, hist, update, records, Ready
<1>0. ASSUME NEW b, UpdateTimeoutBoxToPostman(b) PROVE postmanTimeout' \subseteq Box
  BY <1>0 DEF UpdateTimeoutBoxToPostman
<1>1. CASE Monitor
  <2>1. CASE MonitorCommits
    BY <2>1, RowKept DEF MonitorCommits, DeleteIsKept, Without
  <2> QED
    BY <1>1, <2>1 DEF Monitor, MonitorBegins, MonitorReadsSensors, MonitorClears, MonitorLoads,
       MonitorEnds
<1>2. CASE Idle \/ MainMenu \/ ManageCommands \/ FixBox \/ SpecNoBox
  BY <1>2 DEF Idle, MainMenu, ManageCommands, FixBox, SpecNoBox
<1>3. ASSUME NEW l \in Logins, PostmanLogin(l.overdue, l.available) PROVE TablesOK'
  BY <1>3 DEF PostmanLogin
<1>4. ASSUME NEW m \in Mails, BarCode(m) PROVE TablesOK'
  BY <1>4 DEF BarCode, CheckMailNo
<1>5. ASSUME NEW b \in Box \cup {NoBox}, CheckOpenDoor(b) PROVE TablesOK'
  BY <1>5 DEF CheckOpenDoor
<1>6. ASSUME NEW mode \in {"POST", "POSTMAN_TAKE"}, NEW spec \in Sizes, OpenDoorBySpec(mode, spec)
      PROVE  TablesOK'
  BY <1>6 DEF OpenDoorBySpec, UpdateBoxStatus, Query, Filled, Sizes
<1>7. ASSUME NEW felt \in BOOLEAN, CloseDoor(felt) PROVE TablesOK'
  BY <1>7 DEF CloseDoor
<1>8. ASSUME NEW felt \in BOOLEAN, ConfirmDeposit(felt) PROVE TablesOK'
  <2>1. m_iLogicalCurrentBox \in Box /\ m_barCode \in Mails
    BY <1>8 DEF ConfirmDeposit, PlaceInv, Chosen, Scanned
  <2>2. archived' = archived /\ postmanTimeout' = postmanTimeout
    BY <1>8 DEF ConfirmDeposit
  <2>3. \/ package' = package
        \/ \E pw \in PWs : package' = package \cup
             {[box |-> m_iLogicalCurrentBox, mail |-> m_barCode, pw |-> pw]}
    BY <1>8 DEF ConfirmDeposit
  <2> QED
    BY <2>1, <2>2, <2>3
<1>9. ASSUME NEW b \in Box, SpecOpens(b) \/ SpecFails(b) PROVE TablesOK'
  BY <1>0, <1>9 DEF SpecOpens, DoorOpens, CanOpen, SelectRows, RowsOf, Fault, SpecFails,
     DoorStaysShut
<1>10. ASSUME NEW b \in Box, ManagerTake(b) \/ OpenDoorTest(b) \/ OpenDoorOnce(b)
       PROVE  TablesOK'
  BY <1>0, <1>10 DEF ManagerTake, OpenDoorByID, DoorOpens, DoorStaysShut, CanOpen, SelectRows,
     RowsOf, Fault, OpenDoorTest, OpenDoorOnce
<1>11. CASE ReturnParcel \/ TakeParcel
  BY <1>0, <1>11 DEF ReturnParcel, OpenDoorByID, DoorOpens, DoorStaysShut, CanOpen, SelectRows,
     RowsOf, Fault, TakeParcel
<1>12. ASSUME NEW pw \in PWs, CheckPackagePW(pw) PROVE TablesOK'
  BY <1>12 DEF CheckPackagePW
<1>13. CASE UNCHANGED vars
  BY <1>13 DEF vars
<1>14. CASE UpdateDataToDB
  <2>1. ASSUME NEW m \in Mails, InsertRow(m) PROVE TablesOK'
    BY <2>1 DEF InsertRow, Fault
  <2>2. CASE DeletePackage
    BY <2>2 DEF DeletePackage, Fault
  <2>3. CASE CommitRow
    BY <2>3, RowKept DEF CommitRow, DeleteIsKept, Without, Fault
  <2>4. CASE EndUpdate
    BY <2>4 DEF EndUpdate
  <2> QED
    BY <1>14, <2>1, <2>2, <2>3, <2>4 DEF UpdateDataToDB
<1>15. CASE Restart
  BY <1>15 DEF Restart, NoFlags, NoFailures, FirstStatus
<1> QED
  BY <1>1, <1>2, <1>3, <1>4, <1>5, <1>6, <1>7, <1>8, <1>9, <1>10, <1>11, <1>12, <1>13,
     <1>14, <1>15 DEF Next

(* The flags of the boxes stay Boolean, one per box.                        *)
LEMMA FlagsOKStep ==
  ASSUME TypeInv, [Next]_vars
  PROVE  FlagsOK'
<1> USE TypeParts, LockerAssumption, StatusRange, BoundedRange DEF FlagsOK, tables, flags,
   trans, loop, mon, hist, update, records, Ready
<1>1. CASE Monitor
  BY <1>1 DEF Monitor, MonitorBegins, MonitorReadsSensors, MonitorClears, MonitorLoads, Query,
     Filled, MonitorEnds,
     MonitorCommits, InsertIsKept, DeleteIsKept, Visible, Without
<1>2. CASE Idle \/ MainMenu \/ ManageCommands \/ FixBox \/ SpecNoBox
  BY <1>2 DEF Idle, MainMenu, ManageCommands, FixBox, SpecNoBox
<1>3. ASSUME NEW l \in Logins, PostmanLogin(l.overdue, l.available) PROVE FlagsOK'
  BY <1>3 DEF PostmanLogin
<1>4. ASSUME NEW m \in Mails, BarCode(m) PROVE FlagsOK'
  BY <1>4 DEF BarCode, CheckMailNo
<1>5. ASSUME NEW b \in Box \cup {NoBox}, CheckOpenDoor(b) PROVE FlagsOK'
  BY <1>5 DEF CheckOpenDoor
<1>6. ASSUME NEW mode \in {"POST", "POSTMAN_TAKE"}, NEW spec \in Sizes, OpenDoorBySpec(mode, spec)
      PROVE  FlagsOK'
  BY <1>6 DEF OpenDoorBySpec, UpdateBoxStatus, Query, Filled, Sizes
<1>7. ASSUME NEW felt \in BOOLEAN, CloseDoor(felt) PROVE FlagsOK'
  BY <1>7 DEF CloseDoor
<1>8. ASSUME NEW felt \in BOOLEAN, ConfirmDeposit(felt) PROVE FlagsOK'
  BY <1>8 DEF ConfirmDeposit, Occupied, FreshPW, Fault, RowsOf
<1>9. ASSUME NEW b \in Box, SpecOpens(b) \/ SpecFails(b) PROVE FlagsOK'
  BY <1>9 DEF SpecOpens, DoorOpens, CanOpen, SelectRows, RowsOf, Fault, SpecFails,
     DoorStaysShut
<1>10. ASSUME NEW b \in Box, ManagerTake(b) \/ OpenDoorTest(b) \/ OpenDoorOnce(b) PROVE FlagsOK'
  BY <1>10 DEF ManagerTake, OpenDoorByID, DoorOpens, DoorStaysShut, CanOpen, SelectRows,
     RowsOf, Fault, OpenDoorTest, OpenDoorOnce
<1>11. CASE ReturnParcel \/ TakeParcel
  BY <1>11 DEF ReturnParcel, OpenDoorByID, DoorOpens, DoorStaysShut, CanOpen, SelectRows,
     RowsOf, Fault, TakeParcel
<1>12. ASSUME NEW pw \in PWs, CheckPackagePW(pw) PROVE FlagsOK'
  BY <1>12 DEF CheckPackagePW
<1>13. CASE UNCHANGED vars
  BY <1>13 DEF vars
<1>14. CASE UpdateDataToDB
  <2>1. ASSUME NEW m \in Mails, InsertRow(m) PROVE FlagsOK'
    BY <2>1 DEF InsertRow, Fault
  <2>2. CASE DeletePackage
    BY <2>2 DEF DeletePackage, Fault
  <2>3. CASE CommitRow
    BY <2>3 DEF CommitRow, InsertIsKept, DeleteIsKept, Without, Fault
  <2>4. CASE EndUpdate
    BY <2>4 DEF EndUpdate
  <2> QED
    BY <1>14, <2>1, <2>2, <2>3, <2>4 DEF UpdateDataToDB
<1>15. CASE Restart
  BY <1>15 DEF Restart, NoFlags, NoFailures, FirstStatus
<1> QED
  BY <1>1, <1>2, <1>3, <1>4, <1>5, <1>6, <1>7, <1>8, <1>9, <1>10, <1>11, <1>12, <1>13,
     <1>14, <1>15 DEF Next

(* The failure counters stay within their limits.                           *)
LEMMA CountersOKStep ==
  ASSUME TypeInv, [Next]_vars
  PROVE  CountersOK'
<1> USE TypeParts, LockerAssumption, StatusRange, BoundedRange DEF CountersOK, tables, flags,
   trans, loop, mon, hist, update, records, Ready
<1>1. CASE Monitor
  BY <1>1 DEF Monitor, MonitorBegins, MonitorReadsSensors, MonitorClears, MonitorLoads, Query,
     Filled, MonitorEnds,
     MonitorCommits, InsertIsKept, DeleteIsKept, Visible, Without
<1>2. CASE Idle \/ MainMenu \/ ManageCommands \/ FixBox \/ SpecNoBox
  BY <1>2 DEF Idle, MainMenu, ManageCommands, FixBox, SpecNoBox
<1>3. ASSUME NEW l \in Logins, PostmanLogin(l.overdue, l.available) PROVE CountersOK'
  BY <1>3 DEF PostmanLogin
<1>4. ASSUME NEW m \in Mails, BarCode(m) PROVE CountersOK'
  BY <1>4 DEF BarCode, CheckMailNo
<1>5. ASSUME NEW b \in Box \cup {NoBox}, CheckOpenDoor(b) PROVE CountersOK'
  BY <1>5 DEF CheckOpenDoor
<1>6. ASSUME NEW mode \in {"POST", "POSTMAN_TAKE"}, NEW spec \in Sizes, OpenDoorBySpec(mode, spec)
      PROVE  CountersOK'
  BY <1>6 DEF OpenDoorBySpec, UpdateBoxStatus, Query, Filled, Sizes
<1>7. ASSUME NEW felt \in BOOLEAN, CloseDoor(felt) PROVE CountersOK'
  <2>1. openFail' = openFail
    BY <1>7 DEF CloseDoor
  <2>2. CASE screen = "opened" /\ felt
    <3>1. m_iLogicalCurrentBox \in Box
      BY <2>2 DEF PlaceInv, Chosen
    <3>2. notEmptyFail' = [notEmptyFail EXCEPT ![m_iLogicalCurrentBox] = 0]
      BY <1>7, <2>2 DEF CloseDoor
    <3> QED
      BY <2>1, <3>1, <3>2
  <2>3. CASE ~(screen = "opened" /\ felt)
    <3>1. notEmptyFail' = notEmptyFail
      BY <1>7, <2>3 DEF CloseDoor
    <3> QED
      BY <2>1, <3>1
  <2> QED
    BY <2>2, <2>3
<1>8. ASSUME NEW felt \in BOOLEAN, ConfirmDeposit(felt) PROVE CountersOK'
  BY <1>8 DEF ConfirmDeposit, Occupied, FreshPW, Fault, RowsOf
<1>9. ASSUME NEW b \in Box, SpecOpens(b) \/ SpecFails(b) PROVE CountersOK'
  BY <1>9 DEF SpecOpens, DoorOpens, CanOpen, SelectRows, RowsOf, Fault, SpecFails,
     DoorStaysShut
<1>10. ASSUME NEW b \in Box, ManagerTake(b) \/ OpenDoorTest(b) \/ OpenDoorOnce(b)
       PROVE  CountersOK'
  BY <1>10 DEF ManagerTake, OpenDoorByID, DoorOpens, DoorStaysShut, CanOpen, SelectRows,
     RowsOf, Fault, OpenDoorTest, OpenDoorOnce
<1>11. CASE ReturnParcel \/ TakeParcel
  BY <1>11 DEF ReturnParcel, OpenDoorByID, DoorOpens, DoorStaysShut, CanOpen, SelectRows,
     RowsOf, Fault, TakeParcel
<1>12. ASSUME NEW pw \in PWs, CheckPackagePW(pw) PROVE CountersOK'
  BY <1>12 DEF CheckPackagePW
<1>13. CASE UNCHANGED vars
  BY <1>13 DEF vars
<1>14. CASE UpdateDataToDB
  <2>1. ASSUME NEW m \in Mails, InsertRow(m) PROVE CountersOK'
    BY <2>1 DEF InsertRow, Fault
  <2>2. CASE DeletePackage
    BY <2>2 DEF DeletePackage, Fault
  <2>3. CASE CommitRow
    BY <2>3 DEF CommitRow, InsertIsKept, DeleteIsKept, Without, Fault
  <2>4. CASE EndUpdate
    BY <2>4 DEF EndUpdate
  <2> QED
    BY <1>14, <2>1, <2>2, <2>3, <2>4 DEF UpdateDataToDB
<1>15. CASE Restart
  BY <1>15 DEF Restart, NoFlags, NoFailures, FirstStatus
<1> QED
  BY <1>1, <1>2, <1>3, <1>4, <1>5, <1>6, <1>7, <1>8, <1>9, <1>10, <1>11, <1>12, <1>13,
     <1>14, <1>15 DEF Next

(* The statuses are those UpdateStatus computes.                            *)
LEMMA StatusOKStep ==
  ASSUME TypeInv, [Next]_vars
  PROVE  StatusOK'
<1> USE TypeParts, LockerAssumption, StatusRange, BoundedRange DEF StatusOK, tables, flags,
   trans, loop, mon, hist, update, records, Ready
<1>1. CASE Monitor
  BY <1>1 DEF Monitor, MonitorBegins, MonitorReadsSensors, MonitorClears, MonitorLoads, Query,
     Filled, MonitorEnds,
     MonitorCommits, InsertIsKept, DeleteIsKept, Visible, Without
<1>2. CASE Idle \/ MainMenu \/ ManageCommands \/ FixBox \/ SpecNoBox
  BY <1>2 DEF Idle, MainMenu, ManageCommands, FixBox, SpecNoBox
<1>3. ASSUME NEW l \in Logins, PostmanLogin(l.overdue, l.available) PROVE StatusOK'
  BY <1>3 DEF PostmanLogin
<1>4. ASSUME NEW m \in Mails, BarCode(m) PROVE StatusOK'
  BY <1>4 DEF BarCode, CheckMailNo
<1>5. ASSUME NEW b \in Box \cup {NoBox}, CheckOpenDoor(b) PROVE StatusOK'
  BY <1>5 DEF CheckOpenDoor
<1>6. ASSUME NEW mode \in {"POST", "POSTMAN_TAKE"}, NEW spec \in Sizes, OpenDoorBySpec(mode, spec)
      PROVE  StatusOK'
  BY <1>6 DEF OpenDoorBySpec, UpdateBoxStatus, Query, Filled, Sizes
<1>7. ASSUME NEW felt \in BOOLEAN, CloseDoor(felt) PROVE StatusOK'
  BY <1>7 DEF CloseDoor
<1>8. ASSUME NEW felt \in BOOLEAN, ConfirmDeposit(felt) PROVE StatusOK'
  BY <1>8 DEF ConfirmDeposit, Occupied, FreshPW, Fault, RowsOf
<1>9. ASSUME NEW b \in Box, SpecOpens(b) \/ SpecFails(b) PROVE StatusOK'
  BY <1>9 DEF SpecOpens, DoorOpens, CanOpen, SelectRows, RowsOf, Fault, SpecFails,
     DoorStaysShut
<1>10. ASSUME NEW b \in Box, ManagerTake(b) \/ OpenDoorTest(b) \/ OpenDoorOnce(b)
       PROVE  StatusOK'
  BY <1>10 DEF ManagerTake, OpenDoorByID, DoorOpens, DoorStaysShut, CanOpen, SelectRows,
     RowsOf, Fault, OpenDoorTest, OpenDoorOnce
<1>11. CASE ReturnParcel \/ TakeParcel
  BY <1>11 DEF ReturnParcel, OpenDoorByID, DoorOpens, DoorStaysShut, CanOpen, SelectRows,
     RowsOf, Fault, TakeParcel
<1>12. ASSUME NEW pw \in PWs, CheckPackagePW(pw) PROVE StatusOK'
  BY <1>12 DEF CheckPackagePW
<1>13. CASE UNCHANGED vars
  BY <1>13 DEF vars
<1>14. CASE UpdateDataToDB
  <2>1. ASSUME NEW m \in Mails, InsertRow(m) PROVE StatusOK'
    BY <2>1 DEF InsertRow, Fault
  <2>2. CASE DeletePackage
    BY <2>2 DEF DeletePackage, Fault
  <2>3. CASE CommitRow
    BY <2>3 DEF CommitRow, InsertIsKept, DeleteIsKept, Without, Fault
  <2>4. CASE EndUpdate
    BY <2>4 DEF EndUpdate
  <2> QED
    BY <1>14, <2>1, <2>2, <2>3, <2>4 DEF UpdateDataToDB
<1>15. CASE Restart
  BY <1>15 DEF Restart, NoFlags, NoFailures, FirstStatus
<1> QED
  BY <1>1, <1>2, <1>3, <1>4, <1>5, <1>6, <1>7, <1>8, <1>9, <1>10, <1>11, <1>12, <1>13,
     <1>14, <1>15 DEF Next

(* Work mode, current box, open box and bar code.                           *)
LEMMA MembersOKStep ==
  ASSUME TypeInv, [Next]_vars
  PROVE  MembersOK'
<1> USE TypeParts, LockerAssumption, StatusRange, BoundedRange DEF MembersOK, Modes,
   TakeModes, Row, TablesOK, tables, flags, trans, loop, mon, hist, update, records, Ready
<1>1. CASE Monitor
  BY <1>1 DEF Monitor, MonitorBegins, MonitorReadsSensors, MonitorClears, MonitorLoads, Query,
     Filled, MonitorEnds,
     MonitorCommits, InsertIsKept, DeleteIsKept, Visible, Without
<1>2. CASE Idle \/ MainMenu \/ ManageCommands \/ FixBox \/ SpecNoBox
  BY <1>2 DEF Idle, MainMenu, ManageCommands, FixBox, SpecNoBox
<1>3. ASSUME NEW l \in Logins, PostmanLogin(l.overdue, l.available) PROVE MembersOK'
  BY <1>3 DEF PostmanLogin
<1>4. ASSUME NEW m \in Mails, BarCode(m) PROVE MembersOK'
  BY <1>4 DEF BarCode, CheckMailNo
<1>5. ASSUME NEW b \in Box \cup {NoBox}, CheckOpenDoor(b) PROVE MembersOK'
  BY <1>5 DEF CheckOpenDoor
<1>6. ASSUME NEW mode \in {"POST", "POSTMAN_TAKE"}, NEW spec \in Sizes, OpenDoorBySpec(mode, spec)
      PROVE  MembersOK'
  BY <1>6 DEF OpenDoorBySpec, UpdateBoxStatus, Query, Filled, Sizes
<1>7. ASSUME NEW felt \in BOOLEAN, CloseDoor(felt) PROVE MembersOK'
  BY <1>7 DEF CloseDoor
<1>8. ASSUME NEW felt \in BOOLEAN, ConfirmDeposit(felt) PROVE MembersOK'
  BY <1>8 DEF ConfirmDeposit, Occupied, FreshPW, Fault, RowsOf
<1>9. ASSUME NEW b \in Box, SpecOpens(b) \/ SpecFails(b) PROVE MembersOK'
  BY <1>9 DEF SpecOpens, DoorOpens, CanOpen, SelectRows, RowsOf, Fault, SpecFails,
     DoorStaysShut
<1>10. ASSUME NEW b \in Box, ManagerTake(b) \/ OpenDoorTest(b) \/ OpenDoorOnce(b)
       PROVE  MembersOK'
  BY <1>10 DEF ManagerTake, OpenDoorByID, DoorOpens, DoorStaysShut, CanOpen, SelectRows,
     RowsOf, Fault, OpenDoorTest, OpenDoorOnce
<1>11. CASE ReturnParcel \/ TakeParcel
  BY <1>11 DEF ReturnParcel, OpenDoorByID, DoorOpens, DoorStaysShut, CanOpen, SelectRows,
     RowsOf, Fault, TakeParcel
<1>12. ASSUME NEW pw \in PWs, CheckPackagePW(pw) PROVE MembersOK'
  BY <1>12 DEF CheckPackagePW
<1>13. CASE UNCHANGED vars
  BY <1>13 DEF vars
<1>14. CASE UpdateDataToDB
  <2>1. ASSUME NEW m \in Mails, InsertRow(m) PROVE MembersOK'
    BY <2>1 DEF InsertRow, Fault
  <2>2. CASE DeletePackage
    BY <2>2 DEF DeletePackage, Fault
  <2>3. CASE CommitRow
    BY <2>3 DEF CommitRow, InsertIsKept, DeleteIsKept, Without, Fault
  <2>4. CASE EndUpdate
    BY <2>4 DEF EndUpdate
  <2> QED
    BY <1>14, <2>1, <2>2, <2>3, <2>4 DEF UpdateDataToDB
<1>15. CASE Restart
  BY <1>15 DEF Restart, NoFlags, NoFailures, FirstStatus
<1> QED
  BY <1>1, <1>2, <1>3, <1>4, <1>5, <1>6, <1>7, <1>8, <1>9, <1>10, <1>11, <1>12, <1>13,
     <1>14, <1>15 DEF Next

(* The screen, the loop over the boxes and the monitor's place.             *)
LEMMA LoopOKStep ==
  ASSUME TypeInv, [Next]_vars
  PROVE  LoopOK'
<1> USE TypeParts, LockerAssumption, StatusRange, BoundedRange DEF LoopOK, Screens, tables,
   flags, trans, loop, mon, hist, update, records, Ready
<1>1. CASE Monitor
  <2>1. CASE MonitorBegins
    BY <2>1 DEF MonitorBegins
  <2>2. CASE MonitorReadsSensors \/ MonitorClears
    BY <2>2 DEF MonitorReadsSensors, MonitorClears
  <2>3. CASE MonitorLoads
    BY <2>3 DEF MonitorLoads
  <2>4. CASE MonitorEnds
    BY <2>4 DEF MonitorEnds
  <2>5. CASE MonitorCommits
    BY <2>5 DEF MonitorCommits
  <2> QED
    BY <1>1, <2>1, <2>2, <2>3, <2>4, <2>5 DEF Monitor
<1>2. CASE Idle \/ MainMenu \/ ManageCommands \/ FixBox \/ SpecNoBox
  BY <1>2 DEF Idle, MainMenu, ManageCommands, FixBox, SpecNoBox
<1>3. ASSUME NEW l \in Logins, PostmanLogin(l.overdue, l.available) PROVE LoopOK'
  BY <1>3 DEF PostmanLogin
<1>4. ASSUME NEW m \in Mails, BarCode(m) PROVE LoopOK'
  BY <1>4 DEF BarCode, CheckMailNo
<1>5. ASSUME NEW b \in Box \cup {NoBox}, CheckOpenDoor(b) PROVE LoopOK'
  BY <1>5 DEF CheckOpenDoor
<1>6. ASSUME NEW mode \in {"POST", "POSTMAN_TAKE"}, NEW spec \in Sizes, OpenDoorBySpec(mode, spec)
      PROVE  LoopOK'
  BY <1>6 DEF OpenDoorBySpec, UpdateBoxStatus, Query, Filled, Sizes
<1>7. ASSUME NEW felt \in BOOLEAN, CloseDoor(felt) PROVE LoopOK'
  BY <1>7 DEF CloseDoor
<1>8. ASSUME NEW felt \in BOOLEAN, ConfirmDeposit(felt) PROVE LoopOK'
  BY <1>8 DEF ConfirmDeposit, Occupied, FreshPW, Fault, RowsOf
<1>9. ASSUME NEW b \in Box, SpecOpens(b) \/ SpecFails(b) PROVE LoopOK'
  BY <1>9 DEF SpecOpens, DoorOpens, CanOpen, SelectRows, RowsOf, Fault, SpecFails,
     DoorStaysShut
<1>10. ASSUME NEW b \in Box, ManagerTake(b) \/ OpenDoorTest(b) \/ OpenDoorOnce(b) PROVE LoopOK'
  BY <1>10 DEF ManagerTake, OpenDoorByID, DoorOpens, DoorStaysShut, CanOpen, SelectRows,
     RowsOf, Fault, OpenDoorTest, OpenDoorOnce
<1>11. CASE ReturnParcel \/ TakeParcel
  BY <1>11 DEF ReturnParcel, OpenDoorByID, DoorOpens, DoorStaysShut, CanOpen, SelectRows,
     RowsOf, Fault, TakeParcel
<1>12. ASSUME NEW pw \in PWs, CheckPackagePW(pw) PROVE LoopOK'
  BY <1>12 DEF CheckPackagePW
<1>13. CASE UNCHANGED vars
  BY <1>13 DEF vars
<1>14. CASE UpdateDataToDB
  <2>1. ASSUME NEW m \in Mails, InsertRow(m) PROVE LoopOK'
    BY <2>1 DEF InsertRow, Fault
  <2>2. CASE DeletePackage
    BY <2>2 DEF DeletePackage, Fault
  <2>3. CASE CommitRow
    BY <2>3 DEF CommitRow, InsertIsKept, DeleteIsKept, Without, Fault
  <2>4. CASE EndUpdate
    BY <2>4 DEF EndUpdate
  <2> QED
    BY <1>14, <2>1, <2>2, <2>3, <2>4 DEF UpdateDataToDB
<1>15. CASE Restart
  <2>1. size' \in 0 .. 5 /\ tries' \in 0 .. MaxRetries
    BY <1>15 DEF Restart
  <2>2. screen' = "idle" /\ cpc' = "ready" /\ mpc' = "wait" /\ updating' = FALSE
    BY <1>15 DEF Restart
  <2>3. updating' \in BOOLEAN
    BY <2>2
  <2> QED
    BY <2>1, <2>2, <2>3, Zenon
<1> QED
  BY <1>1, <1>2, <1>3, <1>4, <1>5, <1>6, <1>7, <1>8, <1>9, <1>10, <1>11, <1>12, <1>13,
     <1>14, <1>15 DEF Next

(* A door that opens leaves mails of parcels to be moved.                   *)
LEMMA DoorReads ==
  ASSUME TypeInv, NEW mode, NEW b, DoorOpens(mode, b)
  PROVE  UpdateOK'
<1>1. UpdateOK /\ package \subseteq Row
  BY TypeParts DEF TablesOK
<1>2. \A r \in RowsOf(b) : r.mail \in Mails
  BY <1>1 DEF RowsOf, Row
<1>3. UNCHANGED moving
  BY DEF DoorOpens
<1>4. \/ UNCHANGED <<left, failed>>
      \/ left' = {r.mail : r \in RowsOf(b)} /\ failed' = FALSE
  BY DEF DoorOpens, SelectRows
<1> QED
  BY <1>1, <1>2, <1>3, <1>4 DEF UpdateOK

(* UpdateDataToDB is at mails of parcels.                                   *)
LEMMA UpdateOKStep ==
  ASSUME TypeInv, [Next]_vars
  PROVE  UpdateOK'
<1> USE TypeParts, LockerAssumption, StatusRange, BoundedRange DEF UpdateOK, TablesOK, Row, tables,
   flags, trans, loop, mon, hist, update, records, Ready
<1>1. CASE Monitor
  BY <1>1 DEF Monitor, MonitorBegins, MonitorReadsSensors, MonitorClears, MonitorLoads, Query,
     Filled, MonitorEnds,
     MonitorCommits, InsertIsKept, DeleteIsKept, Visible, Without
<1>2. CASE Idle \/ MainMenu \/ ManageCommands \/ FixBox \/ SpecNoBox
  BY <1>2 DEF Idle, MainMenu, ManageCommands, FixBox, SpecNoBox
<1>3. ASSUME NEW l \in Logins, PostmanLogin(l.overdue, l.available) PROVE UpdateOK'
  BY <1>3 DEF PostmanLogin
<1>4. ASSUME NEW m \in Mails, BarCode(m) PROVE UpdateOK'
  BY <1>4 DEF BarCode, CheckMailNo
<1>5. ASSUME NEW b \in Box \cup {NoBox}, CheckOpenDoor(b) PROVE UpdateOK'
  BY <1>5 DEF CheckOpenDoor
<1>6. ASSUME NEW mode \in {"POST", "POSTMAN_TAKE"}, NEW spec \in Sizes, OpenDoorBySpec(mode, spec)
      PROVE  UpdateOK'
  BY <1>6 DEF OpenDoorBySpec, UpdateBoxStatus, Query, Filled, Sizes
<1>7. ASSUME NEW felt \in BOOLEAN, CloseDoor(felt) PROVE UpdateOK'
  BY <1>7 DEF CloseDoor
<1>8. ASSUME NEW felt \in BOOLEAN, ConfirmDeposit(felt) PROVE UpdateOK'
  BY <1>8 DEF ConfirmDeposit, Occupied, FreshPW, Fault, RowsOf
<1>9. ASSUME NEW b \in Box, SpecOpens(b) \/ SpecFails(b) PROVE UpdateOK'
  <2>1. CASE SpecOpens(b)
    BY <2>1, DoorReads DEF SpecOpens
  <2>2. CASE SpecFails(b)
    BY <2>2 DEF SpecFails
  <2> QED
    BY <1>9, <2>1, <2>2
<1>10. ASSUME NEW b \in Box, ManagerTake(b) \/ OpenDoorTest(b) \/ OpenDoorOnce(b) PROVE UpdateOK'
  <2>1. CASE ManagerTake(b)
    BY <2>1, DoorReads DEF ManagerTake, OpenDoorByID
  <2>2. CASE OpenDoorTest(b) \/ OpenDoorOnce(b)
    BY <2>2, DoorReads DEF OpenDoorTest, OpenDoorOnce, OpenDoorByID
  <2> QED
    BY <1>10, <2>1, <2>2
<1>11. CASE ReturnParcel \/ TakeParcel
  BY <1>11, DoorReads DEF ReturnParcel, OpenDoorByID, TakeParcel
<1>12. ASSUME NEW pw \in PWs, CheckPackagePW(pw) PROVE UpdateOK'
  BY <1>12 DEF CheckPackagePW
<1>13. CASE UNCHANGED vars
  BY <1>13 DEF vars
<1>14. CASE UpdateDataToDB
  <2>1. ASSUME NEW m \in Mails, InsertRow(m) PROVE UpdateOK'
    BY <2>1 DEF InsertRow, Fault
  <2>2. CASE DeletePackage
    BY <2>2 DEF DeletePackage, Fault
  <2>3. CASE CommitRow
    BY <2>3 DEF CommitRow, InsertIsKept, DeleteIsKept, Without, Fault
  <2>4. CASE EndUpdate
    BY <2>4 DEF EndUpdate
  <2> QED
    BY <1>14, <2>1, <2>2, <2>3, <2>4 DEF UpdateDataToDB
<1>15. CASE Restart
  BY <1>15 DEF Restart, NoFlags, NoFailures, FirstStatus
<1> QED
  BY <1>1, <1>2, <1>3, <1>4, <1>5, <1>6, <1>7, <1>8, <1>9, <1>10, <1>11, <1>12, <1>13,
     <1>14, <1>15 DEF Next

(* The history variables and the budget of faults.                          *)
LEMMA HistoryOKStep ==
  ASSUME TypeInv, [Next]_vars
  PROVE  HistoryOK'
<1> USE TypeParts, LockerAssumption, StatusRange, BoundedRange DEF HistoryOK, tables, flags,
   trans, loop, mon, hist, update, records, Ready
<1>1. CASE Monitor
  BY <1>1 DEF Monitor, MonitorBegins, MonitorReadsSensors, MonitorClears, MonitorLoads, Query,
     Filled, MonitorEnds,
     MonitorCommits, InsertIsKept, DeleteIsKept, Visible, Without
<1>2. CASE Idle \/ MainMenu \/ ManageCommands \/ FixBox \/ SpecNoBox
  BY <1>2 DEF Idle, MainMenu, ManageCommands, FixBox, SpecNoBox
<1>3. ASSUME NEW l \in Logins, PostmanLogin(l.overdue, l.available) PROVE HistoryOK'
  BY <1>3 DEF PostmanLogin
<1>4. ASSUME NEW m \in Mails, BarCode(m) PROVE HistoryOK'
  BY <1>4 DEF BarCode, CheckMailNo
<1>5. ASSUME NEW b \in Box \cup {NoBox}, CheckOpenDoor(b) PROVE HistoryOK'
  BY <1>5 DEF CheckOpenDoor
<1>6. ASSUME NEW mode \in {"POST", "POSTMAN_TAKE"}, NEW spec \in Sizes, OpenDoorBySpec(mode, spec)
      PROVE  HistoryOK'
  BY <1>6 DEF OpenDoorBySpec, UpdateBoxStatus, Query, Filled, Sizes
<1>7. ASSUME NEW felt \in BOOLEAN, CloseDoor(felt) PROVE HistoryOK'
  BY <1>7 DEF CloseDoor
<1>8. ASSUME NEW felt \in BOOLEAN, ConfirmDeposit(felt) PROVE HistoryOK'
  <2>1. deposit' = deposit
    BY <1>8 DEF ConfirmDeposit
  <2>2. occupied' = TRUE \/ occupied' = occupied
    BY <1>8 DEF ConfirmDeposit
  <2>3. faults' = faults \/ (faults < MaxFaults /\ faults' = faults + 1)
    BY <1>8 DEF ConfirmDeposit, Fault
  <2>4. occupied' \in BOOLEAN
    BY <2>2
  <2>5. faults' \in 0 .. MaxFaults
    BY <2>3
  <2>6. entrusted' = entrusted \/ entrusted' = entrusted \cup {m_barCode}
    BY <1>8 DEF ConfirmDeposit
  <2>7. entrusted' \subseteq Mails
    BY <1>8, <2>6 DEF ConfirmDeposit, PlaceInv, Scanned
  <2>8. foreign' = foreign
    BY <1>8 DEF ConfirmDeposit
  <2> QED
    BY <2>1, <2>4, <2>5, <2>7, <2>8
<1>9. ASSUME NEW b \in Box, SpecOpens(b) \/ SpecFails(b) PROVE HistoryOK'
  BY <1>9 DEF SpecOpens, DoorOpens, CanOpen, SelectRows, RowsOf, Fault, SpecFails,
     DoorStaysShut
<1>10. ASSUME NEW b \in Box, ManagerTake(b) \/ OpenDoorTest(b) \/ OpenDoorOnce(b)
       PROVE  HistoryOK'
  BY <1>10 DEF ManagerTake, OpenDoorByID, DoorOpens, DoorStaysShut, CanOpen, SelectRows,
     RowsOf, Fault, OpenDoorTest, OpenDoorOnce
<1>11. CASE ReturnParcel \/ TakeParcel
  BY <1>11 DEF ReturnParcel, OpenDoorByID, DoorOpens, DoorStaysShut, CanOpen, SelectRows,
     RowsOf, Fault, TakeParcel
<1>12. ASSUME NEW pw \in PWs, CheckPackagePW(pw) PROVE HistoryOK'
  BY <1>12 DEF CheckPackagePW
<1>13. CASE UNCHANGED vars
  BY <1>13 DEF vars
<1>14. CASE UpdateDataToDB
  <2>1. ASSUME NEW m \in Mails, InsertRow(m) PROVE HistoryOK'
    BY <2>1 DEF InsertRow, Fault
  <2>2. CASE DeletePackage
    BY <2>2 DEF DeletePackage, Fault
  <2>3. CASE CommitRow
    BY <2>3 DEF CommitRow, InsertIsKept, DeleteIsKept, Without, Fault
  <2>4. CASE EndUpdate
    BY <2>4 DEF EndUpdate
  <2> QED
    BY <1>14, <2>1, <2>2, <2>3, <2>4 DEF UpdateDataToDB
<1>15. CASE Restart
  BY <1>15 DEF Restart, NoFlags, NoFailures, FirstStatus
<1> QED
  BY <1>1, <1>2, <1>3, <1>4, <1>5, <1>6, <1>7, <1>8, <1>9, <1>10, <1>11, <1>12, <1>13,
     <1>14, <1>15 DEF Next

(* A scanned bar code and a chosen box stay in the members for as long as   *)
(* the screen needs them; the loop over the boxes runs on its own screens.  *)
LEMMA PlaceInvStep ==
  ASSUME TypeInv, [Next]_vars
  PROVE  PlaceInv'
<1> USE TypeParts, LockerAssumption, StatusRange, BoundedRange DEF PlaceInv, Scanned, Chosen,
   TakeModes, Modes, Row, TablesOK, tables, flags, trans, loop, mon, hist, update, records, Ready
<1>1. CASE Monitor
  BY <1>1 DEF Monitor, MonitorBegins, MonitorReadsSensors, MonitorClears, MonitorLoads, Query,
     Filled, MonitorEnds,
     MonitorCommits, InsertIsKept, DeleteIsKept, Visible, Without
<1>2. CASE Idle \/ MainMenu \/ ManageCommands \/ FixBox \/ SpecNoBox
  BY <1>2 DEF Idle, MainMenu, ManageCommands, FixBox, SpecNoBox
<1>3. ASSUME NEW l \in Logins, PostmanLogin(l.overdue, l.available) PROVE PlaceInv'
  BY <1>3 DEF PostmanLogin
<1>4. ASSUME NEW m \in Mails, BarCode(m) PROVE PlaceInv'
  BY <1>4 DEF BarCode, CheckMailNo
<1>5. ASSUME NEW b \in Box \cup {NoBox}, CheckOpenDoor(b) PROVE PlaceInv'
  BY <1>5 DEF CheckOpenDoor
<1>6. ASSUME NEW mode \in {"POST", "POSTMAN_TAKE"}, NEW spec \in Sizes, OpenDoorBySpec(mode, spec)
      PROVE  PlaceInv'
  BY <1>6 DEF OpenDoorBySpec, UpdateBoxStatus, Query, Filled, Sizes
<1>7. ASSUME NEW felt \in BOOLEAN, CloseDoor(felt) PROVE PlaceInv'
  BY <1>7 DEF CloseDoor
<1>8. ASSUME NEW felt \in BOOLEAN, ConfirmDeposit(felt) PROVE PlaceInv'
  BY <1>8 DEF ConfirmDeposit, Occupied, FreshPW, Fault, RowsOf
<1>9. ASSUME NEW b \in Box, SpecOpens(b) \/ SpecFails(b) PROVE PlaceInv'
  BY <1>9 DEF SpecOpens, DoorOpens, CanOpen, SelectRows, RowsOf, Fault, SpecFails,
     DoorStaysShut
<1>10. ASSUME NEW b \in Box, ManagerTake(b) \/ OpenDoorTest(b) \/ OpenDoorOnce(b)
       PROVE  PlaceInv'
  BY <1>10 DEF ManagerTake, OpenDoorByID, DoorOpens, DoorStaysShut, CanOpen, SelectRows,
     RowsOf, Fault, OpenDoorTest, OpenDoorOnce
<1>11. CASE ReturnParcel \/ TakeParcel
  BY <1>11 DEF ReturnParcel, OpenDoorByID, DoorOpens, DoorStaysShut, CanOpen, SelectRows,
     RowsOf, Fault, TakeParcel
<1>12. ASSUME NEW pw \in PWs, CheckPackagePW(pw) PROVE PlaceInv'
  BY <1>12 DEF CheckPackagePW
<1>13. CASE UNCHANGED vars
  BY <1>13 DEF vars
<1>14. CASE UpdateDataToDB
  <2>1. ASSUME NEW m \in Mails, InsertRow(m) PROVE PlaceInv'
    BY <2>1 DEF InsertRow, Fault
  <2>2. CASE DeletePackage
    BY <2>2 DEF DeletePackage, Fault
  <2>3. CASE CommitRow
    BY <2>3 DEF CommitRow, InsertIsKept, DeleteIsKept, Without, Fault
  <2>4. CASE EndUpdate
    BY <2>4 DEF EndUpdate
  <2> QED
    BY <1>14, <2>1, <2>2, <2>3, <2>4 DEF UpdateDataToDB
<1>15. CASE Restart
  BY <1>15 DEF Restart, NoFlags, NoFailures, FirstStatus
<1> QED
  BY <1>1, <1>2, <1>3, <1>4, <1>5, <1>6, <1>7, <1>8, <1>9, <1>10, <1>11, <1>12, <1>13,
     <1>14, <1>15 DEF Next

(* UpdateDataToDB keeps its box and its history to the end.                 *)
LEMMA MoveInvStep ==
  ASSUME TypeInv, [Next]_vars
  PROVE  MoveInv'
<1> USE TypeParts, LockerAssumption DEF MoveInv, Moving, tables, flags, trans, loop, mon, hist,
   update, records, Ready
<1>0. ASSUME NEW mode, NEW b \in Box, DoorOpens(mode, b),
             mode \in TakeModes => screen' \in {"recycling", "taking", "managing"}
      PROVE  MoveInv'
  <2>1. m_iWorkMode' = mode /\ m_iLogicalCurrentBox' = b
    BY <1>0 DEF DoorOpens
  <2>2. CASE cpc' = "ready"
    BY <2>2
  <2>3. CASE mode \in TakeModes /\ cpc' = "insert" /\ archived'.table = TableOf(mode)
    BY <1>0, <2>1, <2>3
  <2> QED
    BY <1>0, <2>2, <2>3 DEF DoorOpens, SelectRows, TableOf
<1>1. CASE Monitor
  <2>1. CASE MonitorCommits
    <3>1. /\ UNCHANGED <<screen, cpc, moving, m_iWorkMode, m_iLogicalCurrentBox>>
          /\ cpc \in {"delete", "commit"} /\ InsertIsKept
      BY <2>1 DEF MonitorCommits
    <3>2. archived'.table = archived.table
      BY <3>1, RowKept
    <3> QED
      BY <3>1, <3>2 DEF TableOf
  <2> QED
    BY <1>1, <2>1 DEF Monitor, MonitorBegins, MonitorReadsSensors, MonitorClears, MonitorLoads,
       MonitorEnds, TableOf
<1>2. CASE Idle \/ MainMenu \/ ManageCommands \/ FixBox \/ SpecNoBox
  BY <1>2 DEF Idle, MainMenu, ManageCommands, FixBox, SpecNoBox
<1>3. ASSUME NEW l \in Logins, PostmanLogin(l.overdue, l.available) PROVE MoveInv'
  BY <1>3 DEF PostmanLogin
<1>4. ASSUME NEW m \in Mails, BarCode(m) PROVE MoveInv'
  BY <1>4 DEF BarCode
<1>5. ASSUME NEW b \in Box \cup {NoBox}, CheckOpenDoor(b) PROVE MoveInv'
  BY <1>5 DEF CheckOpenDoor
<1>6. ASSUME NEW mode \in {"POST", "POSTMAN_TAKE"}, NEW spec \in Sizes, OpenDoorBySpec(mode, spec)
      PROVE  MoveInv'
  BY <1>6 DEF OpenDoorBySpec
<1>7. ASSUME NEW felt \in BOOLEAN, CloseDoor(felt) PROVE MoveInv'
  BY <1>7 DEF CloseDoor
<1>8. ASSUME NEW felt \in BOOLEAN, ConfirmDeposit(felt) PROVE MoveInv'
  BY <1>8 DEF ConfirmDeposit
<1>9. ASSUME NEW b \in Box, SpecOpens(b) \/ SpecFails(b) PROVE MoveInv'
  <2>1. CASE SpecOpens(b)
    BY <1>0, <2>1 DEF SpecOpens, PlaceInv, TakeModes
  <2>2. CASE SpecFails(b)
    BY <2>2 DEF SpecFails
  <2> QED
    BY <1>9, <2>1, <2>2
<1>10. ASSUME NEW b \in Box, ManagerTake(b) \/ OpenDoorTest(b) \/ OpenDoorOnce(b)
       PROVE  MoveInv'
  BY <1>0, <1>10 DEF ManagerTake, OpenDoorByID, OpenDoorTest, OpenDoorOnce
<1>11. CASE ReturnParcel \/ TakeParcel
  BY <1>0, <1>11 DEF ReturnParcel, OpenDoorByID, TakeParcel, PlaceInv, Chosen, TakeModes
<1>12. ASSUME NEW pw \in PWs, CheckPackagePW(pw) PROVE MoveInv'
  BY <1>12 DEF CheckPackagePW
<1>13. CASE UNCHANGED vars
  BY <1>13 DEF vars, TableOf
<1>14. CASE UpdateDataToDB
  <2>1. ASSUME NEW m \in Mails, InsertRow(m) PROVE MoveInv'
    BY <2>1 DEF InsertRow, TableOf
  <2>2. CASE DeletePackage
    BY <2>2 DEF DeletePackage, TableOf
  <2>3. CASE CommitRow
    <3>1. /\ UNCHANGED <<screen, m_iWorkMode, m_iLogicalCurrentBox>>
          /\ cpc = "commit" /\ cpc' = "insert" /\ (InsertIsKept \/ archived' = archived)
      BY <2>3 DEF CommitRow
    <3>2. archived'.table = archived.table
      BY <3>1, RowKept
    <3> QED
      BY <3>1, <3>2 DEF TableOf
  <2>4. CASE EndUpdate
    BY <2>4 DEF EndUpdate
  <2> QED
    BY <1>14, <2>1, <2>2, <2>3, <2>4 DEF UpdateDataToDB
<1>15. CASE Restart
  BY <1>15 DEF Restart
<1> QED
  BY <1>1, <1>2, <1>3, <1>4, <1>5, <1>6, <1>7, <1>8, <1>9, <1>10, <1>11, <1>12, <1>13,
     <1>14, <1>15 DEF Next

(* The deposit is recorded: its box had no row as far as the terminal could *)
(* see, and the pick-up code is new.                                        *)
Deposited ==
  /\ screen = "closed" /\ screen' \in {"postman", "refused"} /\ cpc' = "ready"
  /\ ~Occupied(m_iLogicalCurrentBox) \/ QueryMayFail
  /\ \E pw \in PWs :
       /\ FreshPW(pw)
       /\ package' = package \cup {[box |-> m_iLogicalCurrentBox, mail |-> m_barCode, pw |-> pw]}
  /\ entrusted' = entrusted \cup {m_barCode} /\ foreign' = foreign

(* UpdateDataToDB or the monitor committed the INSERT, or the INSERT and    *)
(* the DELETE.                                                              *)
Recorded ==
  /\ cpc \in {"delete", "commit"}
  /\ UNCHANGED <<screen, left, m_iWorkMode, m_iLogicalCurrentBox>>
  /\ \/ cpc' = "insert" \/ (cpc' = cpc /\ moving' = moving)
  /\ InsertIsKept
Taken == Recorded /\ DeleteIsKept /\ foreign' \in {foreign, TRUE}
HalfTaken == Recorded /\ package' = package /\ foreign' = TRUE

(* The bar code of a deposit is the one that was checked when it was        *)
(* scanned.                                                                 *)
CodeChecked ==
  \/ screen \in Scanned /\ m_barCode' = m_barCode
  \/ package' = package /\ (~CheckMailNo(m_barCode') \/ QueryMayFail)

(* Inside OpenDoorBySpecState the statuses are those of the refresh before. *)
StatusFresh ==
  /\ package' = package
  /\ \/ cpc = "spec" /\ m_iWorkMode = "POST" /\ status' = status
     \/ UpdateBoxStatus

(* The box of a deposit was picked by its status and stays the current one. *)
BoxPicked ==
  /\ package' = package
  /\ \/ screen \in {"opened", "closed"} /\ m_iLogicalCurrentBox' = m_iLogicalCurrentBox
     \/ cpc = "spec" /\ m_iWorkMode = "POST" /\ m_iLogicalCurrentBox' \in PickBox

(* The monitor does not refresh the flags.                                 *)
MonitorIdle == mpc' = "wait" /\ updating' \in {updating, FALSE}

LedgerChanges ==
  UNCHANGED <<package, entrusted, foreign>> \/ Deposited \/ Taken \/ HalfTaken

(* UpdateDataToDB begins with the rows of one box and stays with them.      *)
RowsChosen ==
  \/ /\ cpc' = "insert" /\ package' = package
     /\ left' = {r.mail : r \in RowsOf(m_iLogicalCurrentBox')}
  \/ /\ cpc \in Moving /\ m_iLogicalCurrentBox' = m_iLogicalCurrentBox
     /\ left' \subseteq left /\ package' \subseteq package
     /\ cpc' = "insert" \/ moving' \in left \/ (cpc # "insert" /\ moving' = moving)

(* The Package table and the records change by deposits and takes only.     *)
LEMMA LedgerChange ==
  ASSUME TypeInv, [Next]_vars
  PROVE  LedgerChanges
<1> USE TypeParts, LockerAssumption DEF LedgerChanges, tables, flags, trans, loop, mon, hist,
   update, records, Ready
<1>1. CASE Monitor
  BY <1>1 DEF Monitor, MonitorBegins, MonitorReadsSensors, MonitorClears, MonitorLoads, Query,
     Filled, MonitorEnds,
     MonitorCommits, Taken, HalfTaken, Recorded
<1>2. CASE Idle \/ MainMenu \/ ManageCommands \/ FixBox \/ SpecNoBox
  BY <1>2 DEF Idle, MainMenu, ManageCommands, FixBox, SpecNoBox
<1>3. ASSUME NEW l \in Logins, PostmanLogin(l.overdue, l.available)
      PROVE  LedgerChanges
  BY <1>3 DEF PostmanLogin
<1>4. ASSUME NEW m \in Mails, BarCode(m) PROVE LedgerChanges
  BY <1>4 DEF BarCode, CheckMailNo
<1>5. ASSUME NEW b \in Box \cup {NoBox}, CheckOpenDoor(b)
      PROVE  LedgerChanges
  BY <1>5 DEF CheckOpenDoor
<1>6. ASSUME NEW mode \in {"POST", "POSTMAN_TAKE"}, NEW spec \in Sizes, OpenDoorBySpec(mode, spec)
      PROVE  LedgerChanges
  BY <1>6 DEF OpenDoorBySpec, UpdateBoxStatus, Query, Filled, Sizes
<1>7. ASSUME NEW felt \in BOOLEAN, CloseDoor(felt)
      PROVE  LedgerChanges
  BY <1>7 DEF CloseDoor
<1>8. ASSUME NEW felt \in BOOLEAN, ConfirmDeposit(felt)
      PROVE  LedgerChanges
  BY <1>8 DEF ConfirmDeposit, Deposited
<1>9. ASSUME NEW b \in Box, SpecOpens(b) \/ SpecFails(b)
      PROVE  LedgerChanges
  BY <1>9 DEF SpecOpens, SpecFails, DoorOpens, DoorStaysShut, SelectRows
<1>10. ASSUME NEW b \in Box, ManagerTake(b) \/ OpenDoorTest(b) \/ OpenDoorOnce(b)
       PROVE  LedgerChanges
  BY <1>10 DEF ManagerTake, OpenDoorTest, OpenDoorOnce, OpenDoorByID, DoorOpens,
     DoorStaysShut, SelectRows
<1>11. CASE ReturnParcel \/ TakeParcel
  BY <1>11 DEF ReturnParcel, TakeParcel, OpenDoorByID, DoorOpens, DoorStaysShut,
     SelectRows, PlaceInv, Chosen
<1>12. ASSUME NEW pw \in PWs, CheckPackagePW(pw) PROVE LedgerChanges
  BY <1>12 DEF CheckPackagePW
<1>13. CASE UNCHANGED vars
  BY <1>13 DEF vars
<1>14. CASE UpdateDataToDB
  <2>1. ASSUME NEW m \in Mails, InsertRow(m) PROVE LedgerChanges
    BY <2>1 DEF InsertRow, Fault
  <2>2. CASE DeletePackage
    BY <2>2 DEF DeletePackage, Fault
  <2>3. CASE CommitRow
    BY <2>3 DEF CommitRow, Taken, Recorded
  <2>4. CASE EndUpdate
    BY <2>4 DEF EndUpdate
  <2> QED
    BY <1>14, <2>1, <2>2, <2>3, <2>4 DEF UpdateDataToDB
<1>15. CASE Restart
  BY <1>15 DEF Restart, NoFlags, NoFailures, FirstStatus
<1> QED
  BY <1>1, <1>2, <1>3, <1>4, <1>5, <1>6, <1>7, <1>8, <1>9, <1>10, <1>11, <1>12, <1>13,
     <1>14, <1>15 DEF Next

(* The bar code of a deposit is the one that was checked when it was        *)
(* scanned.                                                                 *)
LEMMA ScanChange ==
  ASSUME TypeInv, [Next]_vars, screen' \in Scanned
  PROVE  CodeChecked
<1> USE TypeParts, LockerAssumption DEF CodeChecked, Scanned, tables, flags, trans, loop, mon,
   hist, update, records, Ready
<1>1. CASE Monitor
  BY <1>1 DEF Monitor, MonitorBegins, MonitorReadsSensors, MonitorClears, MonitorLoads, Query,
     Filled, MonitorEnds,
     MonitorCommits, InsertIsKept, DeleteIsKept, Visible, Without
<1>2. CASE Idle \/ MainMenu \/ ManageCommands \/ FixBox \/ SpecNoBox
  BY <1>2 DEF Idle, MainMenu, ManageCommands, FixBox, SpecNoBox
<1>3. ASSUME NEW l \in Logins, PostmanLogin(l.overdue, l.available) PROVE CodeChecked
  BY <1>3 DEF PostmanLogin
<1>4. ASSUME NEW m \in Mails, BarCode(m) PROVE CodeChecked
  BY <1>4 DEF BarCode
<1>5. ASSUME NEW b \in Box \cup {NoBox}, CheckOpenDoor(b) PROVE CodeChecked
  BY <1>5 DEF CheckOpenDoor
<1>6. ASSUME NEW mode \in {"POST", "POSTMAN_TAKE"}, NEW spec \in Sizes, OpenDoorBySpec(mode, spec)
      PROVE  CodeChecked
  BY <1>6 DEF OpenDoorBySpec, UpdateBoxStatus, Query, Filled, Sizes
<1>7. ASSUME NEW felt \in BOOLEAN, CloseDoor(felt) PROVE CodeChecked
  BY <1>7 DEF CloseDoor
<1>8. ASSUME NEW felt \in BOOLEAN, ConfirmDeposit(felt) PROVE CodeChecked
  BY <1>8 DEF ConfirmDeposit
<1>9. ASSUME NEW b \in Box, SpecOpens(b) \/ SpecFails(b) PROVE CodeChecked
  BY <1>9 DEF SpecOpens, SpecFails, DoorOpens, DoorStaysShut, CanOpen, TakeModes, PlaceInv
<1>10. ASSUME NEW b \in Box, ManagerTake(b) \/ OpenDoorTest(b) \/ OpenDoorOnce(b)
       PROVE  CodeChecked
  BY <1>10 DEF ManagerTake, OpenDoorTest, OpenDoorOnce, OpenDoorByID, DoorOpens, DoorStaysShut
<1>11. CASE ReturnParcel \/ TakeParcel
  BY <1>11 DEF ReturnParcel, TakeParcel, OpenDoorByID, DoorOpens, DoorStaysShut
<1>12. ASSUME NEW pw \in PWs, CheckPackagePW(pw) PROVE CodeChecked
  BY <1>12 DEF CheckPackagePW
<1>13. CASE UNCHANGED vars
  BY <1>13 DEF vars
<1>14. CASE UpdateDataToDB
  <2>1. ASSUME NEW m \in Mails, InsertRow(m) PROVE CodeChecked
    BY <2>1 DEF InsertRow, Fault
  <2>2. CASE DeletePackage
    BY <2>2 DEF DeletePackage, Fault
  <2>3. CASE CommitRow
    BY <2>3 DEF CommitRow, InsertIsKept, DeleteIsKept, Without, Fault
  <2>4. CASE EndUpdate
    BY <2>4 DEF EndUpdate
  <2> QED
    BY <1>14, <2>1, <2>2, <2>3, <2>4 DEF UpdateDataToDB
<1>15. CASE Restart
  BY <1>15 DEF Restart, NoFlags, NoFailures, FirstStatus
<1> QED
  BY <1>1, <1>2, <1>3, <1>4, <1>5, <1>6, <1>7, <1>8, <1>9, <1>10, <1>11, <1>12, <1>13,
     <1>14, <1>15 DEF Next

(* A deposit meets a row only in the box that was just closed.              *)
LEMMA OccupiedChange ==
  ASSUME TypeInv, [Next]_vars
  PROVE  occupied' = occupied \/ (screen = "closed" /\ Occupied(m_iLogicalCurrentBox))
<1> USE TypeParts, LockerAssumption DEF tables, flags, trans, loop, mon, hist, update, records,
   Ready
<1>1. CASE Monitor
  BY <1>1 DEF Monitor, MonitorBegins, MonitorReadsSensors, MonitorClears, MonitorLoads, Query,
     Filled, MonitorEnds,
     MonitorCommits, InsertIsKept, DeleteIsKept, Visible, Without
<1>2. CASE Idle \/ MainMenu \/ ManageCommands \/ FixBox \/ SpecNoBox
  BY <1>2 DEF Idle, MainMenu, ManageCommands, FixBox, SpecNoBox
<1>3. ASSUME NEW l \in Logins, PostmanLogin(l.overdue, l.available)
      PROVE  occupied' = occupied \/ (screen = "closed" /\ Occupied(m_iLogicalCurrentBox))
  BY <1>3 DEF PostmanLogin
<1>4. ASSUME NEW m \in Mails, BarCode(m)
      PROVE  occupied' = occupied \/ (screen = "closed" /\ Occupied(m_iLogicalCurrentBox))
  BY <1>4 DEF BarCode
<1>5. ASSUME NEW b \in Box \cup {NoBox}, CheckOpenDoor(b)
      PROVE  occupied' = occupied \/ (screen = "closed" /\ Occupied(m_iLogicalCurrentBox))
  BY <1>5 DEF CheckOpenDoor
<1>6. ASSUME NEW mode \in {"POST", "POSTMAN_TAKE"}, NEW spec \in Sizes, OpenDoorBySpec(mode, spec)
      PROVE  occupied' = occupied \/ (screen = "closed" /\ Occupied(m_iLogicalCurrentBox))
  BY <1>6 DEF OpenDoorBySpec, UpdateBoxStatus, Query, Filled, Sizes
<1>7. ASSUME NEW felt \in BOOLEAN, CloseDoor(felt)
      PROVE  occupied' = occupied \/ (screen = "closed" /\ Occupied(m_iLogicalCurrentBox))
  BY <1>7 DEF CloseDoor
<1>8. ASSUME NEW felt \in BOOLEAN, ConfirmDeposit(felt)
      PROVE  occupied' = occupied \/ (screen = "closed" /\ Occupied(m_iLogicalCurrentBox))
  BY <1>8 DEF ConfirmDeposit
<1>9. ASSUME NEW b \in Box, SpecOpens(b) \/ SpecFails(b)
      PROVE  occupied' = occupied \/ (screen = "closed" /\ Occupied(m_iLogicalCurrentBox))
  BY <1>9 DEF SpecOpens, SpecFails
<1>10. ASSUME NEW b \in Box, ManagerTake(b) \/ OpenDoorTest(b) \/ OpenDoorOnce(b)
       PROVE  occupied' = occupied \/ (screen = "closed" /\ Occupied(m_iLogicalCurrentBox))
  BY <1>10 DEF ManagerTake, OpenDoorTest, OpenDoorOnce, OpenDoorByID
<1>11. CASE ReturnParcel \/ TakeParcel
  BY <1>11 DEF ReturnParcel, TakeParcel, OpenDoorByID
<1>12. ASSUME NEW pw \in PWs, CheckPackagePW(pw)
       PROVE  occupied' = occupied \/ (screen = "closed" /\ Occupied(m_iLogicalCurrentBox))
  BY <1>12 DEF CheckPackagePW
<1>13. CASE UNCHANGED vars
  BY <1>13 DEF vars
<1>14. CASE UpdateDataToDB
  <2>1. ASSUME NEW m \in Mails, InsertRow(m)
        PROVE  occupied' = occupied \/ (screen = "closed" /\ Occupied(m_iLogicalCurrentBox))
    BY <2>1 DEF InsertRow, Fault
  <2>2. CASE DeletePackage
    BY <2>2 DEF DeletePackage, Fault
  <2>3. CASE CommitRow
    BY <2>3 DEF CommitRow, InsertIsKept, DeleteIsKept, Without, Fault
  <2>4. CASE EndUpdate
    BY <2>4 DEF EndUpdate
  <2> QED
    BY <1>14, <2>1, <2>2, <2>3, <2>4 DEF UpdateDataToDB
<1>15. CASE Restart
  BY <1>15 DEF Restart, NoFlags, NoFailures, FirstStatus
<1> QED
  BY <1>1, <1>2, <1>3, <1>4, <1>5, <1>6, <1>7, <1>8, <1>9, <1>10, <1>11, <1>12, <1>13,
     <1>14, <1>15 DEF Next

(* A monitor that does not run does nothing.                                *)
LEMMA MonitorChange ==
  ASSUME TypeInv, [Next]_vars, ~Monitoring, mpc = "wait"
  PROVE  MonitorIdle
<1> USE TypeParts, LockerAssumption DEF MonitorIdle, tables, flags, trans, loop, mon, hist, update, records,
   Ready
<1>1. CASE Monitor
  BY <1>1 DEF Monitor, MonitorBegins, MonitorReadsSensors, MonitorClears, MonitorLoads, Query,
     Filled, MonitorEnds,
     MonitorCommits, InsertIsKept, DeleteIsKept, Visible, Without
<1>2. CASE Idle \/ MainMenu \/ ManageCommands \/ FixBox \/ SpecNoBox
  BY <1>2 DEF Idle, MainMenu, ManageCommands, FixBox, SpecNoBox
<1>3. ASSUME NEW l \in Logins, PostmanLogin(l.overdue, l.available)
      PROVE  MonitorIdle
  BY <1>3 DEF PostmanLogin
<1>4. ASSUME NEW m \in Mails, BarCode(m) PROVE MonitorIdle
  BY <1>4 DEF BarCode, CheckMailNo
<1>5. ASSUME NEW b \in Box \cup {NoBox}, CheckOpenDoor(b)
      PROVE  MonitorIdle
  BY <1>5 DEF CheckOpenDoor
<1>6. ASSUME NEW mode \in {"POST", "POSTMAN_TAKE"}, NEW spec \in Sizes, OpenDoorBySpec(mode, spec)
      PROVE  MonitorIdle
  BY <1>6 DEF OpenDoorBySpec, UpdateBoxStatus, Query, Filled, Sizes
<1>7. ASSUME NEW felt \in BOOLEAN, CloseDoor(felt) PROVE MonitorIdle
  BY <1>7 DEF CloseDoor
<1>8. ASSUME NEW felt \in BOOLEAN, ConfirmDeposit(felt)
      PROVE  MonitorIdle
  BY <1>8 DEF ConfirmDeposit, Occupied, FreshPW, Fault, RowsOf
<1>9. ASSUME NEW b \in Box, SpecOpens(b) \/ SpecFails(b)
      PROVE  MonitorIdle
  BY <1>9 DEF SpecOpens, SpecFails
<1>10. ASSUME NEW b \in Box, ManagerTake(b) \/ OpenDoorTest(b) \/ OpenDoorOnce(b)
       PROVE  MonitorIdle
  BY <1>10 DEF ManagerTake, OpenDoorTest, OpenDoorOnce, OpenDoorByID
<1>11. CASE ReturnParcel \/ TakeParcel
  BY <1>11 DEF ReturnParcel, TakeParcel, OpenDoorByID
<1>12. ASSUME NEW pw \in PWs, CheckPackagePW(pw) PROVE MonitorIdle
  BY <1>12 DEF CheckPackagePW
<1>13. CASE UNCHANGED vars
  BY <1>13 DEF vars
<1>14. CASE UpdateDataToDB
  <2>1. ASSUME NEW m \in Mails, InsertRow(m) PROVE MonitorIdle
    BY <2>1 DEF InsertRow, Fault
  <2>2. CASE DeletePackage
    BY <2>2 DEF DeletePackage, Fault
  <2>3. CASE CommitRow
    BY <2>3 DEF CommitRow, InsertIsKept, DeleteIsKept, Without, Fault
  <2>4. CASE EndUpdate
    BY <2>4 DEF EndUpdate
  <2> QED
    BY <1>14, <2>1, <2>2, <2>3, <2>4 DEF UpdateDataToDB
<1>15. CASE Restart
  BY <1>15 DEF Restart, NoFlags, NoFailures, FirstStatus
<1> QED
  BY <1>1, <1>2, <1>3, <1>4, <1>5, <1>6, <1>7, <1>8, <1>9, <1>10, <1>11, <1>12, <1>13,
     <1>14, <1>15 DEF Next

(* Inside OpenDoorBySpecState the statuses are those of the refresh before. *)
LEMMA SpecChange ==
  ASSUME TypeInv, [Next]_vars, ~Monitoring, mpc = "wait", cpc' = "spec", m_iWorkMode' = "POST"
  PROVE  StatusFresh
<1> USE TypeParts, LockerAssumption DEF StatusFresh, tables, flags, trans, loop, mon, hist,
   update, records, Ready
<1>1. CASE Monitor
  BY <1>1 DEF Monitor, MonitorBegins, MonitorReadsSensors, MonitorClears, MonitorLoads, Query,
     Filled, MonitorEnds,
     MonitorCommits, InsertIsKept, DeleteIsKept, Visible, Without
<1>2. CASE Idle \/ MainMenu \/ ManageCommands \/ FixBox \/ SpecNoBox
  BY <1>2 DEF Idle, MainMenu, ManageCommands, FixBox, SpecNoBox, LoopOK
<1>3. ASSUME NEW l \in Logins, PostmanLogin(l.overdue, l.available) PROVE StatusFresh
  BY <1>3 DEF PostmanLogin
<1>4. ASSUME NEW m \in Mails, BarCode(m) PROVE StatusFresh
  BY <1>4 DEF BarCode, CheckMailNo
<1>5. ASSUME NEW b \in Box \cup {NoBox}, CheckOpenDoor(b) PROVE StatusFresh
  BY <1>5 DEF CheckOpenDoor
<1>6. ASSUME NEW mode \in {"POST", "POSTMAN_TAKE"}, NEW spec \in Sizes, OpenDoorBySpec(mode, spec)
      PROVE  StatusFresh
  BY <1>6 DEF OpenDoorBySpec
<1>7. ASSUME NEW felt \in BOOLEAN, CloseDoor(felt) PROVE StatusFresh
  BY <1>7 DEF CloseDoor
<1>8. ASSUME NEW felt \in BOOLEAN, ConfirmDeposit(felt) PROVE StatusFresh
  BY <1>8 DEF ConfirmDeposit, Occupied, FreshPW, Fault, RowsOf
<1>9. ASSUME NEW b \in Box, SpecOpens(b) \/ SpecFails(b) PROVE StatusFresh
  BY <1>9 DEF SpecOpens, SpecFails, DoorOpens, SelectRows, DoorStaysShut
<1>10. ASSUME NEW b \in Box, ManagerTake(b) \/ OpenDoorTest(b) \/ OpenDoorOnce(b)
       PROVE  StatusFresh
  BY <1>10 DEF ManagerTake, OpenDoorTest, OpenDoorOnce, OpenDoorByID, DoorOpens,
     SelectRows, DoorStaysShut
<1>11. CASE ReturnParcel \/ TakeParcel
  BY <1>11 DEF ReturnParcel, TakeParcel, OpenDoorByID, DoorOpens, SelectRows,
     DoorStaysShut
<1>12. ASSUME NEW pw \in PWs, CheckPackagePW(pw) PROVE StatusFresh
  BY <1>12 DEF CheckPackagePW
<1>13. CASE UNCHANGED vars
  BY <1>13 DEF vars
<1>14. CASE UpdateDataToDB
  <2>1. ASSUME NEW m \in Mails, InsertRow(m) PROVE StatusFresh
    BY <2>1 DEF InsertRow, Fault
  <2>2. CASE DeletePackage
    BY <2>2 DEF DeletePackage, Fault
  <2>3. CASE CommitRow
    BY <2>3 DEF CommitRow, InsertIsKept, DeleteIsKept, Without, Fault
  <2>4. CASE EndUpdate
    BY <2>4 DEF EndUpdate
  <2> QED
    BY <1>14, <2>1, <2>2, <2>3, <2>4 DEF UpdateDataToDB
<1>15. CASE Restart
  BY <1>15 DEF Restart, NoFlags, NoFailures, FirstStatus
<1> QED
  BY <1>1, <1>2, <1>3, <1>4, <1>5, <1>6, <1>7, <1>8, <1>9, <1>10, <1>11, <1>12, <1>13,
     <1>14, <1>15 DEF Next

(* The box of a deposit was picked by its status and stays the current one. *)
LEMMA OpenedChange ==
  ASSUME TypeInv, [Next]_vars, screen' \in {"opened", "closed"}
  PROVE  BoxPicked
<1> USE TypeParts, LockerAssumption DEF BoxPicked, tables, flags, trans, loop, mon, hist,
   update, records, Ready
<1>1. CASE Monitor
  <2>1. CASE MonitorCommits
    BY <2>1 DEF MonitorCommits, MoveInv, Moving
  <2> QED
    BY <1>1, <2>1 DEF Monitor, MonitorBegins, MonitorReadsSensors, MonitorClears, MonitorLoads,
       MonitorEnds
<1>2. CASE Idle \/ MainMenu \/ ManageCommands \/ FixBox \/ SpecNoBox
  BY <1>2 DEF Idle, MainMenu, ManageCommands, FixBox, SpecNoBox
<1>3. ASSUME NEW l \in Logins, PostmanLogin(l.overdue, l.available) PROVE BoxPicked
  BY <1>3 DEF PostmanLogin
<1>4. ASSUME NEW m \in Mails, BarCode(m) PROVE BoxPicked
  BY <1>4 DEF BarCode
<1>5. ASSUME NEW b \in Box \cup {NoBox}, CheckOpenDoor(b) PROVE BoxPicked
  BY <1>5 DEF CheckOpenDoor
<1>6. ASSUME NEW mode \in {"POST", "POSTMAN_TAKE"}, NEW spec \in Sizes, OpenDoorBySpec(mode, spec)
      PROVE  BoxPicked
  BY <1>6 DEF OpenDoorBySpec, UpdateBoxStatus, Query, Filled, Sizes
<1>7. ASSUME NEW felt \in BOOLEAN, CloseDoor(felt) PROVE BoxPicked
  BY <1>7 DEF CloseDoor
<1>8. ASSUME NEW felt \in BOOLEAN, ConfirmDeposit(felt) PROVE BoxPicked
  BY <1>8 DEF ConfirmDeposit, Occupied, FreshPW, Fault, RowsOf
<1>9. ASSUME NEW b \in Box, SpecOpens(b) \/ SpecFails(b) PROVE BoxPicked
  BY <1>9 DEF SpecOpens, SpecFails, DoorOpens, SelectRows, TakeModes, DoorStaysShut, PlaceInv
<1>10. ASSUME NEW b \in Box, ManagerTake(b) \/ OpenDoorTest(b) \/ OpenDoorOnce(b)
       PROVE  BoxPicked
  BY <1>10 DEF ManagerTake, OpenDoorTest, OpenDoorOnce, OpenDoorByID, DoorStaysShut, DoorOpens
<1>11. CASE ReturnParcel \/ TakeParcel
  BY <1>11 DEF ReturnParcel, TakeParcel, OpenDoorByID, DoorStaysShut, DoorOpens
<1>12. ASSUME NEW pw \in PWs, CheckPackagePW(pw) PROVE BoxPicked
  BY <1>12 DEF CheckPackagePW
<1>13. CASE UNCHANGED vars
  BY <1>13 DEF vars
<1>14. CASE UpdateDataToDB
  <2>1. ASSUME NEW m \in Mails, InsertRow(m) PROVE BoxPicked
    BY <2>1 DEF InsertRow, Fault
  <2>2. CASE DeletePackage
    BY <2>2 DEF DeletePackage, Fault
  <2>3. CASE CommitRow
    BY <2>3 DEF CommitRow, MoveInv, Moving
  <2>4. CASE EndUpdate
    BY <2>4 DEF EndUpdate
  <2> QED
    BY <1>14, <2>1, <2>2, <2>3, <2>4 DEF UpdateDataToDB
<1>15. CASE Restart
  BY <1>15 DEF Restart, NoFlags, NoFailures, FirstStatus
<1> QED
  BY <1>1, <1>2, <1>3, <1>4, <1>5, <1>6, <1>7, <1>8, <1>9, <1>10, <1>11, <1>12, <1>13,
     <1>14, <1>15 DEF Next

(* UpdateDataToDB begins with the rows of one box and stays with them.      *)
LEMMA MovingChange ==
  ASSUME TypeInv, [Next]_vars, cpc' \in Moving
  PROVE  RowsChosen
<1> USE TypeParts, LockerAssumption DEF RowsChosen, Moving, LoopOK, tables, flags, trans, loop,
   mon, hist, update, records, Ready
<1>1. CASE Monitor
  BY <1>1 DEF Monitor, MonitorBegins, MonitorReadsSensors, MonitorClears, MonitorLoads, Query,
     Filled, MonitorEnds,
     MonitorCommits, DeleteIsKept, Without
<1>2. CASE Idle \/ MainMenu \/ ManageCommands \/ FixBox \/ SpecNoBox
  BY <1>2 DEF Idle, MainMenu, ManageCommands, FixBox, SpecNoBox
<1>3. ASSUME NEW l \in Logins, PostmanLogin(l.overdue, l.available) PROVE RowsChosen
  BY <1>3 DEF PostmanLogin
<1>4. ASSUME NEW m \in Mails, BarCode(m) PROVE RowsChosen
  BY <1>4 DEF BarCode
<1>5. ASSUME NEW b \in Box \cup {NoBox}, CheckOpenDoor(b) PROVE RowsChosen
  BY <1>5 DEF CheckOpenDoor
<1>6. ASSUME NEW mode \in {"POST", "POSTMAN_TAKE"}, NEW spec \in Sizes, OpenDoorBySpec(mode, spec)
      PROVE  RowsChosen
  BY <1>6 DEF OpenDoorBySpec, UpdateBoxStatus, Query, Filled, Sizes
<1>7. ASSUME NEW felt \in BOOLEAN, CloseDoor(felt) PROVE RowsChosen
  BY <1>7 DEF CloseDoor
<1>8. ASSUME NEW felt \in BOOLEAN, ConfirmDeposit(felt) PROVE RowsChosen
  BY <1>8 DEF ConfirmDeposit, Occupied, FreshPW, Fault, RowsOf
<1>9. ASSUME NEW b \in Box, SpecOpens(b) \/ SpecFails(b) PROVE RowsChosen
  BY <1>9 DEF SpecOpens, SpecFails, DoorOpens, SelectRows, DoorStaysShut
<1>10. ASSUME NEW b \in Box, ManagerTake(b) \/ OpenDoorTest(b) \/ OpenDoorOnce(b)
       PROVE  RowsChosen
  BY <1>10 DEF ManagerTake, OpenDoorTest, OpenDoorOnce, OpenDoorByID, DoorStaysShut,
     DoorOpens, SelectRows
<1>11. CASE ReturnParcel \/ TakeParcel
  BY <1>11 DEF ReturnParcel, TakeParcel, OpenDoorByID, DoorStaysShut, DoorOpens, SelectRows,
     PlaceInv, Chosen
<1>12. ASSUME NEW pw \in PWs, CheckPackagePW(pw) PROVE RowsChosen
  BY <1>12 DEF CheckPackagePW
<1>13. CASE UNCHANGED vars
  BY <1>13 DEF vars
<1>14. CASE UpdateDataToDB
  <2>1. ASSUME NEW m \in Mails, InsertRow(m) PROVE RowsChosen
    BY <2>1 DEF InsertRow, Fault
  <2>2. CASE DeletePackage
    BY <2>2 DEF DeletePackage, Fault
  <2>3. CASE CommitRow
    BY <2>3 DEF CommitRow, DeleteIsKept, Without, Fault
  <2>4. CASE EndUpdate
    BY <2>4 DEF EndUpdate
  <2> QED
    BY <1>14, <2>1, <2>2, <2>3, <2>4 DEF UpdateDataToDB
<1>15. CASE Restart
  BY <1>15 DEF Restart, NoFlags, NoFailures, FirstStatus
<1> QED
  BY <1>1, <1>2, <1>3, <1>4, <1>5, <1>6, <1>7, <1>8, <1>9, <1>10, <1>11, <1>12, <1>13,
     <1>14, <1>15 DEF Next

-----------------------------------------------------------------------------
(* Every step keeps the types and what the screens say of the members.      *)
LEMMA TypeStep ==
  ASSUME TypeInv, [Next]_vars
  PROVE  TypeInv'
  BY TypeParts, TablesOKStep, FlagsOKStep, CountersOKStep, StatusOKStep, MembersOKStep,
     LoopOKStep, UpdateOKStep, HistoryOKStep, PlaceInvStep, MoveInvStep

(* A take only removes rows.                                                *)
LEMMA TakesRemove ==
  ASSUME UNCHANGED package \/ Taken \/ HalfTaken
  PROVE  package' \subseteq package
  BY DEF Taken, HalfTaken, DeleteIsKept, Without

(* The keys of the Package table stay keys: a row is added only for a       *)
(* parcel, a box and a code that have none.                                 *)
LEMMA KeyStep ==
  ASSUME TypeInv, KeyInv, [Next]_vars
  PROVE  KeyInv'
<1> SUFFICES ASSUME ~QueryMayFail PROVE KeyInv'
  BY DEF KeyInv
<1>1. PackageKeys /\ OwnRows /\ (screen \in Scanned => ~CheckMailNo(m_barCode))
  BY DEF KeyInv
<1>2. PackageKeys'
  <2>1. CASE package' \subseteq package
    BY <1>1, <2>1 DEF PackageKeys
  <2>2. CASE Deposited
    <3>1. ~Occupied(m_iLogicalCurrentBox) /\ ~CheckMailNo(m_barCode)
      BY <1>1, <2>2 DEF Deposited, Scanned
    <3>2. PICK pw \in PWs :
            /\ FreshPW(pw)
            /\ package' = package \cup
                 {[box |-> m_iLogicalCurrentBox, mail |-> m_barCode, pw |-> pw]}
      BY <2>2 DEF Deposited
    <3>3. \A r \in package :
            r.box # m_iLogicalCurrentBox /\ r.mail # m_barCode /\ r.pw # pw
      BY <3>1, <3>2 DEF Occupied, RowsOf, CheckMailNo, FreshPW
    <3> DEFINE n == [box |-> m_iLogicalCurrentBox, mail |-> m_barCode, pw |-> pw]
    <3>4. n.box = m_iLogicalCurrentBox /\ n.mail = m_barCode /\ n.pw = pw
      OBVIOUS
    <3>5. package' = package \cup {n}
      BY <3>2
    <3> HIDE DEF n
    <3> QED
      BY <1>1, <3>3, <3>4, <3>5 DEF PackageKeys
  <2> QED
    BY <2>1, <2>2, LedgerChange, TakesRemove DEF LedgerChanges
<1>3. ASSUME screen' \in Scanned PROVE ~CheckMailNo(m_barCode)'
  <2>1. CodeChecked
    BY <1>3, ScanChange
  <2>2. package' \subseteq package
    BY <1>3, LedgerChange, TakesRemove DEF LedgerChanges, Deposited, Scanned
  <2> QED
    BY <1>1, <2>1, <2>2 DEF CodeChecked, CheckMailNo
<1>4. OwnRows'
  <2> SUFFICES ASSUME cpc' \in Moving, NEW r \in package',
                      r.mail \in left' \/ (cpc' # "insert" /\ r.mail = moving')
               PROVE  r.box = m_iLogicalCurrentBox'
    BY DEF OwnRows
  <2>1. RowsChosen
    BY MovingChange
  <2>2. CASE /\ cpc' = "insert" /\ package' = package
             /\ left' = {q.mail : q \in RowsOf(m_iLogicalCurrentBox')}
    <3>1. PICK q \in RowsOf(m_iLogicalCurrentBox') : q.mail = r.mail
      BY <2>2
    <3> QED
      BY <1>1, <2>2, <3>1 DEF RowsOf, PackageKeys
  <2>3. CASE /\ cpc \in Moving /\ m_iLogicalCurrentBox' = m_iLogicalCurrentBox
             /\ left' \subseteq left /\ package' \subseteq package
             /\ cpc' = "insert" \/ moving' \in left \/ (cpc # "insert" /\ moving' = moving)
    BY <1>1, <2>3 DEF OwnRows
  <2> QED
    BY <2>1, <2>2, <2>3 DEF RowsChosen
<1> QED
  BY <1>2, <1>3, <1>4 DEF KeyInv

(* No step takes a parcel out of the records: the DELETE is committed with  *)
(* the INSERT or after it.                                                  *)
LEMMA LedgerStep ==
  ASSUME TypeInv, LedgerInv, [Next]_vars
  PROVE  LedgerInv'
<1> USE DEF LedgerInv, NothingForgotten
<1>1. CASE UNCHANGED <<package, entrusted, foreign>>
  BY <1>1
<1>2. CASE Deposited
  <2>1. PICK pw \in PWs : package' = package \cup
               {[box |-> m_iLogicalCurrentBox, mail |-> m_barCode, pw |-> pw]}
    BY <1>2 DEF Deposited
  <2> DEFINE n == [box |-> m_iLogicalCurrentBox, mail |-> m_barCode, pw |-> pw]
  <2>2. n.mail = m_barCode /\ package' = package \cup {n}
    BY <2>1
  <2> HIDE DEF n
  <2>3. {r.mail : r \in package'} = {r.mail : r \in package} \cup {m_barCode}
    BY <2>2
  <2>4. entrusted' = entrusted \cup {m_barCode} /\ foreign' = foreign
    BY <1>2 DEF Deposited
  <2>5. entrusted' \subseteq {r.mail : r \in package'}
    BY <2>3, <2>4
  <2>6. CASE foreign
    BY <2>4, <2>5, <2>6
  <2>7. CASE ~foreign
    <3>1. {r.mail : r \in package'} \subseteq entrusted'
      BY <2>3, <2>4, <2>7
    <3> QED
      BY <2>5, <3>1
  <2> QED
    BY <2>6, <2>7
<1>3. CASE Taken
  <2>1. {r.mail : r \in package'} = {r.mail : r \in package} \ {moving}
    BY <1>3 DEF Taken, DeleteIsKept, Without
  <2>2. entrusted' = entrusted \ {moving}
    BY <1>3 DEF Taken, Recorded, InsertIsKept
  <2>3. entrusted' \subseteq {r.mail : r \in package'}
    BY <2>1, <2>2
  <2>4. CASE foreign
    <3>1. foreign'
      BY <1>3, <2>4 DEF Taken
    <3> QED
      BY <2>3, <3>1
  <2>5. CASE ~foreign
    <3>1. {r.mail : r \in package'} \subseteq entrusted'
      BY <2>1, <2>2, <2>5
    <3> QED
      BY <2>3, <3>1
  <2> QED
    BY <2>4, <2>5
<1>4. CASE HalfTaken
  BY <1>4 DEF HalfTaken, Recorded, InsertIsKept
<1> QED
  BY <1>1, <1>2, <1>3, <1>4, LedgerChange DEF LedgerChanges

(* A box whose fresh status is 0 has no row.                                *)
LEMMA RefreshShowsRows ==
  ASSUME TypeInv, ~QueryMayFail, ~updating, UpdateBoxStatus, NEW b \in Box, status'[b] = 0
  PROVE  RowsOf(b) = {}
<1>1. status' = UpdateStatus(Filled(package), notEmpty')
  BY DEF UpdateBoxStatus, Query
<1>2. ~Filled(package)[b]
  BY <1>1 DEF UpdateStatus
<1> QED
  BY <1>2 DEF Filled, RowsOf

(* Without the monitor, the box picked for a deposit has no row up to the   *)
(* moment the deposit is confirmed.                                         *)
LEMMA FreeStep ==
  ASSUME TypeInv, FreeInv, [Next]_vars
  PROVE  FreeInv'
<1> SUFFICES ASSUME ~QueryMayFail, ~Monitoring PROVE FreeInv'
  BY DEF FreeInv
<1>1. /\ mpc = "wait" /\ updating = FALSE /\ ~occupied
      /\ cpc = "spec" /\ m_iWorkMode = "POST" => \A b \in Box : status[b] = 0 => RowsOf(b) = {}
      /\ screen \in {"opened", "closed"} => RowsOf(m_iLogicalCurrentBox) = {}
  BY DEF FreeInv
<1>2. mpc' = "wait" /\ updating' = FALSE
  BY <1>1, MonitorChange DEF MonitorIdle
<1>3. ~occupied'
  BY <1>1, OccupiedChange DEF Occupied
<1>4. ASSUME cpc' = "spec", m_iWorkMode' = "POST", NEW b \in Box, status'[b] = 0
      PROVE  RowsOf(b)' = {}
  <2>1. StatusFresh
    BY <1>1, <1>4, SpecChange
  <2>2. RowsOf(b) = {}
    BY <1>1, <1>4, <2>1, RefreshShowsRows DEF StatusFresh
  <2> QED
    BY <2>1, <2>2 DEF StatusFresh, RowsOf
<1>5. ASSUME screen' \in {"opened", "closed"} PROVE (RowsOf(m_iLogicalCurrentBox) = {})'
  <2>1. BoxPicked
    BY <1>5, OpenedChange
  <2>2. CASE screen \in {"opened", "closed"} /\ m_iLogicalCurrentBox' = m_iLogicalCurrentBox
    BY <1>1, <2>1, <2>2 DEF BoxPicked, RowsOf
  <2>3. CASE cpc = "spec" /\ m_iWorkMode = "POST" /\ m_iLogicalCurrentBox' \in PickBox
    <3>1. m_iLogicalCurrentBox' \in Box /\ status[m_iLogicalCurrentBox'] = 0
      BY <2>3 DEF PickBox, Wanted, GetClassifyBoxID
    <3> QED
      BY <1>1, <2>1, <2>3, <3>1 DEF BoxPicked, RowsOf
  <2> QED
    BY <2>1, <2>2, <2>3 DEF BoxPicked
<1> QED
  BY <1>2, <1>3, <1>4, <1>5 DEF FreeInv

(* The terminal starts with an empty table on the idle screen.              *)
LEMMA InitInv == Init => IInv
<1> SUFFICES ASSUME Init PROVE IInv
  OBVIOUS
<1> USE LockerAssumption DEF Init
<1>1. TypeInv
  <2>1. TablesOK
    BY DEF TablesOK, Insert, NoInsert
  <2>2. FlagsOK
    BY DEF FlagsOK, NoFlags
  <2>3. CountersOK /\ StatusOK
    BY DEF CountersOK, StatusOK, NoFailures, FirstStatus
  <2>4. MembersOK /\ PlaceInv /\ MoveInv
    BY DEF MembersOK, PlaceInv, MoveInv, Modes, Scanned, Chosen, Moving
  <2>5. LoopOK
    <3>1. size \in 0 .. 5 /\ tries \in 0 .. MaxRetries
      OBVIOUS
    <3> QED
      BY <3>1, Zenon DEF LoopOK, Screens
  <2>6. HistoryOK
    <3>1. faults \in 0 .. MaxFaults
      OBVIOUS
    <3> QED
      BY <3>1, Zenon DEF HistoryOK
  <2>7. UpdateOK
    BY Zenon DEF UpdateOK
  <2> QED
    BY <2>1, <2>2, <2>3, <2>4, <2>5, <2>6, <2>7, TypeParts
<1>2. KeyInv
  BY DEF KeyInv, PackageKeys, Scanned, OwnRows, Moving
<1>3. FreeInv
  BY DEF FreeInv
<1>4. LedgerInv
  BY DEF LedgerInv, NothingForgotten
<1> QED
  BY <1>1, <1>2, <1>3, <1>4 DEF IInv

(* The invariant that the theorems below are read off.                      *)
THEOREM AlwaysInv == Spec => []IInv
<1>1. IInv /\ [Next]_vars => IInv'
  BY TypeStep, KeyStep, FreeStep, LedgerStep DEF IInv
<1> QED
  BY <1>1, InitInv, PTL DEF Spec

-----------------------------------------------------------------------------
(* The variables of the terminal stay in their types.                       *)
THEOREM TypeCorrect == Spec => []TypeOK
<1>1. IInv => TypeOK
  BY DEF IInv, TypeInv
<1> QED
  BY <1>1, AlwaysInv, PTL

(* Box, mail number and pick-up code stay keys of the Package table on any  *)
(* cabinet and with the monitor running, as long as the SELECTs that look   *)
(* for them succeed.                                                        *)
THEOREM KeysWithoutFailures == ~QueryMayFail => (Spec => []PackageKeys)
<1> SUFFICES ASSUME ~QueryMayFail PROVE Spec => []PackageKeys
  OBVIOUS
<1>1. IInv => PackageKeys
  BY DEF IInv, KeyInv
<1> QED
  BY <1>1, AlwaysInv, PTL

(* ConfirmDepositState never meets a row for its box ("Impossible,          *)
(* surely!!") when no SELECT fails and the monitor does not refresh the     *)
(* flags between the choice of the box and the deposit.                     *)
THEOREM DepositIsFree == ~QueryMayFail /\ ~Monitoring => (Spec => []DepositFindsFreeBox)
<1> SUFFICES ASSUME ~QueryMayFail, ~Monitoring PROVE Spec => []DepositFindsFreeBox
  OBVIOUS
<1>1. IInv => DepositFindsFreeBox
  BY DEF IInv, FreeInv, DepositFindsFreeBox
<1> QED
  BY <1>1, AlwaysInv, PTL

(* A row leaves the Package table only by a take of its own box, and it is  *)
(* then in that take's history: the DELETE goes by mail number, and hits    *)
(* the rows of the opened box only because the mail number is a key.        *)
THEOREM TakenByItsOwnBox == ~QueryMayFail => (Spec => RowsLeaveByTaking)
<1> SUFFICES ASSUME ~QueryMayFail PROVE Spec => RowsLeaveByTaking
  OBVIOUS
<1> DEFINE Leaves(r) ==
      /\ m_iWorkMode' \in TakeModes /\ m_iLogicalCurrentBox' = r.box
      /\ [box |-> r.box, mail |-> r.mail] \in archived'.rows
      /\ archived'.table = (IF m_iWorkMode' = "POSTMAN_TAKE" THEN "recycle" ELSE "pickuphistory")
<1>1. ASSUME IInv, [Next]_vars, NEW r \in package \ package'
      PROVE  Leaves(r)
  <2>1. Taken
    BY <1>1, LedgerChange DEF LedgerChanges, Deposited, HalfTaken, IInv
  <2>2. OwnRows /\ cpc \in Moving /\ MoveInv
    BY <1>1, <2>1, TypeParts DEF IInv, KeyInv, Taken, Recorded, Moving
  <2>3. r.mail = moving /\ cpc # "insert"
    BY <1>1, <2>1 DEF Taken, Recorded, DeleteIsKept, Without
  <2>4. r.box = m_iLogicalCurrentBox
    BY <1>1, <2>2, <2>3 DEF OwnRows
  <2>5. m_iWorkMode' = m_iWorkMode /\ m_iLogicalCurrentBox' = m_iLogicalCurrentBox
    BY <2>1 DEF Taken, Recorded
  <2>6. archived' = [archived EXCEPT
          !.rows = @ \cup {[box |-> m_iLogicalCurrentBox, mail |-> moving]}]
    BY <2>1 DEF Taken, Recorded, InsertIsKept
  <2>7. archived \in Insert
    BY <1>1, TypeParts DEF IInv, TablesOK
  <2>8. /\ archived'.table = archived.table
        /\ [box |-> m_iLogicalCurrentBox, mail |-> moving] \in archived'.rows
    BY <2>6, <2>7 DEF Insert
  <2> QED
    BY <2>2, <2>3, <2>4, <2>5, <2>8 DEF MoveInv, TableOf
<1>2. IInv /\ [Next]_vars => [\A r \in package \ package' : Leaves(r)]_vars
  BY <1>1
<1> QED
  BY <1>2, AlwaysInv, PTL DEF Spec, RowsLeaveByTaking

(* Whatever statements fail, wherever a restart falls and whoever commits:  *)
(* a deposited parcel is in the Package table or has entered a history      *)
(* since, and not both unless the monitor committed a half-done move.       *)
THEOREM NoneForgotten == Spec => []NothingForgotten
<1>1. IInv => NothingForgotten
  BY DEF IInv, LedgerInv
<1> QED
  BY <1>1, AlwaysInv, PTL
=============================================================================
