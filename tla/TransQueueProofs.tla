-------------------------- MODULE TransQueueProofs --------------------------
(***************************************************************************)
(* Proofs about TransQueue, for any bar codes, bounds and configuration.    *)
(* Three invariants carry the properties: the row the monitor works on is   *)
(* in the table and, as long as the serial numbers differ, alone with its   *)
(* number (NothingLost); the members still say what the thread that relies  *)
(* on them has sent (MarkedWasAccepted); and a transaction that may still   *)
(* be sent has been refused less often than the bound (FailsOnceMore).      *)
(***************************************************************************)
EXTENDS TransQueue, TLAPS

Sent == {"delay", "send", "save", "fail"}     \* the command thread has packed a message
Working == {"resend", "save", "delete"}       \* the monitor works on a row

(* Places and what they say of the messages.                                *)
PlaceInv ==
  /\ spc \in {"loaded", "pack"} => sent < MaxTrans
  /\ spc = "pack" => task \in {"deposit", "take"}
  /\ spc \in Sent => message \in Row
  /\ mpc \in Working => row \in queue
TypeInv == TypeOK /\ PlaceInv

(* Without a clash a serial number names one row; what was answered has     *)
(* reached the host.                                                        *)
SerialsDiffer == \A q, r \in queue : q.serial = r.serial => q = r
LossInv ==
  /\ clash \/ SerialsDiffer
  /\ spc = "save" => message.id \in received
  /\ mpc \in {"save", "delete"} => row.id \in received
  /\ NothingLost

(* Without mixing, the members are those of the thread that relies on them. *)
SaysTrue(msg) == msg.code = m_tranCode /\ msg.mail = m_barCode
MembersInv ==
  /\ spc \in Sent => SaysTrue(message)
  /\ spc = "save" /\ message.code = "deposit" => message.mail \in accepted
  /\ mpc \in {"resend", "save"} => SaysTrue(row)
  /\ mpc = "save" /\ row.code = "deposit" => row.mail \in accepted
  /\ mpc \in {"reportPack", "reportSend", "reportSave"} => m_tranCode = "report"
MarkInv == mixed \/ (MembersInv /\ marked \subseteq accepted)

(* A transaction is packed once and inserted once; the refusals of one that *)
(* is still to be sent leave room for one more.                             *)
Slack == faults + restarts
RefusalInv ==
  /\ \A i \in Id : i > sent => refusals[i] = 0
  /\ \A q \in queue : q.id <= sent
  /\ \A q, r \in queue : q.id = r.id => q = r
  /\ spc \in Sent => message.id <= sent
  /\ spc \in {"delay", "send", "fail"} => \A q \in queue : q.id # message.id
  /\ spc \in {"delay", "send"} => refusals[message.id] = 0
  /\ spc = "fail" => refusals[message.id] <= 1
  /\ \A q \in queue : (mpc = "delete" /\ q = row) \/ refusals[q.id] <= 1 + Slack
  /\ FailsOnceMore

IInv == TypeInv /\ LossInv /\ MarkInv /\ RefusalInv

-----------------------------------------------------------------------------
(* The types, one by one.                                                   *)
MembersOK ==
  /\ m_iState \in {"IDLE", "BUSY"} /\ online \in BOOLEAN
  /\ m_tranCode \in Codes /\ m_barCode \in Mails \cup {NoMail}
  /\ m_iSerial \in 1 .. MaxSerial /\ sseen \in 1 .. MaxSerial /\ mseen \in 1 .. MaxSerial
PlacesOK ==
  /\ spc \in {"ready", "loaded", "pack", "delay", "send", "save", "fail"}
  /\ task \in {"none", "deposit", "take"}
  /\ mpc \in {"loop", "report", "reportPack", "reportSend", "reportSave",
              "next", "select", "resend", "save", "delete"}
MessagesOK ==
  /\ message \in Row \cup {NoRow} /\ row \in Row \cup {NoRow} /\ queue \subseteq Row
HistoryOK ==
  /\ marked \subseteq Mails \cup {NoMail} /\ accepted \subseteq Mails \cup {NoMail}
  /\ received \subseteq Id /\ over \subseteq Id /\ dropped \subseteq Id
  /\ toldFailed \subseteq Id /\ refusals \in [Id -> Nat]
CountersOK ==
  /\ clash \in BOOLEAN /\ mixed \in BOOLEAN
  /\ sent \in 0 .. MaxTrans /\ reports \in 0 .. MaxReports
  /\ faults \in 0 .. MaxFaults /\ restarts \in 0 .. MaxRestarts

(* TypeOK, without its abbreviations.                                       *)
LEMMA TypeParts ==
  /\ TypeInv <=>
       MembersOK /\ PlacesOK /\ MessagesOK /\ HistoryOK /\ CountersOK /\ PlaceInv
  /\ TypeInv' <=>
       MembersOK' /\ PlacesOK' /\ MessagesOK' /\ HistoryOK' /\ CountersOK' /\ PlaceInv'
  BY DEF TypeInv, TypeOK, MembersOK, PlacesOK, MessagesOK, HistoryOK, CountersOK

(* The next serial number is one.                                           *)
LEMMA FreshSerial == ASSUME NEW n \in 1 .. MaxSerial PROVE FreshSerialNO(n) \in 1 ..
   MaxSerial
  BY TransAssumption DEF FreshSerialNO

(* What is inserted into the table is a row.                                *)
LEMMA InsertedRow ==
  ASSUME TypeInv, NEW msg \in Row, TransactionInsertQueueToDB(msg)
  PROVE  queue' \subseteq Row /\ queue \subseteq queue' /\ clash' \in BOOLEAN
  BY TypeParts DEF TransactionInsertQueueToDB, Row, MembersOK, MessagesOK, CountersOK

(* Whatever becomes of a message, the record of it keeps its type.          *)
LEMMA HostTypes ==
  ASSUME TypeInv, NEW msg \in Row, Lost(msg) \/ Refused(msg) \/ Accepted(msg)
  PROVE  /\ received' \subseteq Id /\ accepted' \subseteq Mails \cup {NoMail}
         /\ refusals' \in [Id -> Nat]
  BY TypeParts DEF Lost, Refused, Accepted, Row, HistoryOK

(* An insertion adds one row, with the id of the message, and notices a     *)
(* serial number that is taken.                                             *)
LEMMA Insertion ==
  ASSUME TypeInv, NEW msg \in Row, TransactionInsertQueueToDB(msg)
  PROVE  \E r \in Row : /\ queue' = queue \cup {r} /\ r.id = msg.id
                        /\ clash' \/ (~clash /\ \A q \in queue : q.serial # r.serial)
<1> DEFINE r == [id |-> msg.id, code |-> m_tranCode, mail |-> m_barCode, serial |->
   m_iSerial]
<1>1. r \in Row
  BY TypeParts DEF Row, MembersOK
<1> QED
  BY <1>1 DEF TransactionInsertQueueToDB

(* The ids and the counters are numbers.                                    *)
LEMMA Numbers ==
  ASSUME TypeInv
  PROVE  /\ faults \in Nat /\ restarts \in Nat /\ sent \in Nat /\ queue \subseteq Row
         /\ \A q \in queue : q.id \in Id /\ refusals[q.id] \in Nat
         /\ \A i \in Id : i \in Nat /\ refusals[i] \in Nat
<1>1. faults \in Nat /\ restarts \in Nat /\ sent \in Nat
  BY TypeParts DEF CountersOK
<1>2. queue \subseteq Row /\ \A q \in queue : q.id \in Id
  BY TypeParts DEF MessagesOK, Row
<1>3. \A i \in Id : i \in Nat /\ refusals[i] \in Nat
  BY TypeParts DEF HistoryOK, Id
<1> QED
  BY <1>1, <1>2, <1>3


-----------------------------------------------------------------------------
(* Every step keeps the types and what the places say of the messages.      *)
LEMMA TypeStep ==
  ASSUME TypeInv, [Next]_vars
  PROVE  TypeInv'
<1> USE TransAssumption, TypeParts DEF MembersOK, PlacesOK, MessagesOK, HistoryOK,
     CountersOK, PlaceInv, Sent, Working
<1>1. CASE UNCHANGED vars
  BY <1>1 DEF vars, members, session, monitor, host, counts, flaws, Codes
<1>2. ASSUME NEW x \in {"IDLE","BUSY"}, SetState(x) PROVE TypeInv'
  BY <1>2 DEF SetState, members, session, monitor, host, counts, flaws, Codes
<1>3. ASSUME NEW m \in Mails, LoadBarCode(m) PROVE TypeInv'
  BY <1>3 DEF LoadBarCode, MonitorRelies, monitor, host, counts, Codes
<1>4. ASSUME NEW c \in {"deposit", "take"}, SetTranCode(c) PROVE TypeInv'
  BY <1>4 DEF SetTranCode, MonitorRelies, monitor, host, counts, Codes
<1>5. CASE Pack
  <2>1. FreshSerialNO(sseen) \in 1 .. MaxSerial
    BY FreshSerial
  <2>2. message' \in Row
    <3>1. sent + 1 \in Id
      BY <1>5, SMTT(30) DEF Pack, Id
    <3> QED
      BY <1>5, <2>1, <3>1 DEF Pack, Row
  <2> QED
    BY <1>5, <2>1, <2>2 DEF Pack, monitor, host, flaws
<1>6. CASE InsertDelayed
  <2>1. message \in Row /\ message.id \in Id
    BY <1>6 DEF InsertDelayed, Row
  <2>2. CASE TransactionInsertQueueToDB(message) /\ Return /\ UNCHANGED faults
    <3>1. queue' \subseteq Row /\ queue \subseteq queue' /\ clash' \in BOOLEAN
      BY <2>1, <2>2, InsertedRow
    <3> QED
      BY <1>6, <2>1, <2>2, <3>1 DEF InsertDelayed, Return, members, monitor, host
  <2>3. CASE Fault /\ spc' = "send" /\ UNCHANGED <<queue, clash, over>>
    BY <1>6, <2>1, <2>3 DEF InsertDelayed, Fault, members, monitor, host
  <2> QED
    BY <1>6, <2>2, <2>3 DEF InsertDelayed
<1>7. CASE Send
  <2>1. message \in Row
    BY <1>7 DEF Send
  <2>2. /\ received' \subseteq Id /\ accepted' \subseteq Mails \cup {NoMail}
        /\ refusals' \in [Id -> Nat]
    BY <1>7, <2>1, HostTypes DEF Send
  <2> QED
    BY <1>7, <2>1, <2>2 DEF Send, members, monitor, counts, flaws
<1>8. CASE SaveAnswer
  <2>1. message.id \in Id
    BY <1>8 DEF SaveAnswer, Row
  <2> QED
    BY <1>8, <2>1 DEF SaveAnswer, SaveResponse, Return, members, monitor, host, counts,
       flaws
<1>9. CASE InsertFailed
  <2>1. message \in Row /\ message.id \in Id
    BY <1>9 DEF InsertFailed, Row
  <2>2. CASE TransactionInsertQueueToDB(message) /\ UNCHANGED <<dropped, faults>>
    <3>1. queue' \subseteq Row /\ queue \subseteq queue' /\ clash' \in BOOLEAN
      BY <2>1, <2>2, InsertedRow
    <3> QED
      BY <1>9, <2>1, <2>2, <3>1 DEF InsertFailed, Return, members, monitor, host
  <2>3. CASE Fault /\ dropped' = dropped \cup {message.id} /\ UNCHANGED <<queue, clash>>
    BY <1>9, <2>1, <2>3 DEF InsertFailed, Fault, Return, members, monitor, host
  <2> QED
    BY <1>9, <2>2, <2>3 DEF InsertFailed
<1>10. CASE TestReport
  BY <1>10 DEF TestReport, members, session, host, flaws, Codes
<1>11. CASE ReportCode
  BY <1>11 DEF ReportCode, CommandRelies, session, host, counts, Codes
<1>12. CASE ReportPack
  BY <1>12 DEF ReportPack, FreshSerialNO, session, host, counts, flaws, Codes
<1>13. CASE ReportSend
  BY <1>13 DEF ReportSend, members, session, host, counts, flaws, Codes
<1>14. CASE ReportSave
  BY <1>14 DEF ReportSave, SaveResponse, members, session, host, counts, flaws, Codes
<1>15. CASE TestQueue
  BY <1>15 DEF TestQueue, members, session, host, counts, flaws, Codes
<1>16. CASE SelectFirst
  <2>1. CASE queue = {} /\ mpc' = "loop" /\ UNCHANGED <<m_tranCode, m_barCode, row, mixed>>
    BY <1>16, <2>1 DEF SelectFirst, session, host, counts
  <2>2. CASE \E r \in First : /\ row' = r /\ m_tranCode' = r.code /\ m_barCode' = r.mail
                              /\ mixed' = (mixed \/ CommandRelies) /\ mpc' = "resend"
    <3>1. /\ row' \in queue /\ m_tranCode' \in Codes /\ m_barCode' \in Mails \cup {NoMail}
          /\ mixed' \in BOOLEAN
      BY <2>2 DEF First, Row
    <3> QED
      BY <1>16, <2>2, <3>1 DEF SelectFirst, session, host, counts
  <2> QED
    BY <1>16, <2>1, <2>2 DEF SelectFirst
<1>17. CASE Resend
  <2>1. row \in Row /\ row \in queue
    BY <1>17 DEF Resend
  <2>2. /\ received' \subseteq Id /\ accepted' \subseteq Mails \cup {NoMail}
        /\ refusals' \in [Id -> Nat]
    BY <1>17, <2>1, HostTypes DEF Resend
  <2> QED
    BY <1>17, <2>1, <2>2 DEF Resend, members, session, counts, flaws
<1>18. CASE SaveResent
  BY <1>18 DEF SaveResent, SaveResponse, members, session, host, counts, flaws, Codes
<1>19. CASE DeleteRow
  BY <1>19 DEF DeleteRow, Fault, members, session, host, flaws, Codes
<1>20. CASE Network
  BY <1>20 DEF Network, members, session, monitor, host, counts, flaws, Codes
<1>21. CASE Restart
  BY <1>21 DEF Restart, host, flaws, Codes
<1>22. CASE DepositFails
  <2>1. message.id \in Id
    BY <1>22 DEF DepositFails, Row
  <2> QED
    BY <1>22, <2>1 DEF DepositFails, Return, members, monitor, host, counts, flaws
<1> QED
  BY <1>1, <1>2, <1>3, <1>4, <1>5, <1>6, <1>7, <1>8, <1>9, <1>10, <1>11, <1>12, <1>13,
     <1>14, <1>15, <1>16, <1>17, <1>18, <1>19, <1>20, <1>21, <1>22 DEF
     Next, Command, Report, WorkOff

(* No step loses a transaction: only DeleteRow takes a row out, and then    *)
(* the host has got it; an INSERT that reuses a serial number is noticed.   *)
LEMMA LossStep ==
  ASSUME TypeInv, LossInv, [Next]_vars
  PROVE  LossInv'
<1> USE TransAssumption DEF LossInv, NothingLost, SerialsDiffer, Working
<1>1. CASE UNCHANGED vars
  BY <1>1 DEF vars, members, session, monitor, host, counts, flaws, Row, Sent, TypeInv,
     TypeOK,
     PlaceInv
<1>2. ASSUME NEW x \in {"IDLE","BUSY"}, SetState(x) PROVE LossInv'
  BY <1>2 DEF SetState, members, session, monitor, host, counts, flaws, Row, Sent, TypeInv,
     TypeOK, PlaceInv
<1>3. ASSUME NEW m \in Mails, LoadBarCode(m) PROVE LossInv'
  BY <1>3 DEF LoadBarCode, MonitorRelies, monitor, host, counts, Row, Sent, TypeInv, TypeOK,
     PlaceInv
<1>4. ASSUME NEW c \in {"deposit", "take"}, SetTranCode(c) PROVE LossInv'
  BY <1>4 DEF SetTranCode, MonitorRelies, monitor, host, counts, Row, Sent, TypeInv, TypeOK,
     PlaceInv
<1>5. CASE Pack
  BY <1>5 DEF Pack, FreshSerialNO, monitor, host, flaws, Row, Sent, TypeInv, TypeOK,
     PlaceInv
<1>6. CASE InsertDelayed
  <2>1. message \in Row
    BY <1>6 DEF InsertDelayed, TypeInv, PlaceInv, Sent
  <2>2. CASE TransactionInsertQueueToDB(message)
    <3>1. PICK r \in Row : /\ queue' = queue \cup {r} /\ r.id = message.id
                           /\ clash' \/ (~clash /\ \A q \in queue : q.serial # r.serial)
      BY <2>1, <2>2, Insertion
    <3>2. clash' \/ SerialsDiffer'
      BY <3>1
    <3>3. clash => clash'
      BY <3>1
    <3>4. clash' \/ over' \subseteq received' \cup {q.id : q \in queue'} \cup dropped'
                                \cup toldFailed'
      BY <1>6, <2>2, <3>1, <3>3 DEF InsertDelayed, Return, Fault, host
    <3> QED
      BY <1>6, <3>2, <3>4 DEF InsertDelayed, Return, monitor, host
  <2>3. CASE Fault /\ spc' = "send" /\ UNCHANGED <<queue, clash, over>>
    BY <1>6, <2>1, <2>3 DEF InsertDelayed, Return, monitor, host
  <2> QED
    BY <1>6, <2>2, <2>3 DEF InsertDelayed
<1>7. CASE Send
  BY <1>7 DEF Send, Lost, Refused, Accepted, members, monitor, counts, flaws, Row, Sent,
     TypeInv, TypeOK, PlaceInv
<1>8. CASE SaveAnswer
  BY <1>8 DEF SaveAnswer, SaveResponse, Return, members, monitor, host, counts, flaws, Row,
     Sent, TypeInv, TypeOK, PlaceInv
<1>9. CASE InsertFailed
  <2>1. message \in Row
    BY <1>9 DEF InsertFailed, TypeInv, PlaceInv, Sent
  <2>2. CASE TransactionInsertQueueToDB(message)
    <3>1. PICK r \in Row : /\ queue' = queue \cup {r} /\ r.id = message.id
                           /\ clash' \/ (~clash /\ \A q \in queue : q.serial # r.serial)
      BY <2>1, <2>2, Insertion
    <3>2. clash' \/ SerialsDiffer'
      BY <3>1
    <3>3. clash => clash'
      BY <3>1
    <3>4. clash' \/ over' \subseteq received' \cup {q.id : q \in queue'} \cup dropped'
                                \cup toldFailed'
      BY <1>9, <2>2, <3>1, <3>3 DEF InsertFailed, Return, Fault, host
    <3> QED
      BY <1>9, <3>2, <3>4 DEF InsertFailed, Return, monitor, host
  <2>3. CASE dropped' = dropped \cup {message.id} /\ UNCHANGED <<queue, clash>>
    BY <1>9, <2>1, <2>3 DEF InsertFailed, Return, monitor, host
  <2> QED
    BY <1>9, <2>2, <2>3 DEF InsertFailed
<1>10. CASE TestReport
  BY <1>10 DEF TestReport, members, session, host, flaws, Row, Sent, TypeInv, TypeOK,
     PlaceInv
<1>11. CASE ReportCode
  BY <1>11 DEF ReportCode, CommandRelies, session, host, counts, Row, Sent, TypeInv, TypeOK,
     PlaceInv
<1>12. CASE ReportPack
  BY <1>12 DEF ReportPack, FreshSerialNO, session, host, counts, flaws, Row, Sent, TypeInv,
     TypeOK, PlaceInv
<1>13. CASE ReportSend
  BY <1>13 DEF ReportSend, members, session, host, counts, flaws, Row, Sent, TypeInv,
     TypeOK,
     PlaceInv
<1>14. CASE ReportSave
  BY <1>14 DEF ReportSave, SaveResponse, members, session, host, counts, flaws, Row, Sent,
     TypeInv, TypeOK, PlaceInv
<1>15. CASE TestQueue
  BY <1>15 DEF TestQueue, members, session, host, counts, flaws, Row, Sent, TypeInv, TypeOK,
     PlaceInv
<1>16. CASE SelectFirst
  BY <1>16 DEF SelectFirst, CommandRelies, First, session, host, counts, Row, Sent, TypeInv,
     TypeOK, PlaceInv
<1>17. CASE Resend
  BY <1>17 DEF Resend, Lost, Refused, Accepted, members, session, counts, flaws, Row, Sent,
     TypeInv, TypeOK, PlaceInv
<1>18. CASE SaveResent
  BY <1>18 DEF SaveResent, SaveResponse, members, session, host, counts, flaws, Row, Sent,
     TypeInv, TypeOK, PlaceInv
<1>19. CASE DeleteRow
  BY <1>19 DEF DeleteRow, Fault, members, session, host, flaws, Row, Sent, TypeInv, TypeOK,
     PlaceInv
<1>20. CASE Network
  BY <1>20 DEF Network, members, session, monitor, host, counts, flaws, Row, Sent, TypeInv,
     TypeOK, PlaceInv
<1>21. CASE Restart
  BY <1>21 DEF Restart, host, flaws, Row, Sent, TypeInv, TypeOK, PlaceInv
<1>22. CASE DepositFails
  BY <1>22 DEF DepositFails, InsertQueueWhileFail, Return, members, monitor, host, counts,
     flaws, Row, Sent, TypeInv, TypeOK, PlaceInv
<1> QED
  BY <1>1, <1>2, <1>3, <1>4, <1>5, <1>6, <1>7, <1>8, <1>9, <1>10, <1>11, <1>12, <1>13,
     <1>14, <1>15, <1>16, <1>17, <1>18, <1>19, <1>20, <1>21, <1>22 DEF
     Next, Command, Report, WorkOff

(* No step marks a parcel by members that are not those of the message,     *)
(* unless they were mixed before.                                           *)
LEMMA MarkStep ==
  ASSUME TypeInv, MarkInv, [Next]_vars
  PROVE  MarkInv'
<1> USE TransAssumption DEF MarkInv, MembersInv, SaysTrue, Sent, Working
<1>1. CASE UNCHANGED vars
  BY <1>1 DEF vars, members, session, monitor, host, counts, flaws, Row, TypeInv, TypeOK,
     PlaceInv
<1>2. ASSUME NEW x \in {"IDLE","BUSY"}, SetState(x) PROVE MarkInv'
  BY <1>2 DEF SetState, members, session, monitor, host, counts, flaws, Row, TypeInv,
     TypeOK,
     PlaceInv
<1>3. ASSUME NEW m \in Mails, LoadBarCode(m) PROVE MarkInv'
  BY <1>3 DEF LoadBarCode, MonitorRelies, monitor, host, counts, Row, TypeInv, TypeOK,
     PlaceInv
<1>4. ASSUME NEW c \in {"deposit", "take"}, SetTranCode(c) PROVE MarkInv'
  BY <1>4 DEF SetTranCode, MonitorRelies, monitor, host, counts, Row, TypeInv, TypeOK,
     PlaceInv
<1>5. CASE Pack
  BY <1>5 DEF Pack, FreshSerialNO, monitor, host, flaws, Row, TypeInv, TypeOK, PlaceInv
<1>6. CASE InsertDelayed
  BY <1>6 DEF InsertDelayed, Fault, TransactionInsertQueueToDB, Return, members,
     monitor, host,
     Row, TypeInv, TypeOK, PlaceInv
<1>7. CASE Send
  BY <1>7 DEF Send, Lost, Refused, Accepted, members, monitor, counts, flaws, Row, TypeInv,
     TypeOK, PlaceInv
<1>8. CASE SaveAnswer
  BY <1>8 DEF SaveAnswer, SaveResponse, Return, members, monitor, host, counts, flaws, Row,
     TypeInv, TypeOK, PlaceInv
<1>9. CASE InsertFailed
  BY <1>9 DEF InsertFailed, Fault, TransactionInsertQueueToDB, Return, members, monitor,
     host,
     Row, TypeInv, TypeOK, PlaceInv
<1>10. CASE TestReport
  BY <1>10 DEF TestReport, members, session, host, flaws, Row, TypeInv, TypeOK, PlaceInv
<1>11. CASE ReportCode
  BY <1>11 DEF ReportCode, CommandRelies, session, host, counts, Row, TypeInv, TypeOK,
     PlaceInv
<1>12. CASE ReportPack
  BY <1>12 DEF ReportPack, FreshSerialNO, session, host, counts, flaws, Row, TypeInv,
     TypeOK,
     PlaceInv
<1>13. CASE ReportSend
  BY <1>13 DEF ReportSend, members, session, host, counts, flaws, Row, TypeInv, TypeOK,
     PlaceInv
<1>14. CASE ReportSave
  BY <1>14 DEF ReportSave, SaveResponse, members, session, host, counts, flaws, Row,
     TypeInv,
     TypeOK, PlaceInv
<1>15. CASE TestQueue
  BY <1>15 DEF TestQueue, members, session, host, counts, flaws, Row, TypeInv, TypeOK,
     PlaceInv
<1>16. CASE SelectFirst
  BY <1>16 DEF SelectFirst, CommandRelies, First, session, host, counts, Row, TypeInv,
     TypeOK,
     PlaceInv
<1>17. CASE Resend
  BY <1>17 DEF Resend, Lost, Refused, Accepted, members, session, counts, flaws, Row,
     TypeInv,
     TypeOK, PlaceInv
<1>18. CASE SaveResent
  BY <1>18 DEF SaveResent, SaveResponse, members, session, host, counts, flaws, Row,
     TypeInv,
     TypeOK, PlaceInv
<1>19. CASE DeleteRow
  BY <1>19 DEF DeleteRow, Fault, members, session, host, flaws, Row, TypeInv, TypeOK,
     PlaceInv
<1>20. CASE Network
  BY <1>20 DEF Network, members, session, monitor, host, counts, flaws, Row, TypeInv,
     TypeOK,
     PlaceInv
<1>21. CASE Restart
  BY <1>21 DEF Restart, host, flaws, Row, TypeInv, TypeOK, PlaceInv
<1>22. CASE DepositFails
  BY <1>22 DEF DepositFails, Return, members, monitor, host, counts, flaws, Row, TypeInv,
     TypeOK, PlaceInv
<1> QED
  BY <1>1, <1>2, <1>3, <1>4, <1>5, <1>6, <1>7, <1>8, <1>9, <1>10, <1>11, <1>12, <1>13,
     <1>14, <1>15, <1>16, <1>17, <1>18, <1>19, <1>20, <1>21, <1>22 DEF
     Next, Command, Report, WorkOff

(* A refusal is followed by the DELETE, so the next one of the same row     *)
(* takes a failed DELETE or a restart.                                      *)
LEMMA RefusalStep ==
  ASSUME TypeInv, RefusalInv, [Next]_vars
  PROVE  RefusalInv'
<1> USE TransAssumption DEF RefusalInv, Slack, FailsOnceMore, Sent, Working
<1>1. CASE UNCHANGED vars
  BY <1>1 DEF vars, members, session, monitor, host, counts, flaws, Row, Id, TypeInv,
     TypeOK,
     PlaceInv
<1>2. ASSUME NEW x \in {"IDLE","BUSY"}, SetState(x) PROVE RefusalInv'
  BY <1>2 DEF SetState, members, session, monitor, host, counts, flaws, Row, Id, TypeInv,
     TypeOK, PlaceInv
<1>3. ASSUME NEW m \in Mails, LoadBarCode(m) PROVE RefusalInv'
  BY <1>3 DEF LoadBarCode, MonitorRelies, monitor, host, counts, Row, Id, TypeInv, TypeOK,
     PlaceInv
<1>4. ASSUME NEW c \in {"deposit", "take"}, SetTranCode(c) PROVE RefusalInv'
  BY <1>4 DEF SetTranCode, MonitorRelies, monitor, host, counts, Row, Id, TypeInv, TypeOK,
     PlaceInv
<1>5. CASE Pack
  <2> HIDE DEF RefusalInv
  <2>1. UNCHANGED <<queue, refusals, faults, restarts, mpc, row>>
    BY <1>5 DEF Pack, monitor, host
  <2>2. spc = "pack" /\ spc' \in {"delay", "send"} /\ sent' = sent + 1 /\ message'.id = sent + 1
    BY <1>5 DEF Pack
  <2>3. sent \in Nat /\ sent < MaxTrans /\ MaxTrans \in Nat
    BY <2>2, Numbers DEF TypeInv, PlaceInv
  <2>4. sent + 1 \in Id
    BY <2>3 DEF Id
  <2>5. \A q \in queue : q.id \in Nat /\ q.id <= sent
    BY Numbers DEF RefusalInv
  <2>6. \A q \in queue : q.id # sent + 1 /\ q.id <= sent + 1
    BY <2>3, <2>5
  <2>7. \A i \in Id : i > sent + 1 => refusals[i] = 0
    BY <2>3, Numbers DEF RefusalInv
  <2>8. refusals[sent + 1] = 0
    BY <2>3, <2>4 DEF RefusalInv
  <2>9. Slack' = Slack
    BY <2>1
  <2> QED
    BY <2>1, <2>2, <2>3, <2>6, <2>7, <2>8, <2>9 DEF RefusalInv
<1>6. CASE InsertDelayed
  <2>1. message \in Row
    BY <1>6 DEF InsertDelayed, TypeInv, PlaceInv
  <2>2. UNCHANGED <<refusals, sent, restarts, message, mpc, row>>
    BY <1>6 DEF InsertDelayed, host, monitor
  <2>3. faults \in Nat /\ restarts \in Nat /\ faults' \in Nat /\ faults <= faults'
    BY <1>6, TypeParts DEF InsertDelayed, Fault, CountersOK
  <2>4. \A i \in Id : refusals[i] \in Nat
    BY TypeParts DEF HistoryOK
  <2>5. CASE TransactionInsertQueueToDB(message)
    <3>1. PICK r \in Row : queue' = queue \cup {r} /\ r.id = message.id
      BY <2>1, <2>5, Insertion
    <3>2. r.id \in Id /\ refusals[r.id] <= 1
      BY <1>6, <2>1, <2>4, <3>1 DEF InsertDelayed, Row
    <3>3. r.id <= sent /\ \A q \in queue : q.id # r.id
      BY <1>6, <3>1 DEF InsertDelayed
    <3>4. \A q \in queue' : (mpc' = "delete" /\ q = row') \/ refusals'[q.id] <= 1 + Slack'
      BY <2>2, <2>3, <2>4, <3>1, <3>2, TypeParts DEF MessagesOK, Row
    <3>5. spc' \notin Sent \/ (spc' = "send" /\ UNCHANGED queue)
      BY <1>6 DEF InsertDelayed, Return
    <3> QED
      BY <1>6, <2>2, <2>3, <2>4, <3>1, <3>3, <3>4, <3>5 DEF InsertDelayed
  <2>6. CASE UNCHANGED queue
    BY <1>6, <2>1, <2>2, <2>3, <2>4, <2>6, TypeParts DEF InsertDelayed, Return, MessagesOK,
       Row, TransactionInsertQueueToDB
  <2> QED
    BY <1>6, <2>5, <2>6 DEF InsertDelayed
<1>7. CASE Send
  <2>1. /\ faults \in Nat /\ restarts \in Nat /\ queue \subseteq Row
        /\ \A q \in queue : q.id \in Id /\ refusals[q.id] \in Nat
        /\ \A i \in Id : i \in Nat /\ refusals[i] \in Nat
        /\ sent \in Nat
    BY Numbers
  <2>2. message.id \in Id /\ UNCHANGED <<faults, restarts, sent, queue, message, mpc, row>>
    BY <1>7 DEF Send, TypeInv, PlaceInv, Row, counts, monitor
  <2>3. CASE UNCHANGED refusals
    BY <1>7, <2>1, <2>2, <2>3 DEF Send
  <2>4. CASE Refused(message) /\ spc' = "fail"
    <3>1. refusals'[message.id] = 1 /\ \A i \in Id : i # message.id => refusals'[i] =
       refusals[i]
      BY <1>7, <2>2, <2>4, TypeParts DEF Send, Refused, HistoryOK
    <3> QED
      BY <1>7, <2>1, <2>2, <2>4, <3>1 DEF Send
  <2> QED
    BY <1>7, <2>3, <2>4 DEF Send, Lost, Accepted
<1>8. CASE SaveAnswer
  BY <1>8 DEF SaveAnswer, SaveResponse, Return, members, monitor, host, counts, flaws,
     Row, Id,
     TypeInv, TypeOK, PlaceInv
<1>9. CASE InsertFailed
  <2>1. message \in Row
    BY <1>9 DEF InsertFailed, TypeInv, PlaceInv
  <2>2. UNCHANGED <<refusals, sent, restarts, message, mpc, row>>
    BY <1>9 DEF InsertFailed, host, monitor
  <2>3. faults \in Nat /\ restarts \in Nat /\ faults' \in Nat /\ faults <= faults'
    BY <1>9, TypeParts DEF InsertFailed, Fault, CountersOK
  <2>4. \A i \in Id : refusals[i] \in Nat
    BY TypeParts DEF HistoryOK
  <2>5. CASE TransactionInsertQueueToDB(message)
    <3>1. PICK r \in Row : queue' = queue \cup {r} /\ r.id = message.id
      BY <2>1, <2>5, Insertion
    <3>2. r.id \in Id /\ refusals[r.id] <= 1
      BY <1>9, <2>1, <2>4, <3>1 DEF InsertFailed, Row
    <3>3. r.id <= sent /\ \A q \in queue : q.id # r.id
      BY <1>9, <3>1 DEF InsertFailed
    <3>4. \A q \in queue' : (mpc' = "delete" /\ q = row') \/ refusals'[q.id] <= 1 + Slack'
      BY <2>2, <2>3, <2>4, <3>1, <3>2, TypeParts DEF MessagesOK, Row
    <3>5. spc' \notin Sent \/ (spc' = "send" /\ UNCHANGED queue)
      BY <1>9 DEF InsertFailed, Return
    <3> QED
      BY <1>9, <2>2, <2>3, <2>4, <3>1, <3>3, <3>4, <3>5 DEF InsertFailed
  <2>6. CASE UNCHANGED queue
    BY <1>9, <2>1, <2>2, <2>3, <2>4, <2>6, TypeParts DEF InsertFailed, Return,
       MessagesOK, Row,
       TransactionInsertQueueToDB
  <2> QED
    BY <1>9, <2>5, <2>6 DEF InsertFailed
<1>10. CASE TestReport
  BY <1>10 DEF TestReport, members, session, host, flaws, Row, Id, TypeInv, TypeOK, PlaceInv
<1>11. CASE ReportCode
  BY <1>11 DEF ReportCode, CommandRelies, session, host, counts, Row, Id, TypeInv, TypeOK,
     PlaceInv
<1>12. CASE ReportPack
  BY <1>12 DEF ReportPack, FreshSerialNO, session, host, counts, flaws, Row, Id, TypeInv,
     TypeOK, PlaceInv
<1>13. CASE ReportSend
  BY <1>13 DEF ReportSend, members, session, host, counts, flaws, Row, Id, TypeInv, TypeOK,
     PlaceInv
<1>14. CASE ReportSave
  BY <1>14 DEF ReportSave, SaveResponse, members, session, host, counts, flaws, Row, Id,
     TypeInv, TypeOK, PlaceInv
<1>15. CASE TestQueue
  BY <1>15 DEF TestQueue, members, session, host, counts, flaws, Row, Id, TypeInv, TypeOK,
     PlaceInv
<1>16. CASE SelectFirst
  BY <1>16 DEF SelectFirst, CommandRelies, First, session, host, counts, Row, Id, TypeInv,
     TypeOK, PlaceInv
<1>17. CASE Resend
  <2>1. /\ faults \in Nat /\ restarts \in Nat /\ queue \subseteq Row
        /\ \A q \in queue : q.id \in Id /\ refusals[q.id] \in Nat
        /\ \A i \in Id : i \in Nat /\ refusals[i] \in Nat
        /\ sent \in Nat
    BY Numbers
  <2>2. row \in queue /\ UNCHANGED <<faults, restarts, sent, queue, message, spc, row>>
    BY <1>17 DEF Resend, TypeInv, PlaceInv, counts, session
  <2>3. CASE UNCHANGED refusals
    BY <1>17, <2>1, <2>2, <2>3 DEF Resend
  <2>4. CASE Refused(row) /\ mpc' = "delete"
    <3>1. /\ refusals'[row.id] = refusals[row.id] + 1
          /\ \A i \in Id : i # row.id => refusals'[i] = refusals[i]
      BY <1>17, <2>1, <2>2, <2>4, TypeParts DEF Refused, HistoryOK
    <3>2. refusals[row.id] <= 1 + Slack
      BY <1>17, <2>2 DEF Resend
    <3>3. FailsOnceMore'
      BY <2>1, <2>2, <3>1, <3>2
    <3>4. \A q \in queue : q = row \/ q.id # row.id
      BY <2>2
    <3>5. \A q \in queue' : (mpc' = "delete" /\ q = row') \/ refusals'[q.id] <= 1 + Slack'
      BY <1>17, <2>1, <2>2, <2>4, <3>1, <3>4 DEF Resend
    <3>6. /\ \A i \in Id : i > sent' => refusals'[i] = 0
          /\ spc' \in {"delay", "send"} => refusals'[message'.id] = 0
          /\ spc' = "fail" => refusals'[message'.id] <= 1
      BY <2>1, <2>2, <3>1 DEF TypeInv, PlaceInv, Row
    <3> QED
      BY <2>2, <3>3, <3>5, <3>6
  <2> QED
    BY <1>17, <2>3, <2>4 DEF Resend, Lost, Accepted
<1>18. CASE SaveResent
  BY <1>18 DEF SaveResent, SaveResponse, members, session, host, counts, flaws, Row, Id,
     TypeInv, TypeOK, PlaceInv
<1>19. CASE DeleteRow
  <2>1. /\ faults \in Nat /\ restarts \in Nat /\ queue \subseteq Row
        /\ \A q \in queue : q.id \in Id /\ refusals[q.id] \in Nat
        /\ \A i \in Id : i \in Nat /\ refusals[i] \in Nat
        /\ sent \in Nat
    BY Numbers
  <2>2. row \in queue /\ UNCHANGED <<refusals, restarts, sent, message, spc, row>>
    BY <1>19 DEF DeleteRow, TypeInv, PlaceInv, host, session
  <2>3. CASE queue' = {r \in queue : r.serial # row.serial} /\ UNCHANGED faults
    BY <1>19, <2>1, <2>2, <2>3
  <2>4. CASE Fault /\ UNCHANGED queue
    <3>1. refusals[row.id] <= 2 + Slack /\ faults' = faults + 1
      BY <2>1, <2>2, <2>4 DEF Fault
    <3> QED
      BY <1>19, <2>1, <2>2, <2>4, <3>1
  <2> QED
    BY <1>19, <2>3, <2>4 DEF DeleteRow
<1>20. CASE Network
  BY <1>20 DEF Network, members, session, monitor, host, counts, flaws, Row, Id, TypeInv,
     TypeOK, PlaceInv
<1>21. CASE Restart
  <2>1. /\ faults \in Nat /\ restarts \in Nat /\ queue \subseteq Row
        /\ \A q \in queue : q.id \in Id /\ refusals[q.id] \in Nat
        /\ \A i \in Id : i \in Nat /\ refusals[i] \in Nat
        /\ sent \in Nat
    BY Numbers
  <2>2. /\ UNCHANGED <<refusals, sent, queue, faults>> /\ spc' = "ready" /\ mpc' = "loop"
        /\ restarts' = restarts + 1
    BY <1>21 DEF Restart, host
  <2> QED
    BY <2>1, <2>2
<1>22. CASE DepositFails
  BY <1>22 DEF DepositFails, Return, members, monitor, host, counts, flaws, Row, Id,
     TypeInv, TypeOK, PlaceInv
<1> QED
  BY <1>1, <1>2, <1>3, <1>4, <1>5, <1>6, <1>7, <1>8, <1>9, <1>10, <1>11, <1>12, <1>13,
     <1>14, <1>15, <1>16, <1>17, <1>18, <1>19, <1>20, <1>21, <1>22 DEF
     Next, Command, Report, WorkOff

(* The invariant holds when the program starts.                             *)
LEMMA InitInv == Init => IInv
<1> SUFFICES ASSUME Init PROVE IInv
  OBVIOUS
<1> USE TransAssumption DEF Init
<1>1. TypeInv
  <2>1. MembersOK /\ PlacesOK
    BY DEF MembersOK, PlacesOK, Codes
  <2>2. MessagesOK
    BY DEF MessagesOK
  <2>3. HistoryOK
    BY DEF HistoryOK
  <2>4. CountersOK
    <3>1. MaxTrans \in Nat /\ MaxReports \in Nat /\ MaxFaults \in Nat /\ MaxRestarts \in Nat
      OBVIOUS
    <3>2. sent = 0 /\ reports = 0 /\ faults = 0 /\ restarts = 0
      OBVIOUS
    <3>3. clash \in BOOLEAN /\ mixed \in BOOLEAN
      OBVIOUS
    <3> HIDE DEF Init
    <3>4. sent \in 0 .. MaxTrans /\ reports \in 0 .. MaxReports
      BY <3>1, <3>2
    <3>5. faults \in 0 .. MaxFaults /\ restarts \in 0 .. MaxRestarts
      BY <3>1, <3>2
    <3> QED
      BY <3>3, <3>4, <3>5 DEF CountersOK
  <2>5. PlaceInv
    BY DEF PlaceInv, Sent, Working
  <2> QED
    BY <2>1, <2>2, <2>3, <2>4, <2>5, TypeParts
<1>2. LossInv
  BY DEF LossInv, SerialsDiffer, NothingLost
<1>3. MarkInv
  BY DEF MarkInv, MembersInv, Sent
<1>4. RefusalInv
  BY DEF RefusalInv, Slack, FailsOnceMore, Sent, Id
<1> QED
  BY <1>1, <1>2, <1>3, <1>4 DEF IInv

(* Every step keeps it; hence it holds always.                              *)
LEMMA AlwaysInv == Spec => []IInv
<1>1. IInv /\ [Next]_vars => IInv'
  BY TypeStep, LossStep, MarkStep, RefusalStep DEF IInv
<1> QED
  BY InitInv, <1>1, PTL DEF Spec

(* The members, the rows and the records keep their types; m_iSerial stays  *)
(* within its range although two threads advance it.                        *)
THEOREM TypeCorrect == Spec => []TypeOK
<1>1. IInv => TypeOK
  BY DEF IInv, TypeInv
<1> QED
  BY AlwaysInv, <1>1, PTL

(* A transaction whose command returned has reached the host, waits in the  *)
(* TransQueue table, its INSERT failed, or it is a deposit the screen was   *)
(* told has failed, which only happens where m_iIsPostFailOpenDoor is set;  *)
(* as long as no two rows got one serial number.                            *)
THEOREM NoTransactionLost == Spec => []NothingLost
<1>1. IInv => NothingLost
  BY DEF IInv, LossInv
<1> QED
  BY AlwaysInv, <1>1, PTL

(* SaveResponse marks a parcel only if the host has accepted its deposit,   *)
(* as long as the two threads did not set the members at the same time.     *)
THEOREM MarkedOnlyIfAccepted == Spec => []MarkedWasAccepted
<1>1. IInv => MarkedWasAccepted
  BY DEF IInv, MarkInv, MarkedWasAccepted
<1> QED
  BY AlwaysInv, <1>1, PTL

(* A transaction is refused at most twice, and once more for every failed   *)
(* DELETE and every restart.                                                *)
THEOREM FailsAtMostOnceMore == Spec => []FailsOnceMore
<1>1. IInv => FailsOnceMore
  BY DEF IInv, RefusalInv
<1> QED
  BY AlwaysInv, <1>1, PTL
=============================================================================
