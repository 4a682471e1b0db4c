----------------------------- MODULE TransQueue -----------------------------
(***************************************************************************)
(* Transactions with the host.  The command thread reports deposits and     *)
(* take-outs, at once or through the TransQueue table; the NetworkMonitor   *)
(* thread sends status reports and works off the table while the terminal   *)
(* is idle.  Both use the members m_tranCode, m_barCode[0] and m_iSerial    *)
(* without a lock, and the wait for the host lies between their uses.  The  *)
(* table survives a restart, the members do not.                            *)
(***************************************************************************)
EXTENDS Integers, FiniteSets

CONSTANTS Mails,           \* bar codes
          DelaySend,       \* transactions that go to the table first: m_iIsPostDelaySend,
                           \* m_iIsTakeoutDelaySend
          PostFailOpenDoor, \* m_iIsPostFailOpenDoor: a deposit that fails is not queued
          NeedRegister,    \* m_iNeedRegister: the terminal sends no status reports
          MaxSerial,       \* m_iSerial restarts at 1 beyond it, 999999
          MaxTrans,        \* bound on the transactions of the command thread
          MaxReports,      \* bound on status reports
          MaxFaults,       \* bound on failing INSERT and DELETE statements
          MaxRestarts      \* bound on restarts of the program

ASSUME TransAssumption ==
  /\ DelaySend \subseteq {"deposit", "take"}
  /\ PostFailOpenDoor \in BOOLEAN /\ NeedRegister \in BOOLEAN
  /\ MaxSerial \in Nat \ {0}
  /\ {MaxTrans, MaxReports, MaxFaults, MaxRestarts} \subseteq Nat

NoMail == "none"
Codes == {"deposit", "take", "report", "none"}     \* 600002, 600004, 600009
Id == 1 .. MaxTrans
Row == [id : Id, code : Codes, mail : Mails \cup {NoMail}, serial : 1 .. MaxSerial]
NoRow == [id |-> 0, code |-> "none", mail |-> NoMail, serial |-> 1]

VARIABLES
  m_iState,              \* "IDLE" or not
  m_tranCode, m_barCode, m_iSerial,
  online,                \* whether the host can be reached
  spc, task, sseen,      \* command thread: place, kind of transaction, m_iSerial it read
  message,               \* what it packed: a row
  mpc, row, mseen,       \* monitor: place, the row it works on, m_iSerial it read
  queue,                 \* the TransQueue table
  marked,                \* mails with HaveSendMessage set in the Package table
  received, accepted,    \* history: transactions the host got; mails whose deposit it accepted
  refusals,              \* history: refusals the terminal was told of, per transaction
  over, dropped,         \* history: transactions whose command returned; INSERT failed
  toldFailed,            \* history: deposits the screen was told have failed
  clash,                 \* history: a row got the serial number of another row
  mixed,                 \* history: a thread set the members while the other relied on them
  sent, reports, faults, restarts    \* counters

members == <<m_tranCode, m_barCode, m_iSerial>>
session == <<spc, task, sseen, message>>
monitor == <<mpc, row, mseen>>
host    == <<received, accepted, refusals>>
counts  == <<sent, reports, faults, restarts>>
flaws   == <<clash, mixed>>
vars == <<m_iState, members, online, session, monitor, queue, marked, host, over,
          dropped, toldFailed, flaws, counts>>

Init ==
  /\ m_iState = "BUSY"
  /\ m_tranCode = "none" /\ m_barCode = NoMail /\ m_iSerial = 1
  /\ online = TRUE
  /\ spc = "ready" /\ task = "none" /\ sseen = 1 /\ message = NoRow
  /\ mpc = "loop" /\ row = NoRow /\ mseen = 1
  /\ queue = {} /\ marked = {}
  /\ received = {} /\ accepted = {} /\ refusals = [i \in Id |-> 0]
  /\ over = {} /\ dropped = {} /\ toldFailed = {}
  /\ clash = FALSE /\ mixed = FALSE
  /\ sent = 0 /\ reports = 0 /\ faults = 0 /\ restarts = 0

-----------------------------------------------------------------------------
FreshSerialNO_NoWrap(seen) == seen + 1

(* FreshSerialNO, from the value a thread read.                             *)
FreshSerialNO(seen) == IF seen < MaxSerial THEN seen + 1 ELSE 1

Fault == faults < MaxFaults /\ faults' = faults + 1

SaveResponse_Unconditional == marked' = marked \cup {m_barCode}

(* SaveResponse after the host accepted something: what is marked depends   *)
(* on the members as they are now.                                          *)
SaveResponse ==
  marked' = IF m_tranCode = "deposit" THEN marked \cup {m_barCode} ELSE marked

(* SendDataToService and Unpack for a message: connecting or sending fails, *)
(* the answer is lost, the host refuses, or it accepts.                     *)
Lost(msg) ==
  /\ ~online
  /\ \/ UNCHANGED received
     \/ received' = received \cup {msg.id}
  /\ UNCHANGED <<accepted, refusals>>

Refused(msg) ==
  /\ online
  /\ received' = received \cup {msg.id}
  /\ refusals' = [refusals EXCEPT ![msg.id] = @ + 1]
  /\ UNCHANGED accepted

Accepted(msg) ==
  /\ online
  /\ received' = received \cup {msg.id}
  /\ accepted' = IF msg.code = "deposit" THEN accepted \cup {msg.mail} ELSE accepted
  /\ UNCHANGED refusals

(* TransactionInsertQueueToDB for the message, with the members as they are *)
(* now.                                                                     *)
TransactionInsertQueueToDB(msg) ==
  /\ queue' = queue \cup {[id |-> msg.id, code |-> m_tranCode, mail |-> m_barCode,
                           serial |-> m_iSerial]}
  /\ clash' = (clash \/ \E r \in queue : r.serial = m_iSerial)

(* Between setting the members and using them for the last time a thread    *)
(* waits for the host; nothing keeps the other thread from setting them.    *)
MonitorRelies == mpc \in {"reportPack", "reportSend", "reportSave", "resend", "save"}
CommandRelies == spc # "ready"

-----------------------------------------------------------------------------
(* The command thread.                                                      *)

SetState(s) ==
  /\ spc = "ready"
  /\ m_iState' = s
  /\ UNCHANGED <<members, online, session, monitor, queue, marked, host, over,
                 dropped, toldFailed, flaws, counts>>

(* The bar code of a deposit, or of the parcel that is taken out.           *)
LoadBarCode(m) ==
  /\ spc = "ready" /\ m_iState # "IDLE" /\ sent < MaxTrans
  /\ m_barCode' = m /\ mixed' = (mixed \/ MonitorRelies)
  /\ spc' = "loaded"
  /\ UNCHANGED <<m_iState, m_tranCode, m_iSerial, online, task, sseen, message, monitor,
                 queue, marked, host, over, dropped, toldFailed, clash, counts>>

(* ConfirmDepositState and OpenDoorByIDState set m_tranCode and call Pack.  *)
SetTranCode(c) ==
  /\ spc = "loaded"
  /\ m_tranCode' = c /\ task' = c /\ mixed' = (mixed \/ MonitorRelies)
  /\ sseen' = m_iSerial
  /\ spc' = "pack"
  /\ UNCHANGED <<m_iState, m_barCode, m_iSerial, online, message, monitor, queue, marked,
                 host, over, dropped, toldFailed, clash, counts>>

Pack ==
  /\ spc = "pack"
  /\ m_iSerial' = FreshSerialNO(sseen)
  /\ sent' = sent + 1
  /\ message' = [id |-> sent + 1, code |-> m_tranCode, mail |-> m_barCode,
                 serial |-> FreshSerialNO(sseen)]
  /\ spc' = IF task \in DelaySend THEN "delay" ELSE "send"
  /\ UNCHANGED <<m_iState, m_tranCode, m_barCode, online, task, sseen, monitor, queue,
                 marked, host, over, dropped, toldFailed, flaws, reports, faults,
                 restarts>>

(* The command is over.                                                     *)
Return == spc' = "ready" /\ over' = over \cup {message.id}

(* The delayed transaction; when the INSERT fails it is sent at once.       *)
InsertDelayed ==
  /\ spc = "delay"
  /\ \/ TransactionInsertQueueToDB(message) /\ Return /\ UNCHANGED faults
     \/ Fault /\ spc' = "send" /\ UNCHANGED <<queue, clash, over>>
  /\ UNCHANGED <<m_iState, members, online, task, sseen, message, monitor, marked, host,
                 dropped, toldFailed, mixed, sent, reports, restarts>>

(* Transaction, up to the answer.                                           *)
Send ==
  /\ spc = "send"
  /\ \/ (Lost(message) \/ Refused(message)) /\ spc' = "fail"
     \/ Accepted(message) /\ spc' = "save"
  /\ UNCHANGED <<m_iState, members, online, task, sseen, message, monitor, queue, marked,
                 over, dropped, toldFailed, flaws, counts>>

SaveAnswer ==
  /\ spc = "save"
  /\ SaveResponse
  /\ Return
  /\ UNCHANGED <<m_iState, members, online, task, sseen, message, monitor, queue, host,
                 dropped, toldFailed, flaws, counts>>

InsertFailed_Forgets ==
  /\ spc = "fail" /\ (task # "deposit" \/ ~PostFailOpenDoor)
  /\ Return
  /\ UNCHANGED <<m_iState, members, online, task, sseen, message, monitor, queue, marked,
                 host, dropped, toldFailed, flaws, counts>>

(* bInsertQueueWhileFail, whatever the failure was.  ConfirmDepositState    *)
(* calls Transaction without it when m_iIsPostFailOpenDoor is set.          *)
InsertQueueWhileFail == task # "deposit" \/ ~PostFailOpenDoor

InsertFailed ==
  /\ spc = "fail" /\ InsertQueueWhileFail
  /\ \/ TransactionInsertQueueToDB(message) /\ UNCHANGED <<dropped, faults>>
     \/ Fault /\ dropped' = dropped \cup {message.id} /\ UNCHANGED <<queue, clash>>
  /\ Return
  /\ UNCHANGED <<m_iState, members, online, task, sseen, message, monitor, marked, host,
                 toldFailed, mixed, sent, reports, restarts>>

(* Otherwise the screen is told that the deposit failed and the door opens; *)
(* the row of the parcel stays.                                             *)
DepositFails ==
  /\ spc = "fail" /\ ~InsertQueueWhileFail
  /\ toldFailed' = toldFailed \cup {message.id}
  /\ Return
  /\ UNCHANGED <<m_iState, members, online, task, sseen, message, monitor, queue, marked,
                 host, dropped, flaws, counts>>

-----------------------------------------------------------------------------
(* The monitor thread: status reports.                                      *)

TestReport ==
  /\ mpc = "loop" /\ m_iState = "IDLE" /\ ~NeedRegister /\ reports < MaxReports
  /\ reports' = reports + 1
  /\ mpc' = "report"
  /\ UNCHANGED <<m_iState, members, online, session, row, mseen, queue, marked, host,
                 over, dropped, toldFailed, flaws, sent, faults, restarts>>

ReportCode ==
  /\ mpc = "report"
  /\ m_tranCode' = "report" /\ mixed' = (mixed \/ CommandRelies)
  /\ mseen' = m_iSerial
  /\ mpc' = "reportPack"
  /\ UNCHANGED <<m_iState, m_barCode, m_iSerial, online, session, row, queue, marked, host,
                 over, dropped, toldFailed, clash, counts>>

ReportPack ==
  /\ mpc = "reportPack"
  /\ m_iSerial' = FreshSerialNO(mseen)
  /\ mpc' = "reportSend"
  /\ UNCHANGED <<m_iState, m_tranCode, m_barCode, online, session, row, mseen, queue,
                 marked, host, over, dropped, toldFailed, flaws, counts>>

ReportSend ==
  /\ mpc = "reportSend"
  /\ \/ mpc' = "loop"
     \/ online /\ mpc' = "reportSave"
  /\ UNCHANGED <<m_iState, members, online, session, row, mseen, queue, marked, host,
                 over, dropped, toldFailed, flaws, counts>>

ReportSave ==
  /\ mpc = "reportSave"
  /\ SaveResponse
  /\ mpc' = "loop"
  /\ UNCHANGED <<m_iState, members, online, session, row, mseen, queue, host, over,
                 dropped, toldFailed, flaws, counts>>

-----------------------------------------------------------------------------
(* The monitor thread: TransactionQueue.                                    *)

TestQueue ==
  /\ mpc \in {"loop", "next"}
  /\ \/ m_iState = "IDLE" /\ mpc' = "select"
     \/ m_iState # "IDLE" /\ mpc = "next" /\ mpc' = "loop"
  /\ UNCHANGED <<m_iState, members, online, session, row, mseen, queue, marked, host,
                 over, dropped, toldFailed, flaws, counts>>

(* ORDER BY SerialNo; rows with equal numbers come in any order.            *)
First == {r \in queue : \A q \in queue : r.serial <= q.serial}

SelectFirst ==
  /\ mpc = "select"
  /\ \/ /\ queue = {}
        /\ mpc' = "loop"
        /\ UNCHANGED <<m_tranCode, m_barCode, row, mixed>>
     \/ \E r \in First :
          /\ row' = r
          /\ m_tranCode' = r.code /\ m_barCode' = r.mail
          /\ mixed' = (mixed \/ CommandRelies)
          /\ mpc' = "resend"
  /\ UNCHANGED <<m_iState, m_iSerial, online, session, mseen, queue, marked, host,
                 over, dropped, toldFailed, clash, counts>>

(* A communication error ends the round; any answer takes the row out.      *)
Resend ==
  /\ mpc = "resend"
  /\ \/ Lost(row) /\ mpc' = "loop"
     \/ Refused(row) /\ mpc' = "delete"
     \/ Accepted(row) /\ mpc' = "save"
  /\ UNCHANGED <<m_iState, members, online, session, row, mseen, queue, marked, over,
                 dropped, toldFailed, flaws, counts>>

SaveResent_NoDelete ==
  /\ mpc = "save"
  /\ SaveResponse
  /\ mpc' = "next"
  /\ UNCHANGED <<m_iState, members, online, session, row, mseen, queue, host, over,
                 dropped, toldFailed, flaws, counts>>

SaveResent ==
  /\ mpc = "save"
  /\ SaveResponse
  /\ mpc' = "delete"
  /\ UNCHANGED <<m_iState, members, online, session, row, mseen, queue, host, over,
                 dropped, toldFailed, flaws, counts>>

DeleteRow_Never ==
  /\ mpc = "delete"
  /\ mpc' = "next"
  /\ UNCHANGED <<m_iState, members, online, session, row, mseen, queue, marked, host,
                 over, dropped, toldFailed, flaws, counts>>

(* DELETE ... WHERE SerialNo; it may fail, and the row is sent again.       *)
DeleteRow ==
  /\ mpc = "delete"
  /\ \/ queue' = {r \in queue : r.serial # row.serial} /\ UNCHANGED faults
     \/ Fault /\ UNCHANGED queue
  /\ mpc' = "next"
  /\ UNCHANGED <<m_iState, members, online, session, row, mseen, marked, host, over,
                 dropped, toldFailed, flaws, sent, reports, restarts>>

-----------------------------------------------------------------------------
(* The network comes and goes (external).                                   *)
Network ==
  /\ online' = ~online
  /\ UNCHANGED <<m_iState, members, session, monitor, queue, marked, host, over,
                 dropped, toldFailed, flaws, counts>>

(* Power failure, reboot or exit: the tables stay, the constructor runs.    *)
Restart ==
  /\ restarts < MaxRestarts
  /\ restarts' = restarts + 1
  /\ m_iState' = "BUSY"
  /\ m_tranCode' = "none" /\ m_barCode' = NoMail /\ m_iSerial' = 1
  /\ spc' = "ready" /\ task' = "none" /\ sseen' = 1 /\ message' = NoRow
  /\ mpc' = "loop" /\ row' = NoRow /\ mseen' = 1
  /\ UNCHANGED <<online, queue, marked, host, over, dropped, toldFailed, flaws, sent,
                 reports, faults>>

-----------------------------------------------------------------------------
Command ==
  \/ \E s \in {"IDLE", "BUSY"} : SetState(s)
  \/ \E m \in Mails : LoadBarCode(m)
  \/ \E c \in {"deposit", "take"} : SetTranCode(c)
  \/ Pack \/ InsertDelayed \/ Send \/ SaveAnswer \/ InsertFailed
  \/ DepositFails

Report == ReportCode \/ ReportPack \/ ReportSend \/ ReportSave
WorkOff == TestQueue \/ SelectFirst \/ Resend \/ SaveResent \/ DeleteRow

Next == Command \/ TestReport \/ Report \/ WorkOff \/ Network \/ Restart

Spec == Init /\ [][Next]_vars

(* The monitor thread runs.                                                 *)
FairSpec == Spec /\ WF_vars(Report \/ WorkOff)

-----------------------------------------------------------------------------
TypeOK ==
  /\ m_iState \in {"IDLE", "BUSY"} /\ online \in BOOLEAN
  /\ m_tranCode \in Codes /\ m_barCode \in Mails \cup {NoMail}
  /\ {m_iSerial, sseen, mseen} \subseteq 1 .. MaxSerial
  /\ spc \in {"ready", "loaded", "pack", "delay", "send", "save", "fail"}
  /\ task \in {"none", "deposit", "take"}
  /\ message \in Row \cup {NoRow} /\ row \in Row \cup {NoRow}
  /\ mpc \in {"loop", "report", "reportPack", "reportSend", "reportSave",
              "next", "select", "resend", "save", "delete"}
  /\ queue \subseteq Row
  /\ marked \subseteq Mails \cup {NoMail} /\ accepted \subseteq Mails \cup {NoMail}
  /\ {received, over, dropped, toldFailed} \subseteq SUBSET Id
  /\ refusals \in [Id -> Nat] /\ {clash, mixed} \subseteq BOOLEAN
  /\ sent \in 0 .. MaxTrans /\ reports \in 0 .. MaxReports
  /\ faults \in 0 .. MaxFaults /\ restarts \in 0 .. MaxRestarts

(* Through restarts, status reports and lost answers: a transaction whose   *)
(* command returned has reached the host, waits in the table, its INSERT    *)
(* failed and was logged, or the screen was told that it failed.  The last  *)
(* is so of deposits only, and only where m_iIsPostFailOpenDoor is set.     *)
(* Nothing is claimed once two rows of the table have one serial number,    *)
(* since the DELETE goes by it.                                             *)
NothingLost ==
  /\ clash \/ over \subseteq received \cup {r.id : r \in queue} \cup dropped
                                \cup toldFailed
  /\ toldFailed # {} => PostFailOpenDoor

(* SaveResponse marks a parcel as reported (HaveSendMessage) by what        *)
(* m_tranCode and m_barCode[0] hold when the answer is there: as long as    *)
(* neither thread set them while the other relied on them, a parcel that is *)
(* marked is one whose deposit the host has accepted, whichever of its      *)
(* three callers got the answer.                                            *)
MarkedWasAccepted == mixed \/ marked \subseteq accepted

(* "All are queued and at worst they fail once more" says the comment on a  *)
(* refused transaction: only a failing DELETE or a restart makes the host   *)
(* refuse one more often.                                                   *)
FailsOnceMore == \A i \in Id : refusals[i] <= 2 + faults + restarts

(* Once the host can be reached and the terminal stays idle, the table is   *)
(* worked off, whatever happened before.                                    *)
QueueDrains == <>[](online /\ m_iState = "IDLE") => <>[](queue = {})
=============================================================================
