------------------------------ MODULE YctTopUp ------------------------------
(***************************************************************************)
(* A top-up of a bus card (Yangcheng Tong) at one terminal.  Four parties   *)
(* have to agree on it: the payment host that debits the bank card, the     *)
(* card in the reader of the terminal, the platform of the card issuer, and *)
(* the row of YCTYP_TXN.  A session debits, inserts a row that says         *)
(* "failed", loads the card, submits the result to the platform, marks the  *)
(* row, confirms or reverses the debit and marks the row again.  It may die *)
(* after any of these steps: the next session of the terminal looks for a   *)
(* row that is not finished and settles it from the row alone.  Nothing     *)
(* keeps a terminal from opening a session while the thread of its previous *)
(* one is still at work.                                                    *)
(***************************************************************************)
EXTENDS Naturals

CONSTANTS Sessions,      \* threads that serve the terminal
          LiveSessions,  \* those of them that are not blocked for ever
          TopUps,        \* top-ups, named by the stan of their row
          HostTries,     \* tries of YCT_AckTrade and YCT_RevTrade, 3
          SubmitTries,   \* tries of P_CPU_LOAD_SUBMIT and P_M1_ROLLBACK, 3
          Null,          \* SQL NULL
          NoRow, NoTopUp

ASSUME TopUpAssumption ==
  /\ LiveSessions \subseteq Sessions
  /\ HostTries \in Nat \ {0} /\ SubmitTries \in Nat \ {0}
  /\ Null \notin {0, 1} /\ NoTopUp \notin TopUps

(* The codes of yct_data.status.                                            *)
Unconfirmed == 1
Confirmed == 2
ConfirmFailed == 3
LoadFailed == 4
Reversed == 5
ReversalFailed == 6
Unknown == 7

(* status, yct_ack, and whether result_message holds a message.             *)
Data == [status : 1 .. 7, ack : {0, 1, Null}, msg : BOOLEAN]

ASSUME NoRowAssumption == NoRow \notin Data

VARIABLES
  row,        \* per top-up: its row of YCTYP_TXN
  account,    \* per top-up: what the payment host did to the bank card
  told,       \* the top-ups the host was told to be successful
  loaded,     \* the top-ups whose amount is on the bus card
  platform,   \* the top-ups whose result reached the platform
  doubtful,   \* the top-ups whose reader fell silent, or whose loading threw
  unserved,   \* the top-ups for which the platform asked for something else
  kind,       \* per top-up: M1 or CPU card, deposit refunded or bank card debited
  pc,         \* per session: its place
  cur,        \* per session: the top-up it works on
  data,       \* per session: yct_data
  ok,         \* per session: whether ST_NormalEnqPay returned 0 or -1
  recovering, \* per session: whether it settles the row of an earlier session
  tries       \* per session: the counter of the retry loop it is in

world == <<account, told, loaded, platform, doubtful, unserved>>
local == <<cur, data, ok, recovering, tries>>
vars == <<row, world, kind, pc, local>>

At(s, place) == pc[s] = place
Go(s, place) == pc' = [pc EXCEPT ![s] = place]
SetStatus(s, code) == data' = [data EXCEPT ![s].status = code]

NoData == [status |-> Unconfirmed, ack |-> 1, msg |-> FALSE]

Init ==
  /\ row = [t \in TopUps |-> NoRow] /\ account = [t \in TopUps |-> "untouched"]
  /\ told = {} /\ loaded = {} /\ platform = {} /\ doubtful = {} /\ unserved = {}
  /\ kind \in [TopUps -> [m1 : BOOLEAN, deposit : BOOLEAN]]
  /\ pc = [s \in Sessions |-> "off"] /\ cur = [s \in Sessions |-> NoTopUp]
  /\ data = [s \in Sessions |-> NoData] /\ ok = [s \in Sessions |-> FALSE]
  /\ recovering = [s \in Sessions |-> FALSE] /\ tries = [s \in Sessions |-> 0]

(* A session that has finished with a top-up keeps nothing of it.           *)
Forget(s) ==
  /\ cur' = [cur EXCEPT ![s] = NoTopUp] /\ data' = [data EXCEPT ![s] = NoData]
  /\ ok' = [ok EXCEPT ![s] = FALSE] /\ tries' = [tries EXCEPT ![s] = 0]
  /\ recovering' = [recovering EXCEPT ![s] = FALSE]

(* updateYctYPData: the statement may fail, and updates no row when there   *)
(* is none; its callers do not look at what it returns.                     *)
UpdateRow(t, d, saved) ==
  row' = IF saved /\ row[t] # NoRow THEN [row EXCEPT ![t] = d] ELSE row

-----------------------------------------------------------------------------
(* The beginning and the end of a session.                                  *)

Login(s) ==
  /\ At(s, "off") /\ Go(s, "check")
  /\ UNCHANGED <<row, world, kind, local>>

(* The operator leaves the menu.                                            *)
HangUp(s) ==
  /\ At(s, "menu") /\ Go(s, "off")
  /\ UNCHANGED <<row, world, kind, local>>

(* The thread or the server dies: what is not in the row is lost.           *)
Crash(s) ==
  /\ pc[s] \notin {"off", "menu"}
  /\ Go(s, "off") /\ Forget(s)
  /\ UNCHANGED <<row, world, kind>>

-----------------------------------------------------------------------------
(* NotFinishChk: what an earlier session left.                              *)

(* The condition of getYctNotFinish.                                        *)
Unfinished(t) ==
  /\ row[t] # NoRow
  /\ row[t].ack = 0 \/ row[t].status = LoadFailed

(* One unfinished row is fetched, whichever comes first.                    *)
GetYctNotFinish(s, t) ==
  /\ At(s, "check") /\ Unfinished(t)
  /\ cur' = [cur EXCEPT ![s] = t]
  /\ data' = [data EXCEPT ![s] = [row[t] EXCEPT !.ack = IF @ = Null THEN 0 ELSE @]]
  /\ recovering' = [recovering EXCEPT ![s] = TRUE]
  /\ Go(s, "reader")
  /\ UNCHANGED <<row, world, kind, ok, tries>>

(* There is none, or the query failed: the session goes on.                 *)
NothingToFinish(s) ==
  /\ At(s, "check") /\ Go(s, "menu")
  /\ UNCHANGED <<row, world, kind, local>>

(* The reader cannot be initialised: the session ends.                      *)
ReaderFails(s) ==
  /\ At(s, "reader")
  /\ Go(s, "off") /\ Forget(s)
  /\ UNCHANGED <<row, world, kind>>

ReaderReady_NoMessageTest(s) ==
  /\ At(s, "reader")
  /\ Go(s, IF data[s].ack = 0 /\ data[s].msg THEN "resend" ELSE "settle")
  /\ UNCHANGED <<row, world, kind, local>>

(* Without a message nothing is known of the loading: 7.  With one, the     *)
(* message is sent again if the platform has not acknowledged it.           *)
ReaderReady(s) ==
  /\ At(s, "reader")
  /\ \/ /\ ~data[s].msg
        /\ data' = [data EXCEPT ![s].ack = 1, ![s].status = Unknown]
        /\ \E saved \in BOOLEAN : UpdateRow(cur[s], data'[s], saved)
        /\ Go(s, "settle")
     \/ /\ data[s].msg
        /\ Go(s, IF data[s].ack = 0 THEN "resend" ELSE "settle")
        /\ UNCHANGED <<row, data>>
  /\ UNCHANGED <<world, kind, cur, ok, recovering, tries>>

(* ST_YctThird_NotFinishHdl.  Its result is not looked at: the row is       *)
(* settled with the host in any case.                                       *)
Resend(s, answered) ==
  /\ At(s, "resend")
  /\ platform' \in {platform \cup {cur[s]}} \cup IF answered THEN {} ELSE {platform}
  /\ data' = [data EXCEPT ![s].ack = IF answered THEN 1 ELSE 0]
  /\ Go(s, "settle")
  /\ UNCHANGED <<row, account, told, loaded, doubtful, unserved, kind, cur, ok, recovering, tries>>

-----------------------------------------------------------------------------
(* A new top-up.                                                            *)

Pay_OnCredit(s, t) ==
  /\ At(s, "menu") /\ account[t] = "untouched"
  /\ cur' = [cur EXCEPT ![s] = t]
  /\ data' = [data EXCEPT ![s] = [NoData EXCEPT !.status = LoadFailed]]
  /\ Go(s, "insert")
  /\ UNCHANGED <<row, world, kind, ok, recovering, tries>>

(* YCT_PayPe debits the bank card; the refund of a deposit (amount 1000)    *)
(* debits nothing.                                                          *)
Pay(s, t) ==
  /\ At(s, "menu") /\ account[t] = "untouched"
  /\ account' = [account EXCEPT ![t] = IF kind[t].deposit THEN "waived" ELSE "debited"]
  /\ cur' = [cur EXCEPT ![s] = t]
  /\ data' = [data EXCEPT ![s] = [NoData EXCEPT !.status = IF kind[t].deposit THEN ReversalFailed
                                                          ELSE LoadFailed]]
  /\ Go(s, "insert")
  /\ UNCHANGED <<row, told, loaded, platform, doubtful, unserved, kind, ok, recovering, tries>>

(* The answer is lost: PayPe returns -1, and the top-up is dropped.         *)
PayAnswerLost(s, t) ==
  /\ At(s, "menu") /\ account[t] = "untouched" /\ ~kind[t].deposit
  /\ account' = [account EXCEPT ![t] = "debited"]
  /\ UNCHANGED <<row, told, loaded, platform, doubtful, unserved, kind, pc, local>>

(* setYctYPData does not set yct_ack.                                       *)
SetYctYPData(s) ==
  /\ At(s, "insert")
  /\ row' \in {row, [row EXCEPT ![cur[s]] = [data[s] EXCEPT !.ack = Null]]}
  /\ Go(s, "load")
  /\ UNCHANGED <<world, kind, local>>

(* ST_NormalEnqPay.  Before the reader is told to load, the card or the     *)
(* platform may refuse.                                                     *)
LoadNotStarted(s) ==
  /\ At(s, "load")
  /\ Go(s, "mark") /\ ok' = [ok EXCEPT ![s] = FALSE]
  /\ UNCHANGED <<row, world, kind, cur, data, recovering, tries>>

(* The trade type the platform answers with is not a top-up of this card:   *)
(* 02, 22, 30 and 31 are only logged, 40 puts the card on the black list,   *)
(* 60 synchronises it.  ST_NormalEnqPay returns 0, and the amount is not on *)
(* the card.                                                                *)
OtherTradeType(s) ==
  /\ At(s, "load")
  /\ unserved' = unserved \cup {cur[s]}
  /\ ok' = [ok EXCEPT ![s] = TRUE]
  /\ Go(s, "mark")
  /\ UNCHANGED <<row, account, told, loaded, platform, doubtful, kind,
                 cur, data, recovering, tries>>

(* Type 21, or 60 with a transfer: the balance of the old purse is moved by *)
(* a top-up of nothing, whose result is submitted like any other.  The      *)
(* operator is asked to go on with the top-up; the session does not.        *)
TransferBalance(s) ==
  /\ At(s, "load") /\ ~kind[cur[s]].m1
  /\ unserved' = unserved \cup {cur[s]}
  /\ ok' = [ok EXCEPT ![s] = TRUE]
  /\ Go(s, "submit")
  /\ UNCHANGED <<row, account, told, loaded, platform, doubtful, kind,
                 cur, data, recovering, tries>>

(* The reader reports success, or the amount is read back: the result of a  *)
(* CPU card is submitted.                                                   *)
LoadDone(s) ==
  /\ At(s, "load")
  /\ loaded' = loaded \cup {cur[s]}
  /\ ok' = [ok EXCEPT ![s] = TRUE]
  /\ Go(s, IF kind[cur[s]].m1 THEN "mark" ELSE "submit")
  /\ UNCHANGED <<row, account, told, platform, doubtful, unserved, kind,
                 cur, data, recovering, tries>>

(* The reader refuses, or the platform refuses to load an M1 card: the      *)
(* platform is told.  When the amount read back from an M1 card is wrong,   *)
(* it is told too, but a failure to tell it leaves yct_ack alone.           *)
LoadRefused(s) ==
  /\ At(s, "load")
  /\ ok' = [ok EXCEPT ![s] = FALSE]
  /\ \/ Go(s, "submit")
     \/ kind[cur[s]].m1 /\ Go(s, "rollback")
  /\ UNCHANGED <<row, world, kind, cur, data, recovering, tries>>

(* The reader does not answer: success is simulated.                        *)
ReaderSilent(s) ==
  /\ At(s, "load")
  /\ loaded' \in {loaded, loaded \cup {cur[s]}}
  /\ doubtful' = doubtful \cup {cur[s]}
  /\ ok' = [ok EXCEPT ![s] = TRUE]
  /\ Go(s, "mark")
  /\ UNCHANGED <<row, account, told, platform, unserved, kind, cur, data, recovering, tries>>

(* The catch clause leaves iRet at the 0 of the payment.                    *)
LoadThrows(s) ==
  /\ pc[s] \in {"load", "submit", "rollback"}
  /\ loaded' \in {loaded} \cup IF At(s, "load") THEN {loaded \cup {cur[s]}} ELSE {}
  /\ doubtful' = doubtful \cup {cur[s]}
  /\ ok' = [ok EXCEPT ![s] = TRUE] /\ tries' = [tries EXCEPT ![s] = 0]
  /\ Go(s, "mark")
  /\ UNCHANGED <<row, account, told, platform, unserved, kind, cur, data, recovering>>

(* One try to submit the result.  P_COMMAND keeps the message after it has  *)
(* connected, P_M1_ROLLBACK before; both also update the row whose stan is  *)
(* the platform's serial number, and there is none.                         *)
SubmitTry(s, connected) ==
  [data[s] EXCEPT !.msg = @ \/ connected \/ kind[cur[s]].m1]

(* The platform has acknowledged the result.                                *)
Submitted(s) ==
  /\ pc[s] \in {"submit", "rollback"}
  /\ platform' = platform \cup {cur[s]}
  /\ data' = [data EXCEPT ![s] = SubmitTry(s, TRUE)]
  /\ tries' = [tries EXCEPT ![s] = 0]
  /\ Go(s, "mark")
  /\ UNCHANGED <<row, account, told, loaded, doubtful, unserved, kind, cur, ok, recovering>>

SubmitFails_AckStays(s) ==
  /\ pc[s] \in {"submit", "rollback"}
  /\ \E connected \in BOOLEAN :
       /\ platform' \in {platform} \cup IF connected THEN {platform \cup {cur[s]}} ELSE {}
       /\ data' = [data EXCEPT ![s] = SubmitTry(s, connected)]
  /\ IF tries[s] + 1 < SubmitTries
     THEN tries' = [tries EXCEPT ![s] = @ + 1] /\ UNCHANGED pc
     ELSE tries' = [tries EXCEPT ![s] = 0] /\ Go(s, "mark")
  /\ UNCHANGED <<row, account, told, loaded, doubtful, unserved, kind, cur, ok, recovering>>

(* It cannot be reached, or does not answer.  The last failure clears       *)
(* yct_ack, except while an M1 card is rolled back after loading.           *)
SubmitFails(s) ==
  /\ pc[s] \in {"submit", "rollback"}
  /\ \E connected \in BOOLEAN :
       /\ platform' \in {platform} \cup IF connected THEN {platform \cup {cur[s]}} ELSE {}
       /\ data' = [data EXCEPT ![s] = [SubmitTry(s, connected) EXCEPT
                     !.ack = IF tries[s] + 1 = SubmitTries /\ At(s, "submit") THEN 0 ELSE @]]
  /\ IF tries[s] + 1 < SubmitTries
     THEN tries' = [tries EXCEPT ![s] = @ + 1] /\ UNCHANGED pc
     ELSE tries' = [tries EXCEPT ![s] = 0] /\ Go(s, "mark")
  /\ UNCHANGED <<row, account, told, loaded, doubtful, unserved, kind, cur, ok, recovering>>

LoadStatus_Optimistic(s) ==
  IF ~kind[cur[s]].deposit THEN Unconfirmed ELSE IF ok[s] THEN Confirmed ELSE ReversalFailed

(* The status after loading: ST_NormalEnqPay returns 0 or -1 for success    *)
(* and 1 for every failure.                                                 *)
LoadStatus(s) ==
  IF ok[s] THEN IF kind[cur[s]].deposit THEN Confirmed ELSE Unconfirmed
  ELSE IF kind[cur[s]].deposit THEN ReversalFailed ELSE LoadFailed

(* The row is marked before the host is told.                               *)
Mark(s) ==
  /\ At(s, "mark")
  /\ SetStatus(s, LoadStatus(s))
  /\ \E saved \in BOOLEAN : UpdateRow(cur[s], data'[s], saved)
  /\ Go(s, "settle")
  /\ UNCHANGED <<world, kind, cur, ok, recovering, tries>>

-----------------------------------------------------------------------------
(* AckRevTrade and YCT_AckRevTrade: the top-up is settled with the host.    *)

Settle_NoReversal(s) ==
  /\ At(s, "settle")
  /\ Go(s, CASE data[s].status = Unconfirmed -> "ack"
             [] data[s].status = Reversed -> "ackFailure"
             [] OTHER -> "write")
  /\ UNCHANGED <<row, world, kind, local>>

(* Settled by the status; the others are left alone.                        *)
Settle(s) ==
  /\ At(s, "settle")
  /\ Go(s, CASE data[s].status = Unconfirmed -> "ack"
             [] data[s].status = LoadFailed -> "reverse"
             [] data[s].status = Reversed -> "ackFailure"
             [] OTHER -> "write")
  /\ UNCHANGED <<row, world, kind, local>>

(* The host answers 00.                                                     *)
AckTradeAnswered(s) ==
  /\ At(s, "ack")
  /\ told' = told \cup {cur[s]}
  /\ SetStatus(s, Confirmed) /\ tries' = [tries EXCEPT ![s] = 0]
  /\ Go(s, "write")
  /\ UNCHANGED <<row, account, loaded, platform, doubtful, unserved, kind, cur, ok, recovering>>

AckTradeFails_Forever(s) ==
  /\ At(s, "ack")
  /\ told' \in {told, told \cup {cur[s]}}
  /\ tries' = [tries EXCEPT ![s] = @ + 1]
  /\ UNCHANGED <<row, account, loaded, platform, doubtful, unserved, kind,
                 pc, cur, data, ok, recovering>>

(* It refuses, or its answer is lost.  A session that has given up leaves   *)
(* the row as it is; NotFinishChk writes the 3.                             *)
AckTradeFails(s) ==
  /\ At(s, "ack")
  /\ told' \in {told, told \cup {cur[s]}}
  /\ \/ /\ tries[s] + 1 < HostTries
        /\ tries' = [tries EXCEPT ![s] = @ + 1]
        /\ UNCHANGED <<pc, cur, data, ok, recovering>>
     \/ /\ tries[s] + 1 >= HostTries /\ recovering[s]
        /\ SetStatus(s, ConfirmFailed) /\ tries' = [tries EXCEPT ![s] = 0]
        /\ Go(s, "write")
        /\ UNCHANGED <<cur, ok, recovering>>
     \/ /\ tries[s] + 1 >= HostTries /\ ~recovering[s]
        /\ Go(s, "menu") /\ Forget(s)
  /\ UNCHANGED <<row, account, loaded, platform, doubtful, unserved, kind>>

(* The host has reversed the debit and says so; AckRevTrade is called once  *)
(* more for status 5.                                                       *)
RevTradeDone(s) ==
  /\ At(s, "reverse")
  /\ account' = [account EXCEPT ![cur[s]] = "reversed"]
  /\ SetStatus(s, Reversed) /\ tries' = [tries EXCEPT ![s] = 0]
  /\ Go(s, "ackFailure")
  /\ UNCHANGED <<row, told, loaded, platform, doubtful, unserved, kind, cur, ok, recovering>>

(* The host refuses.                                                        *)
RevTradeRefused(s) ==
  /\ At(s, "reverse")
  /\ SetStatus(s, ReversalFailed) /\ tries' = [tries EXCEPT ![s] = 0]
  /\ Go(s, "write")
  /\ UNCHANGED <<row, world, kind, cur, ok, recovering>>

RevTradeLost_TakenForDone(s) ==
  /\ At(s, "reverse")
  /\ \E a \in {account[cur[s]], "reversed"} : account' = [account EXCEPT ![cur[s]] = a]
  /\ \/ /\ tries[s] + 1 < HostTries
        /\ tries' = [tries EXCEPT ![s] = @ + 1]
        /\ UNCHANGED <<pc, data>>
     \/ /\ tries[s] + 1 >= HostTries \/ recovering[s]
        /\ SetStatus(s, Reversed) /\ tries' = [tries EXCEPT ![s] = 0]
        /\ Go(s, "ackFailure")
  /\ UNCHANGED <<row, told, loaded, platform, doubtful, unserved, kind, cur, ok, recovering>>

(* The answer is lost or cannot be unpacked, and the request is repeated;   *)
(* RevTrade, used by NotFinishChk, gives up at the first time-out.          *)
RevTradeLost(s) ==
  /\ At(s, "reverse")
  /\ \E a \in {account[cur[s]], "reversed"} : account' = [account EXCEPT ![cur[s]] = a]
  /\ \/ /\ tries[s] + 1 < HostTries
        /\ tries' = [tries EXCEPT ![s] = @ + 1]
        /\ UNCHANGED <<pc, data>>
     \/ /\ tries[s] + 1 >= HostTries \/ recovering[s]
        /\ SetStatus(s, ReversalFailed) /\ tries' = [tries EXCEPT ![s] = 0]
        /\ Go(s, "write")
  /\ UNCHANGED <<row, told, loaded, platform, doubtful, unserved, kind, cur, ok, recovering>>

(* The host is told that the top-up failed; the result is 5 in any case.    *)
AckFailure(s) ==
  /\ At(s, "ackFailure") /\ Go(s, "write")
  /\ UNCHANGED <<row, world, kind, local>>

(* The last update.                                                         *)
Write(s, saved) ==
  /\ At(s, "write")
  /\ UpdateRow(cur[s], data[s], saved)
  /\ Go(s, "menu") /\ Forget(s)
  /\ UNCHANGED <<world, kind>>

-----------------------------------------------------------------------------
NotFinishChk(s) ==
  \/ \E t \in TopUps : GetYctNotFinish(s, t)
  \/ NothingToFinish(s) \/ ReaderFails(s) \/ ReaderReady(s)
  \/ \E answered \in BOOLEAN : Resend(s, answered)

AckRevTrade(s) ==
  \/ Settle(s) \/ AckTradeAnswered(s) \/ AckTradeFails(s)
  \/ RevTradeDone(s) \/ RevTradeRefused(s) \/ RevTradeLost(s) \/ AckFailure(s)
  \/ \E saved \in BOOLEAN : Write(s, saved)

YCT_NormalTrade(s) ==
  \/ \E t \in TopUps : Pay(s, t) \/ PayAnswerLost(s, t)
  \/ SetYctYPData(s) \/ LoadNotStarted(s) \/ OtherTradeType(s) \/ TransferBalance(s)
  \/ LoadDone(s) \/ LoadRefused(s)
  \/ ReaderSilent(s) \/ LoadThrows(s) \/ Submitted(s) \/ SubmitFails(s) \/ Mark(s)

Next == \E s \in Sessions :
  \/ Login(s) \/ HangUp(s) \/ Crash(s)
  \/ NotFinishChk(s) \/ YCT_NormalTrade(s) \/ AckRevTrade(s)

Spec == Init /\ [][Next]_vars

(* Some threads may block for ever, wherever they are.  The others go on,   *)
(* their operators leave the menu, and the terminal is used again.          *)
FairSpec ==
  /\ Spec
  /\ \A s \in LiveSessions :
       /\ WF_vars(NotFinishChk(s) \/ YCT_NormalTrade(s) \/ AckRevTrade(s))
       /\ WF_vars(Login(s)) /\ WF_vars(HangUp(s))

-----------------------------------------------------------------------------
Places == {"off", "check", "reader", "resend", "settle", "ack", "reverse", "ackFailure", "write",
           "menu", "insert", "load", "submit", "rollback", "mark"}

(* The variables have their types; in particular a retry loop stops after   *)
(* its last try.                                                            *)
TypeOK ==
  /\ row \in [TopUps -> Data \cup {NoRow}]
  /\ account \in [TopUps -> {"untouched", "waived", "debited", "reversed"}]
  /\ told \subseteq TopUps /\ loaded \subseteq TopUps
  /\ platform \subseteq TopUps /\ doubtful \subseteq TopUps /\ unserved \subseteq TopUps
  /\ kind \in [TopUps -> [m1 : BOOLEAN, deposit : BOOLEAN]]
  /\ pc \in [Sessions -> Places] /\ cur \in [Sessions -> TopUps \cup {NoTopUp}]
  /\ data \in [Sessions -> Data] /\ ok \in [Sessions -> BOOLEAN]
  /\ recovering \in [Sessions -> BOOLEAN]
  /\ tries \in [Sessions -> Nat]
  /\ \A s \in Sessions : tries[s] < IF pc[s] \in {"ack", "reverse"} THEN HostTries ELSE SubmitTries

(* No customer gets the money back for an amount that is on the card, or    *)
(* for a top-up the host was told to be successful: whichever session       *)
(* settles the top-up, and wherever an earlier one died (NotFinishChk,      *)
(* YCT_AckRevTrade).                                                        *)
RefundedNotLoaded ==
  \A t \in TopUps : account[t] = "reversed" => t \notin loaded /\ t \notin told

P == INSTANCE Purchase WITH Purchases <- TopUps, money <- account, goods <- loaded, receipts <- told

(* Through crashes, lost answers and sessions that settle the top-up of     *)
(* another, a top-up is a purchase: loaded only after the debit, confirmed  *)
(* or reversed but not both, and not loaded after it was confirmed.         *)
IsPurchase == P!Spec

(* The host is told of a success only when the amount is on the card, or    *)
(* ST_NormalEnqPay made a success of something else: the reader fell silent *)
(* or the loading threw (then success is simulated), or the platform's      *)
(* trade type was none of a top-up (then 0 is returned without one).        *)
ConfirmedWasLoaded == told \subseteq loaded \cup doubtful \cup unserved

(* The final states of a row are true whatever was lost on the way: 5 means *)
(* that the host has reversed the debit, 2 that it was told (or, for a      *)
(* deposit, that there was no debit).                                       *)
FinalStatusTrue ==
  \A t \in TopUps : row[t] # NoRow =>
    /\ row[t].status = Reversed => account[t] = "reversed"
    /\ row[t].status = Confirmed => t \in told \/ kind[t].deposit

(* A result the platform must have (a CPU card was loaded, not merely       *)
(* served otherwise) has reached it before its row is out of NotFinishChk's *)
(* sight as a successful one.                                               *)
SubmittedOrListed ==
  \A t \in TopUps :
    row[t] # NoRow /\ ~kind[t].m1 /\ t \notin doubtful \cup unserved =>
      (row[t].status = Confirmed /\ row[t].ack = 1 => t \in platform)

(* A session dies, or its reader, the platform or the database fails while  *)
(* there is something to finish.  The answers of the host do not matter.    *)
Trouble == \E s \in Sessions :
  \/ Crash(s) \/ ReaderFails(s) \/ Resend(s, FALSE)
  \/ Write(s, FALSE) /\ row[cur[s]] # data[s]
  \/ NothingToFinish(s) /\ \E t \in TopUps : Unfinished(t)

(* A row NotFinishChk looks for does not stay unfinished for ever, unless   *)
(* the trouble never ends; the sessions of one live thread are enough, even *)
(* when another thread is blocked in the middle of the same top-up.         *)
UnfinishedIsSettled ==
  <>[][~Trouble]_vars => \A t \in TopUps : Unfinished(t) ~> ~Unfinished(t)

(* "Submitted again at the next start": a result whose submission failed    *)
(* (yct_ack = 0) is not marked as acknowledged before the platform has it.  *)
SubmittedAgain ==
  [][\A t \in TopUps : row[t] # NoRow /\ row[t].ack = 0 /\ row'[t].ack = 1 => t \in platform']_vars
=============================================================================
