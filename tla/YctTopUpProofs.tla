--------------------------- MODULE YctTopUpProofs ---------------------------
(***************************************************************************)
(* Proofs about YctTopUp, for any number of sessions, top-ups and tries.    *)
(* The properties rest on one fact that no single step shows: what remains  *)
(* of a loading that failed (in the row, in a session, at the host) and     *)
(* what remains of one that succeeded never exist together, although the    *)
(* session that saw the card dies and others go by the row alone.           *)
(***************************************************************************)
EXTENDS YctTopUp, TLAPS

Free == {"off", "check", "menu"}
Undecided == {"insert", "load", "submit", "rollback"}
Fetched == {"reader", "resend", "settle"}

(* A session has a top-up exactly while it works on one; a retry counter    *)
(* runs only in a retry loop, and a session that has not loaded yet has no  *)
(* result.                                                                  *)
Placed(s) ==
  /\ cur[s] = NoTopUp <=> pc[s] \in Free
  /\ recovering[s] => pc[s] \in Fetched \cup {"ack", "reverse", "ackFailure", "write"}
  /\ pc[s] \in {"reader", "resend"} => recovering[s]
  /\ pc[s] \notin {"ack", "reverse", "submit", "rollback"} => tries[s] = 0
  /\ pc[s] \in Free \cup {"insert", "load"} => ~ok[s]
  /\ pc[s] = "rollback" => ~ok[s]
  /\ pc[s] = "insert" => ~data[s].msg /\ data[s].status \in {LoadFailed, ReversalFailed}
  /\ pc[s] = "ack" => data[s].status = Unconfirmed
  /\ pc[s] = "reverse" => data[s].status = LoadFailed
  /\ pc[s] = "ackFailure" => data[s].status = Reversed
  /\ pc[s] = "write" => data[s].status \notin {Unconfirmed, LoadFailed}

PlaceInv == \A s \in Sessions : Placed(s)
TypeInv == TypeOK /\ PlaceInv

(* One session at most has debited a top-up and not finished with it.       *)
OneOwner(t) == \A r, s \in Sessions :
  cur[r] = t /\ cur[s] = t /\ ~recovering[r] /\ ~recovering[s] => r = s

(* A top-up that nobody began has left no trace; the refund of a deposit    *)
(* debits nothing and is neither confirmed nor reversed.                    *)
Traced(t) ==
  /\ account[t] = "untouched" =>
       /\ row[t] = NoRow /\ t \notin loaded /\ t \notin told
       /\ \A s \in Sessions : cur[s] # t
  /\ account[t] = "waived" <=> kind[t].deposit /\ account[t] # "untouched"
  /\ kind[t].deposit =>
       /\ row[t] # NoRow => row[t].status \notin {Unconfirmed, LoadFailed, Reversed}
       /\ \A s \in Sessions :
            cur[s] = t => data[s].status \notin {Unconfirmed, LoadFailed, Reversed}

(* The final states are true in the sessions' copies as well as in the row. *)
TrueOf(t, d) ==
  /\ d.status = Reversed => account[t] = "reversed"
  /\ d.status = Confirmed => t \in told \/ kind[t].deposit
StatusTrue(t) ==
  /\ row[t] # NoRow => TrueOf(t, row[t])
  /\ \A s \in Sessions : cur[s] = t => TrueOf(t, data[s])

(* Session s knows that the loading failed, or that it succeeded.           *)
SawFailure(s) ==
  \/ pc[s] = "reverse"
  \/ pc[s] = "mark" /\ ~ok[s]
  \/ pc[s] = "reader" /\ data[s].msg /\ data[s].status = LoadFailed
  \/ pc[s] \in {"resend", "settle"} /\ data[s].status = LoadFailed

SawSuccess(s) ==
  \/ pc[s] = "ack"
  \/ pc[s] = "mark" /\ ok[s]
  \/ pc[s] \in Fetched /\ data[s].status = Unconfirmed

(* Nothing says that the loading of t failed.                               *)
NotFailed(t) ==
  /\ account[t] # "reversed"
  /\ ~(row[t] # NoRow /\ row[t].msg /\ row[t].status = LoadFailed)
  /\ \A s \in Sessions : cur[s] = t => ~SawFailure(s)

(* Nothing says that it succeeded.                                          *)
NotSucceeded(t) ==
  /\ t \notin told /\ t \notin loaded
  /\ ~(row[t] # NoRow /\ row[t].status = Unconfirmed)
  /\ \A s \in Sessions : cur[s] = t => ~SawSuccess(s)

(* The two never meet, and neither is there before the session that loads   *)
(* the card knows the result.                                               *)
OneOutcome(t) ==
  /\ NotFailed(t) \/ NotSucceeded(t)
  /\ NotSucceeded(t) \/ t \in loaded \cup doubtful \cup unserved
  /\ \A s \in Sessions : cur[s] = t /\ pc[s] \in Undecided =>
       /\ NotFailed(t)
       /\ IF ok[s] THEN t \in loaded \cup unserved ELSE NotSucceeded(t)

(* What a session holds as acknowledged by the platform has reached it.     *)
MustSubmit(t) == ~kind[t].m1 /\ t \notin doubtful \cup unserved
AckTrue(t) == MustSubmit(t) =>
  /\ row[t] # NoRow /\ row[t].status \in {Unconfirmed, Confirmed} /\ row[t].ack = 1 =>
       t \in platform
  /\ \A s \in Sessions : cur[s] = t /\ data[s].ack = 1 =>
       /\ pc[s] = "mark" /\ ok[s] => t \in platform
       /\ pc[s] \notin Undecided \cup {"mark"} /\ data[s].status \in {Unconfirmed, Confirmed} =>
            t \in platform

Good(t) == OneOwner(t) /\ Traced(t) /\ StatusTrue(t) /\ OneOutcome(t) /\ AckTrue(t)
IInv == TypeInv /\ \A t \in TopUps : Good(t)

-----------------------------------------------------------------------------
(* The types, for one session and for what the sessions share.              *)
SessionOK(s) ==
  /\ pc[s] \in Places /\ cur[s] \in TopUps \cup {NoTopUp} /\ data[s] \in Data
  /\ ok[s] \in BOOLEAN /\ recovering[s] \in BOOLEAN /\ tries[s] \in Nat
  /\ tries[s] < IF pc[s] \in {"ack", "reverse"} THEN HostTries ELSE SubmitTries
  /\ Placed(s)

WorldOK ==
  /\ row \in [TopUps -> Data \cup {NoRow}]
  /\ account \in [TopUps -> {"untouched", "waived", "debited", "reversed"}]
  /\ told \subseteq TopUps /\ loaded \subseteq TopUps
  /\ platform \subseteq TopUps /\ doubtful \subseteq TopUps /\ unserved \subseteq TopUps
  /\ kind \in [TopUps -> [m1 : BOOLEAN, deposit : BOOLEAN]]

(* A step of session s changes nothing of the other sessions.               *)
Only(s) ==
  /\ pc' = [pc EXCEPT ![s] = pc'[s]] /\ cur' = [cur EXCEPT ![s] = cur'[s]]
  /\ data' = [data EXCEPT ![s] = data'[s]] /\ ok' = [ok EXCEPT ![s] = ok'[s]]
  /\ recovering' = [recovering EXCEPT ![s] = recovering'[s]]
  /\ tries' = [tries EXCEPT ![s] = tries'[s]]

(* What TypeInv says of one session.                                        *)
LEMMA SessionTypes == ASSUME TypeInv, NEW s \in Sessions PROVE SessionOK(s) /\ WorldOK
  BY DEF TypeInv, TypeOK, PlaceInv, SessionOK, WorldOK

(* It is enough to look at the session that moves.                          *)
LEMMA TypeFrame ==
  ASSUME TypeInv, NEW s \in Sessions, Only(s), SessionOK(s)', WorldOK'
  PROVE  TypeInv'
<1> USE DEF TypeInv, TypeOK, SessionOK, Only
<1>1. /\ pc' \in [Sessions -> Places] /\ cur' \in [Sessions -> TopUps \cup {NoTopUp}]
      /\ data' \in [Sessions -> Data]
  OBVIOUS
<1>2. /\ ok' \in [Sessions -> BOOLEAN] /\ recovering' \in [Sessions -> BOOLEAN]
      /\ tries' \in [Sessions -> Nat]
  OBVIOUS
<1>3. \A r \in Sessions : tries'[r] < IF pc'[r] \in {"ack", "reverse"} THEN HostTries
                                        ELSE SubmitTries
  <2> SUFFICES ASSUME NEW r \in Sessions, r # s
               PROVE  pc'[r] = pc[r] /\ tries'[r] = tries[r]
    OBVIOUS
  <2> QED
    OBVIOUS
<1>4. TypeOK'
  BY <1>1, <1>2, <1>3 DEF WorldOK
<1>5. PlaceInv'
  BY DEF PlaceInv, Placed
<1> QED
  BY <1>4, <1>5

(* The types, for the beginning and the end of a session.                   *)
LEMMA TypeEnds ==
  ASSUME TypeInv, NEW s \in Sessions, Login(s) \/ HangUp(s) \/ Crash(s)
  PROVE  Only(s) /\ TypeInv'
<1> USE TopUpAssumption, NoRowAssumption
    DEF Go, At, SetStatus, Forget, world, local, NoData, Places, Free, Fetched, Data,
        Unconfirmed, Confirmed, ConfirmFailed, LoadFailed, Reversed, ReversalFailed, Unknown
<1>1. SessionOK(s) /\ WorldOK
  BY SessionTypes
<1>2. ASSUME Login(s) PROVE Only(s) /\ TypeInv'
  <2>1. Only(s)
    BY <1>2 DEF Login, Only, TypeInv, TypeOK
  <2>2. SessionOK(s)'
    BY <1>1, <1>2 DEF Login, SessionOK, Placed, WorldOK, Unfinished, TypeInv, TypeOK
  <2>3. WorldOK'
    BY <1>1, <1>2 DEF Login, SessionOK, Placed, WorldOK, UpdateRow
  <2> QED
    BY <2>1, <2>2, <2>3, TypeFrame
<1>3. ASSUME HangUp(s) PROVE Only(s) /\ TypeInv'
  <2>1. Only(s)
    BY <1>3 DEF HangUp, Only, TypeInv, TypeOK
  <2>2. SessionOK(s)'
    BY <1>1, <1>3 DEF HangUp, SessionOK, Placed, WorldOK, Unfinished, TypeInv, TypeOK
  <2>3. WorldOK'
    BY <1>1, <1>3 DEF HangUp, SessionOK, Placed, WorldOK, UpdateRow
  <2> QED
    BY <2>1, <2>2, <2>3, TypeFrame
<1>4. ASSUME Crash(s) PROVE Only(s) /\ TypeInv'
  <2>1. Only(s)
    BY <1>4 DEF Crash, Only, TypeInv, TypeOK
  <2>2. SessionOK(s)'
    BY <1>1, <1>4 DEF Crash, SessionOK, Placed, WorldOK, Unfinished, TypeInv, TypeOK
  <2>3. WorldOK'
    BY <1>1, <1>4 DEF Crash, SessionOK, Placed, WorldOK, UpdateRow
  <2> QED
    BY <2>1, <2>2, <2>3, TypeFrame
<1> QED
  BY <1>2, <1>3, <1>4

(* The types, for NotFinishChk.                                             *)
LEMMA TypeCheck ==
  ASSUME TypeInv, NEW s \in Sessions, NotFinishChk(s)
  PROVE  Only(s) /\ TypeInv'
<1> USE TopUpAssumption, NoRowAssumption
    DEF Go, At, SetStatus, Forget, world, local, NoData, Places, Free, Fetched, Data,
        Unconfirmed, Confirmed, ConfirmFailed, LoadFailed, Reversed, ReversalFailed, Unknown
<1>1. SessionOK(s) /\ WorldOK
  BY SessionTypes
<1>2. ASSUME NEW t \in TopUps, GetYctNotFinish(s, t) PROVE Only(s) /\ TypeInv'
  <2>1. Only(s)
    BY <1>2 DEF GetYctNotFinish, Only, TypeInv, TypeOK
  <2>2. SessionOK(s)'
    BY <1>1, <1>2, SMTT(30)
       DEF GetYctNotFinish, SessionOK, Placed, WorldOK, Unfinished, TypeInv, TypeOK
  <2>3. WorldOK'
    BY <1>1, <1>2 DEF GetYctNotFinish, SessionOK, Placed, WorldOK, UpdateRow
  <2> QED
    BY <2>1, <2>2, <2>3, TypeFrame
<1>3. ASSUME NothingToFinish(s) PROVE Only(s) /\ TypeInv'
  <2>1. Only(s)
    BY <1>3 DEF NothingToFinish, Only, TypeInv, TypeOK
  <2>2. SessionOK(s)'
    BY <1>1, <1>3 DEF NothingToFinish, SessionOK, Placed, WorldOK, Unfinished, TypeInv, TypeOK
  <2>3. WorldOK'
    BY <1>1, <1>3 DEF NothingToFinish, SessionOK, Placed, WorldOK, UpdateRow
  <2> QED
    BY <2>1, <2>2, <2>3, TypeFrame
<1>4. ASSUME ReaderFails(s) PROVE Only(s) /\ TypeInv'
  <2>1. Only(s)
    BY <1>4 DEF ReaderFails, Only, TypeInv, TypeOK
  <2>2. SessionOK(s)'
    BY <1>1, <1>4 DEF ReaderFails, SessionOK, Placed, WorldOK, Unfinished, TypeInv, TypeOK
  <2>3. WorldOK'
    BY <1>1, <1>4 DEF ReaderFails, SessionOK, Placed, WorldOK, UpdateRow
  <2> QED
    BY <2>1, <2>2, <2>3, TypeFrame
<1>5. ASSUME ReaderReady(s) PROVE Only(s) /\ TypeInv'
  <2>1. Only(s)
    BY <1>5 DEF ReaderReady, Only, TypeInv, TypeOK
  <2>2. SessionOK(s)'
    <3>1. /\ pc[s] = "reader" /\ UNCHANGED <<cur, ok, recovering, tries>>
          /\ pc'[s] \in {"resend", "settle"}
      BY <1>5 DEF ReaderReady, TypeInv, TypeOK
    <3>2. data'[s] \in Data
      <4>1. CASE data' = [data EXCEPT ![s].ack = 1, ![s].status = Unknown]
        <5> DEFINE d == data[s]
        <5>1. data'[s] = [d EXCEPT !.ack = 1, !.status = Unknown]
          BY <4>1 DEF TypeInv, TypeOK
        <5>2. d \in Data
          BY <1>1 DEF SessionOK
        <5> HIDE DEF d
        <5>3. d.msg \in BOOLEAN /\ data'[s] = [status |-> Unknown, ack |-> 1, msg |-> d.msg]
          BY <5>1, <5>2
        <5> QED
          BY <5>3
      <4>2. CASE data' = data
        BY <1>1, <4>2 DEF SessionOK
      <4> QED
        BY <1>5, <4>1, <4>2 DEF ReaderReady
    <3> QED
      BY <1>1, <3>1, <3>2 DEF SessionOK, Placed
  <2>3. WorldOK'
    <3>1. row' \in [TopUps -> Data \cup {NoRow}]
      BY <1>1, <1>5, <2>2 DEF ReaderReady, UpdateRow, SessionOK, WorldOK
    <3> QED
      BY <1>1, <1>5, <3>1 DEF ReaderReady, WorldOK
  <2> QED
    BY <2>1, <2>2, <2>3, TypeFrame
<1>6. ASSUME NEW b \in BOOLEAN, Resend(s, b) PROVE Only(s) /\ TypeInv'
  <2>1. Only(s)
    BY <1>6 DEF Resend, Only, TypeInv, TypeOK
  <2>2. SessionOK(s)'
    BY <1>1, <1>6 DEF Resend, SessionOK, Placed, WorldOK, Unfinished, TypeInv, TypeOK
  <2>3. WorldOK'
    BY <1>1, <1>6 DEF Resend, SessionOK, Placed, WorldOK, UpdateRow
  <2> QED
    BY <2>1, <2>2, <2>3, TypeFrame
<1> QED
  BY <1>2, <1>3, <1>4, <1>5, <1>6 DEF NotFinishChk

(* The types, for a new top-up.                                             *)
LEMMA TypeTrade ==
  ASSUME TypeInv, NEW s \in Sessions, YCT_NormalTrade(s)
  PROVE  Only(s) /\ TypeInv'
<1> USE TopUpAssumption, NoRowAssumption
    DEF Go, At, SetStatus, Forget, world, local, NoData, Places, Free, Fetched, Data,
        Unconfirmed, Confirmed, ConfirmFailed, LoadFailed, Reversed, ReversalFailed, Unknown
<1>1. SessionOK(s) /\ WorldOK
  BY SessionTypes
<1>2. ASSUME NEW t \in TopUps, Pay(s, t) PROVE Only(s) /\ TypeInv'
  <2>1. Only(s)
    BY <1>2 DEF Pay, Only, TypeInv, TypeOK
  <2>2. SessionOK(s)'
    <3>1. data'[s] \in Data
      <4>1. data'[s] = [status |-> IF kind[t].deposit THEN ReversalFailed ELSE LoadFailed,
                        ack |-> 1, msg |-> FALSE]
        BY <1>1, <1>2 DEF Pay, TypeInv, TypeOK
      <4> QED
        BY <4>1
    <3>2. pc'[s] = "insert" /\ cur'[s] = t /\ ~data'[s].msg
          /\ data'[s].status \in {LoadFailed, ReversalFailed}
      BY <1>1, <1>2 DEF Pay, TypeInv, TypeOK
    <3> QED
      BY <1>1, <1>2, <3>1, <3>2 DEF Pay, SessionOK, Placed
  <2>3. WorldOK'
    BY <1>1, <1>2 DEF Pay, SessionOK, WorldOK
  <2> QED
    BY <2>1, <2>2, <2>3, TypeFrame
<1>3. ASSUME NEW t \in TopUps, PayAnswerLost(s, t) PROVE Only(s) /\ TypeInv'
  <2>1. Only(s)
    BY <1>3 DEF PayAnswerLost, Only, TypeInv, TypeOK
  <2>2. SessionOK(s)'
    BY <1>1, <1>3 DEF PayAnswerLost, SessionOK, Placed, WorldOK, Unfinished, TypeInv, TypeOK
  <2>3. WorldOK'
    BY <1>1, <1>3 DEF PayAnswerLost, SessionOK, Placed, WorldOK, UpdateRow
  <2> QED
    BY <2>1, <2>2, <2>3, TypeFrame
<1>4. ASSUME SetYctYPData(s) PROVE Only(s) /\ TypeInv'
  <2>1. Only(s)
    BY <1>4 DEF SetYctYPData, Only, TypeInv, TypeOK
  <2>2. SessionOK(s)'
    BY <1>1, <1>4 DEF SetYctYPData, SessionOK, Placed, WorldOK, Unfinished, TypeInv, TypeOK
  <2>3. WorldOK'
    BY <1>1, <1>4 DEF SetYctYPData, SessionOK, Placed, WorldOK, UpdateRow
  <2> QED
    BY <2>1, <2>2, <2>3, TypeFrame
<1>5. ASSUME LoadNotStarted(s) PROVE Only(s) /\ TypeInv'
  <2>1. Only(s)
    BY <1>5 DEF LoadNotStarted, Only, TypeInv, TypeOK
  <2>2. SessionOK(s)'
    BY <1>1, <1>5 DEF LoadNotStarted, SessionOK, Placed, WorldOK, Unfinished, TypeInv, TypeOK
  <2>3. WorldOK'
    BY <1>1, <1>5 DEF LoadNotStarted, SessionOK, Placed, WorldOK, UpdateRow
  <2> QED
    BY <2>1, <2>2, <2>3, TypeFrame
<1>6. ASSUME LoadDone(s) PROVE Only(s) /\ TypeInv'
  <2>1. Only(s)
    BY <1>6 DEF LoadDone, Only, TypeInv, TypeOK
  <2>2. SessionOK(s)'
    BY <1>1, <1>6 DEF LoadDone, SessionOK, Placed, WorldOK, Unfinished, TypeInv, TypeOK
  <2>3. WorldOK'
    BY <1>1, <1>6 DEF LoadDone, SessionOK, Placed, WorldOK, UpdateRow
  <2> QED
    BY <2>1, <2>2, <2>3, TypeFrame
<1>7. ASSUME LoadRefused(s) PROVE Only(s) /\ TypeInv'
  <2>1. Only(s)
    BY <1>7 DEF LoadRefused, Only, TypeInv, TypeOK
  <2>2. SessionOK(s)'
    BY <1>1, <1>7 DEF LoadRefused, SessionOK, Placed, WorldOK, Unfinished, TypeInv, TypeOK
  <2>3. WorldOK'
    BY <1>1, <1>7 DEF LoadRefused, SessionOK, Placed, WorldOK, UpdateRow
  <2> QED
    BY <2>1, <2>2, <2>3, TypeFrame
<1>8. ASSUME ReaderSilent(s) PROVE Only(s) /\ TypeInv'
  <2>1. Only(s)
    BY <1>8 DEF ReaderSilent, Only, TypeInv, TypeOK
  <2>2. SessionOK(s)'
    BY <1>1, <1>8 DEF ReaderSilent, SessionOK, Placed, WorldOK, Unfinished, TypeInv, TypeOK
  <2>3. WorldOK'
    BY <1>1, <1>8 DEF ReaderSilent, SessionOK, Placed, WorldOK, UpdateRow
  <2> QED
    BY <2>1, <2>2, <2>3, TypeFrame
<1>8a. ASSUME OtherTradeType(s) PROVE Only(s) /\ TypeInv'
  <2>1. Only(s)
    BY <1>8a DEF OtherTradeType, Only, TypeInv, TypeOK
  <2>2. SessionOK(s)'
    BY <1>1, <1>8a DEF OtherTradeType, SessionOK, Placed, WorldOK, Unfinished, TypeInv, TypeOK
  <2>3. WorldOK'
    BY <1>1, <1>8a DEF OtherTradeType, SessionOK, Placed, WorldOK, UpdateRow
  <2> QED
    BY <2>1, <2>2, <2>3, TypeFrame
<1>8b. ASSUME TransferBalance(s) PROVE Only(s) /\ TypeInv'
  <2>1. Only(s)
    BY <1>8b DEF TransferBalance, Only, TypeInv, TypeOK
  <2>2. SessionOK(s)'
    BY <1>1, <1>8b DEF TransferBalance, SessionOK, Placed, WorldOK, Unfinished, TypeInv, TypeOK
  <2>3. WorldOK'
    BY <1>1, <1>8b DEF TransferBalance, SessionOK, Placed, WorldOK, UpdateRow
  <2> QED
    BY <2>1, <2>2, <2>3, TypeFrame
<1>9. ASSUME LoadThrows(s) PROVE Only(s) /\ TypeInv'
  <2>1. Only(s)
    BY <1>9 DEF LoadThrows, Only, TypeInv, TypeOK
  <2>2. SessionOK(s)'
    BY <1>1, <1>9 DEF LoadThrows, SessionOK, Placed, WorldOK, Unfinished, TypeInv, TypeOK
  <2>3. WorldOK'
    BY <1>1, <1>9 DEF LoadThrows, SessionOK, Placed, WorldOK, UpdateRow
  <2> QED
    BY <2>1, <2>2, <2>3, TypeFrame
<1>10. ASSUME Submitted(s) PROVE Only(s) /\ TypeInv'
  <2>1. Only(s)
    BY <1>10 DEF Submitted, Only, TypeInv, TypeOK
  <2>2. SessionOK(s)'
    <3>1. data'[s] = [data[s] EXCEPT !.msg = data[s].msg \/ TRUE \/ kind[cur[s]].m1]
      BY <1>1, <1>10 DEF Submitted, SubmitTry, TypeInv, TypeOK
    <3>2. data'[s] \in Data
      BY <1>1, <3>1 DEF SessionOK
    <3>3. data'[s].status = data[s].status /\ pc'[s] = "mark" /\ tries'[s] = 0
      BY <1>1, <1>10, <3>1 DEF Submitted, SessionOK, TypeInv, TypeOK
    <3>4. cur'[s] = cur[s] /\ ok'[s] = ok[s] /\ recovering'[s] = recovering[s]
      BY <1>10 DEF Submitted
    <3>5. pc[s] \in {"submit", "rollback"}
      BY <1>10 DEF Submitted
    <3> QED
      BY <1>1, <3>2, <3>3, <3>4, <3>5 DEF SessionOK, Placed
  <2>3. WorldOK'
    BY <1>1, <1>10 DEF Submitted, SessionOK, WorldOK, Placed
  <2> QED
    BY <2>1, <2>2, <2>3, TypeFrame
<1>11. ASSUME SubmitFails(s) PROVE Only(s) /\ TypeInv'
  <2>1. Only(s)
    BY <1>11 DEF SubmitFails, Only, TypeInv, TypeOK
  <2>2. SessionOK(s)'
    <3>1. PICK connected \in BOOLEAN :
            data'[s] = [SubmitTry(s, connected) EXCEPT
                          !.ack = IF tries[s] + 1 = SubmitTries /\ At(s, "submit") THEN 0 ELSE @]
      BY <1>1, <1>11 DEF SubmitFails, TypeInv, TypeOK
    <3>2. kind[cur[s]].m1 \in BOOLEAN
      BY <1>1, <1>11 DEF SubmitFails, SessionOK, Placed, WorldOK
    <3>3. SubmitTry(s, connected) \in Data
      BY <1>1, <3>2 DEF SubmitTry, SessionOK
    <3>4. data'[s] \in Data
      BY <3>1, <3>3
    <3>5. data'[s].status = data[s].status
      BY <1>1, <3>1, <3>3 DEF SubmitTry, SessionOK
    <3> QED
      BY <1>1, <1>11, <3>4, <3>5 DEF SubmitFails, SessionOK, Placed, TypeInv, TypeOK
  <2>3. WorldOK'
    BY <1>1, <1>11 DEF SubmitFails, SessionOK, WorldOK, Placed
  <2> QED
    BY <2>1, <2>2, <2>3, TypeFrame
<1>12. ASSUME Mark(s) PROVE Only(s) /\ TypeInv'
  <2>1. Only(s)
    BY <1>12 DEF Mark, Only, TypeInv, TypeOK
  <2>2. SessionOK(s)'
    <3>1. LoadStatus(s) \in 1 .. 7
      BY DEF LoadStatus
    <3>2. data'[s] = [data[s] EXCEPT !.status = LoadStatus(s)]
      BY <1>1, <1>12 DEF Mark, TypeInv, TypeOK
    <3>3. data'[s] \in Data
      BY <1>1, <3>1, <3>2 DEF SessionOK
    <3> QED
      BY <1>1, <1>12, <3>3 DEF Mark, SessionOK, Placed, TypeInv, TypeOK
  <2>3. WorldOK'
    <3>1. row' \in [TopUps -> Data \cup {NoRow}]
      BY <1>1, <1>12, <2>2 DEF Mark, UpdateRow, SessionOK, WorldOK
    <3> QED
      BY <1>1, <1>12, <3>1 DEF Mark, WorldOK
  <2> QED
    BY <2>1, <2>2, <2>3, TypeFrame
<1> QED
  BY <1>2, <1>3, <1>4, <1>5, <1>6, <1>7, <1>8, <1>8a, <1>8b, <1>9, <1>10, <1>11, <1>12
  DEF YCT_NormalTrade

(* The types, for the settlement with the host.                             *)
LEMMA TypeSettle ==
  ASSUME TypeInv, NEW s \in Sessions, AckRevTrade(s)
  PROVE  Only(s) /\ TypeInv'
<1> USE TopUpAssumption, NoRowAssumption
    DEF Go, At, SetStatus, Forget, world, local, NoData, Places, Free, Fetched, Data,
        Unconfirmed, Confirmed, ConfirmFailed, LoadFailed, Reversed, ReversalFailed, Unknown
<1>1. SessionOK(s) /\ WorldOK
  BY SessionTypes
<1>2. ASSUME Settle(s) PROVE Only(s) /\ TypeInv'
  <2>1. Only(s)
    BY <1>2 DEF Settle, Only, TypeInv, TypeOK
  <2>2. SessionOK(s)'
    BY <1>1, <1>2 DEF Settle, SessionOK, Placed, WorldOK, Unfinished, TypeInv, TypeOK
  <2>3. WorldOK'
    BY <1>1, <1>2 DEF Settle, SessionOK, Placed, WorldOK, UpdateRow
  <2> QED
    BY <2>1, <2>2, <2>3, TypeFrame
<1>3. ASSUME AckTradeAnswered(s) PROVE Only(s) /\ TypeInv'
  <2>1. Only(s)
    BY <1>3 DEF AckTradeAnswered, Only, TypeInv, TypeOK
  <2>2. SessionOK(s)'
    BY <1>1, <1>3, SMTT(30) DEF AckTradeAnswered, SessionOK, Placed, NoData, TypeInv, TypeOK
  <2>3. WorldOK'
    BY <1>1, <1>3 DEF AckTradeAnswered, SessionOK, WorldOK, Placed
  <2> QED
    BY <2>1, <2>2, <2>3, TypeFrame
<1>4. ASSUME AckTradeFails(s) PROVE Only(s) /\ TypeInv'
  <2>1. Only(s)
    BY <1>4 DEF AckTradeFails, Only, TypeInv, TypeOK
  <2>2. SessionOK(s)'
    <3>1. CASE tries[s] + 1 < HostTries /\ tries' = [tries EXCEPT ![s] = @ + 1]
               /\ UNCHANGED <<pc, cur, data, ok, recovering>>
      BY <1>1, <1>4, <3>1 DEF AckTradeFails, SessionOK, Placed, TypeInv, TypeOK
    <3>2. CASE /\ SetStatus(s, ConfirmFailed) /\ tries' = [tries EXCEPT ![s] = 0]
               /\ Go(s, "write") /\ UNCHANGED <<cur, ok, recovering>>
      <4>3. /\ pc'[s] = "write" /\ tries'[s] = 0
            /\ cur'[s] = cur[s] /\ ok'[s] = ok[s] /\ recovering'[s] = recovering[s]
        BY <3>2 DEF TypeInv, TypeOK
      <4>4. data'[s] = [data[s] EXCEPT !.status = ConfirmFailed]
        BY <3>2 DEF TypeInv, TypeOK
      <4>5. data[s] \in Data
        BY <1>1 DEF SessionOK
      <4>6. data'[s] \in Data
        BY <4>4, <4>5
      <4>1. /\ pc'[s] = "write" /\ data'[s] \in Data /\ tries'[s] = 0
            /\ cur'[s] = cur[s] /\ ok'[s] = ok[s] /\ recovering'[s] = recovering[s]
            /\ data'[s] = [data[s] EXCEPT !.status = ConfirmFailed]
        BY <4>3, <4>4, <4>6
      <4>2. pc[s] = "ack" /\ SessionOK(s)
        BY <1>1, <1>4 DEF AckTradeFails
      <4> QED
        BY <4>1, <4>2 DEF SessionOK, Placed
    <3>3. CASE Go(s, "menu") /\ Forget(s)
      BY <1>1, <1>4, <3>3 DEF AckTradeFails, SessionOK, Placed, TypeInv, TypeOK
    <3> QED
      BY <1>4, <3>1, <3>2, <3>3 DEF AckTradeFails
  <2>3. WorldOK'
    BY <1>1, <1>4 DEF AckTradeFails, SessionOK, WorldOK, Placed
  <2> QED
    BY <2>1, <2>2, <2>3, TypeFrame
<1>5. ASSUME RevTradeDone(s) PROVE Only(s) /\ TypeInv'
  <2>1. Only(s)
    BY <1>5 DEF RevTradeDone, Only, TypeInv, TypeOK
  <2>2. SessionOK(s)'
    <3>1. data'[s] = [data[s] EXCEPT !.status = Reversed]
      BY <1>5 DEF RevTradeDone, TypeInv, TypeOK
    <3>2. data'[s] \in Data
      <4>1. data[s] \in Data
        BY <1>1 DEF SessionOK
      <4> QED
        BY <3>1, <4>1 DEF Data
    <3> QED
      BY <1>1, <1>5, <3>1, <3>2 DEF RevTradeDone, SessionOK, Placed, TypeInv, TypeOK
  <2>3. WorldOK'
    BY <1>1, <1>5 DEF RevTradeDone, SessionOK, WorldOK, Placed
  <2> QED
    BY <2>1, <2>2, <2>3, TypeFrame
<1>6. ASSUME RevTradeRefused(s) PROVE Only(s) /\ TypeInv'
  <2>1. Only(s)
    BY <1>6 DEF RevTradeRefused, Only, TypeInv, TypeOK
  <2>2. SessionOK(s)'
    <3>1. data'[s] = [data[s] EXCEPT !.status = ReversalFailed]
      BY <1>6 DEF RevTradeRefused, TypeInv, TypeOK
    <3>2. data'[s] \in Data
      <4>1. data[s] \in Data
        BY <1>1 DEF SessionOK
      <4> QED
        BY <3>1, <4>1 DEF Data
    <3> QED
      BY <1>1, <1>6, <3>1, <3>2 DEF RevTradeRefused, SessionOK, Placed, TypeInv, TypeOK
  <2>3. WorldOK'
    BY <1>1, <1>6 DEF RevTradeRefused, SessionOK, Placed, WorldOK, UpdateRow
  <2> QED
    BY <2>1, <2>2, <2>3, TypeFrame
<1>7. ASSUME RevTradeLost(s) PROVE Only(s) /\ TypeInv'
  <2>1. Only(s)
    BY <1>7 DEF RevTradeLost, Only, TypeInv, TypeOK
  <2>2. SessionOK(s)'
    <3>1. CASE /\ tries[s] + 1 < HostTries /\ tries' = [tries EXCEPT ![s] = @ + 1]
               /\ UNCHANGED <<pc, data>>
      BY <1>1, <1>7, <3>1 DEF RevTradeLost, SessionOK, Placed, TypeInv, TypeOK
    <3>2. CASE /\ SetStatus(s, ReversalFailed) /\ tries' = [tries EXCEPT ![s] = 0]
               /\ Go(s, "write")
      <4>1. data'[s] = [data[s] EXCEPT !.status = ReversalFailed]
        BY <3>2 DEF TypeInv, TypeOK
      <4>2. data[s] \in Data
        BY <1>1 DEF SessionOK
      <4>3. data'[s] \in Data
        BY <4>1, <4>2
      <4> QED
        BY <1>1, <1>7, <3>2, <4>1, <4>3 DEF RevTradeLost, SessionOK, Placed, TypeInv, TypeOK
    <3> QED
      BY <1>7, <3>1, <3>2 DEF RevTradeLost
  <2>3. WorldOK'
    BY <1>1, <1>7 DEF RevTradeLost, SessionOK, Placed, WorldOK, UpdateRow
  <2> QED
    BY <2>1, <2>2, <2>3, TypeFrame
<1>8. ASSUME AckFailure(s) PROVE Only(s) /\ TypeInv'
  <2>1. Only(s)
    BY <1>8 DEF AckFailure, Only, TypeInv, TypeOK
  <2>2. SessionOK(s)'
    BY <1>1, <1>8 DEF AckFailure, SessionOK, Placed, WorldOK, Unfinished, TypeInv, TypeOK
  <2>3. WorldOK'
    BY <1>1, <1>8 DEF AckFailure, SessionOK, Placed, WorldOK, UpdateRow
  <2> QED
    BY <2>1, <2>2, <2>3, TypeFrame
<1>9. ASSUME NEW b \in BOOLEAN, Write(s, b) PROVE Only(s) /\ TypeInv'
  <2>1. Only(s)
    BY <1>9 DEF Write, Only, TypeInv, TypeOK
  <2>2. SessionOK(s)'
    BY <1>1, <1>9 DEF Write, SessionOK, Placed, WorldOK, Unfinished, TypeInv, TypeOK
  <2>3. WorldOK'
    BY <1>1, <1>9 DEF Write, SessionOK, Placed, WorldOK, UpdateRow
  <2> QED
    BY <2>1, <2>2, <2>3, TypeFrame
<1> QED
  BY <1>2, <1>3, <1>4, <1>5, <1>6, <1>7, <1>8, <1>9 DEF AckRevTrade


-----------------------------------------------------------------------------
(* The types, for every step of a session.                                  *)
LEMMA TypeStep ==
  ASSUME TypeInv, NEW s \in Sessions,
         \/ Login(s) \/ HangUp(s) \/ Crash(s)
         \/ NotFinishChk(s) \/ YCT_NormalTrade(s) \/ AckRevTrade(s)
  PROVE  Only(s) /\ TypeInv' /\ SessionOK(s)'
<1>1. Only(s) /\ TypeInv'
  BY TypeEnds, TypeCheck, TypeTrade, TypeSettle
<1> QED
  BY <1>1 DEF TypeInv, TypeOK, PlaceInv, SessionOK

(* A step of session s concerns the top-up t and no other.                  *)
Touches(s, t) ==
  /\ \A r \in Sessions : r # s =>
       /\ pc'[r] = pc[r] /\ cur'[r] = cur[r] /\ data'[r] = data[r]
       /\ ok'[r] = ok[r] /\ recovering'[r] = recovering[r]
  /\ cur[s] \in {t, NoTopUp} /\ cur'[s] \in {t, NoTopUp}
  /\ \A u \in TopUps : u # t =>
       /\ row'[u] = row[u] /\ account'[u] = account[u]
       /\ (u \in told' <=> u \in told) /\ (u \in loaded' <=> u \in loaded)
       /\ (u \in platform' <=> u \in platform) /\ (u \in doubtful' <=> u \in doubtful)
      /\ (u \in unserved' <=> u \in unserved)
  /\ kind' = kind

(* Only(s), read for another session.                                       *)
LEMMA OnlyOthers ==
  ASSUME TypeInv, NEW s \in Sessions, Only(s), NEW r \in Sessions, r # s
  PROVE  /\ pc'[r] = pc[r] /\ cur'[r] = cur[r] /\ data'[r] = data[r]
         /\ ok'[r] = ok[r] /\ recovering'[r] = recovering[r]
  BY DEF TypeInv, TypeOK, Only

(* The invariant of a top-up that is not concerned holds on.                *)
LEMMA Untouched ==
  ASSUME NEW s \in Sessions, NEW t, Touches(s, t), NEW u \in TopUps, u # t, Good(u)
  PROVE  Good(u)'
<1> USE TopUpAssumption DEF Touches
<1>0. \A r \in Sessions : cur'[r] = u <=> cur[r] = u
  OBVIOUS
<1>01. \A r \in Sessions : cur[r] = u => r # s
  OBVIOUS
<1>1. OneOwner(u)'
  BY <1>0, <1>01 DEF Good, OneOwner
<1>2. Traced(u)'
  BY <1>0, <1>01 DEF Good, Traced
<1>3. StatusTrue(u)'
  BY <1>0, <1>01 DEF Good, StatusTrue, TrueOf
<1>4. NotFailed(u) => NotFailed(u)'
  BY <1>0, <1>01 DEF NotFailed, SawFailure
<1>5. NotSucceeded(u) => NotSucceeded(u)'
  BY <1>0, <1>01 DEF NotSucceeded, SawSuccess
<1>6. OneOutcome(u)'
  BY <1>0, <1>01, <1>4, <1>5 DEF Good, OneOutcome
<1>7. AckTrue(u)'
  BY <1>0, <1>01 DEF Good, AckTrue, MustSubmit
<1> QED
  BY <1>1, <1>2, <1>3, <1>6, <1>7 DEF Good

(* So it is enough to look at the one that is concerned.                    *)
LEMMA GoodStep ==
  ASSUME IInv, NEW s \in Sessions, NEW t, Touches(s, t), TypeInv', t \in TopUps => Good(t)'
  PROVE  IInv'
  BY Untouched DEF IInv

(* NotFinishChk fetches a row: the session knows what the row says.         *)
LEMMA GetYctNotFinishStep ==
  ASSUME IInv, NEW s \in Sessions, NEW t \in TopUps, GetYctNotFinish(s, t)
  PROVE  IInv'
<1> USE TopUpAssumption, NoRowAssumption
    DEF Unconfirmed, Confirmed, ConfirmFailed, LoadFailed,
        Reversed, ReversalFailed, Unknown
<1>1. SessionOK(s) /\ WorldOK /\ TypeInv /\ Good(t)
  BY SessionTypes DEF IInv
<1>2. Only(s) /\ TypeInv' /\ SessionOK(s)'
  BY TypeStep DEF IInv, NotFinishChk
<1>3. /\ pc[s] = "check" /\ cur[s] = NoTopUp /\ row[t] # NoRow /\ pc'[s] = "reader"
      /\ cur'[s] = t
      /\ data'[s].status = row[t].status /\ data'[s].msg = row[t].msg
      /\ data'[s].ack = IF row[t].ack = Null THEN 0 ELSE row[t].ack
      /\ ok'[s] = ok[s] /\ recovering'[s] /\ account'[t] = account[t]
      /\ (t \in told' <=> t \in told) /\ (t \in loaded' <=> t \in loaded)
      /\ (t \in platform' <=> t \in platform) /\ (t \in doubtful' <=> t \in doubtful)
      /\ (t \in unserved' <=> t \in unserved)
      /\ row'[t] = row[t]
  BY <1>1 DEF GetYctNotFinish, At, Go, Unfinished, world, SessionOK, Placed, Free, TypeInv,
     TypeOK, Data
<1>4. Touches(s, t)
  <2>1. \A u \in TopUps : u # t => row'[u] = row[u] /\ account'[u] = account[u]
    BY <1>1 DEF GetYctNotFinish, world, WorldOK
  <2> QED
    BY <1>1, <1>2, <1>3, <2>1, OnlyOthers DEF GetYctNotFinish, world, Touches
<1>5. OneOwner(t)'
  BY <1>1, <1>3, <1>4 DEF Good, OneOwner, Touches, Traced
<1>6. Traced(t)'
  BY <1>1, <1>3, <1>4 DEF Good, Traced, Touches, SessionOK, Placed
<1>7. StatusTrue(t)'
  BY <1>1, <1>3, <1>4 DEF Good, StatusTrue, TrueOf, Touches, SessionOK, Placed
<1>8. OneOutcome(t)'
  <2>1. NotFailed(t) => NotFailed(t)'
    BY <1>1, <1>2, <1>3, <1>4 DEF NotFailed, SawFailure, Touches, SessionOK, Placed, Fetched
  <2>2. NotSucceeded(t) => NotSucceeded(t)'
    BY <1>1, <1>2, <1>3, <1>4 DEF NotSucceeded, SawSuccess, Touches, SessionOK, Placed, Fetched
  <2>3. \A r \in Sessions : cur'[r] = t /\ pc'[r] \in Undecided =>
          cur[r] = t /\ pc[r] \in Undecided /\ (ok'[r] <=> ok[r])
    BY <1>1, <1>2, <1>3, <1>4 DEF Touches, SessionOK, Placed, Undecided
  <2>4. NotSucceeded(t)' \/ t \in loaded' \cup doubtful' \cup unserved'
    BY <1>1, <1>3, <2>2 DEF Good, OneOutcome
  <2> QED
    BY <1>1, <1>3, <2>1, <2>2, <2>3, <2>4 DEF Good, OneOutcome
<1>9. AckTrue(t)'
  BY <1>1, <1>2, <1>3, <1>4 DEF Good, AckTrue, MustSubmit, Touches, SessionOK, Placed, Undecided
<1> QED
  BY <1>2, <1>4, <1>5, <1>6, <1>7, <1>8, <1>9, GoodStep DEF Good

(* Without a message the session forgets the outcome, and the row too.      *)
LEMMA ReaderReadyStep ==
  ASSUME IInv, NEW s \in Sessions, NEW t \in TopUps, t = cur[s], ReaderReady(s)
  PROVE  IInv'
<1> USE TopUpAssumption, NoRowAssumption
    DEF Unconfirmed, Confirmed, ConfirmFailed, LoadFailed,
        Reversed, ReversalFailed, Unknown
<1>1. SessionOK(s) /\ WorldOK /\ TypeInv /\ Good(t)
  BY SessionTypes DEF IInv
<1>2. Only(s) /\ TypeInv' /\ SessionOK(s)'
  BY TypeStep DEF IInv, NotFinishChk
<1>3. /\ pc[s] = "reader" /\ cur'[s] = cur[s]
      /\ \/ /\ ~data[s].msg /\ data'[s].status = Unknown /\ pc'[s] = "settle"
            /\ row'[t] = row[t] \/ row'[t] = data'[s]
         \/ /\ data[s].msg /\ data'[s] = data[s] /\ pc'[s] \in {"resend", "settle"}
            /\ row'[t] = row[t]
      /\ ok'[s] = ok[s] /\ recovering'[s] = recovering[s] /\ account'[t] = account[t]
      /\ (t \in told' <=> t \in told) /\ (t \in loaded' <=> t \in loaded)
      /\ (t \in platform' <=> t \in platform) /\ (t \in doubtful' <=> t \in doubtful)
      /\ (t \in unserved' <=> t \in unserved)
  BY <1>1 DEF ReaderReady, At, Go, UpdateRow, world, SessionOK, Placed, Free, TypeInv,
     TypeOK, Data, WorldOK
<1>4. Touches(s, t)
  <2>1. \A u \in TopUps : u # t => row'[u] = row[u] /\ account'[u] = account[u]
    BY <1>1 DEF ReaderReady, UpdateRow, world, WorldOK
  <2> QED
    BY <1>1, <1>2, <1>3, <2>1, OnlyOthers DEF ReaderReady, world, Touches
<1>5. OneOwner(t)'
  BY <1>1, <1>3, <1>4 DEF Good, OneOwner, Touches, Traced
<1>6. Traced(t)'
  BY <1>1, <1>3, <1>4 DEF Good, Traced, Touches, SessionOK, Placed
<1>7. StatusTrue(t)'
  BY <1>1, <1>3, <1>4 DEF Good, StatusTrue, TrueOf, Touches, SessionOK, Placed
<1>8. OneOutcome(t)'
  <2>1. NotFailed(t) => NotFailed(t)'
    BY <1>1, <1>2, <1>3, <1>4 DEF NotFailed, SawFailure, Touches, SessionOK, Placed, Fetched
  <2>2. NotSucceeded(t) => NotSucceeded(t)'
    BY <1>1, <1>2, <1>3, <1>4 DEF NotSucceeded, SawSuccess, Touches, SessionOK, Placed, Fetched
  <2>3. \A r \in Sessions : cur'[r] = t /\ pc'[r] \in Undecided =>
          cur[r] = t /\ pc[r] \in Undecided /\ (ok'[r] <=> ok[r])
    BY <1>1, <1>2, <1>3, <1>4 DEF Touches, SessionOK, Placed, Undecided
  <2>4. NotSucceeded(t)' \/ t \in loaded' \cup doubtful' \cup unserved'
    BY <1>1, <1>3, <2>2 DEF Good, OneOutcome
  <2> QED
    BY <1>1, <1>3, <2>1, <2>2, <2>3, <2>4 DEF Good, OneOutcome
<1>9. AckTrue(t)'
  BY <1>1, <1>2, <1>3, <1>4 DEF Good, AckTrue, MustSubmit, Touches, SessionOK, Placed, Undecided
<1> QED
  BY <1>2, <1>4, <1>5, <1>6, <1>7, <1>8, <1>9, GoodStep DEF Good

(* The message is sent again.                                               *)
LEMMA ResendStep ==
  ASSUME IInv, NEW s \in Sessions, NEW t \in TopUps, t = cur[s], NEW b \in BOOLEAN, Resend(s, b)
  PROVE  IInv'
<1> USE TopUpAssumption, NoRowAssumption
    DEF Unconfirmed, Confirmed, ConfirmFailed, LoadFailed,
        Reversed, ReversalFailed, Unknown
<1>1. SessionOK(s) /\ WorldOK /\ TypeInv /\ Good(t)
  BY SessionTypes DEF IInv
<1>2. Only(s) /\ TypeInv' /\ SessionOK(s)'
  BY TypeStep DEF IInv, NotFinishChk
<1>3. /\ pc[s] = "resend" /\ pc'[s] = "settle" /\ cur'[s] = cur[s]
      /\ data'[s].status = data[s].status /\ (data'[s].ack = 1 => t \in platform')
      /\ ok'[s] = ok[s] /\ recovering'[s] = recovering[s] /\ account'[t] = account[t]
      /\ (t \in told' <=> t \in told) /\ (t \in loaded' <=> t \in loaded)
      /\ (t \in platform => t \in platform') /\ (t \in doubtful' <=> t \in doubtful)
      /\ (t \in unserved' <=> t \in unserved)
      /\ row'[t] = row[t]
  BY <1>1 DEF Resend, At, Go, SessionOK, Placed, Free, TypeInv, TypeOK, Data
<1>4. Touches(s, t)
  <2>1. \A u \in TopUps : u # t => row'[u] = row[u] /\ account'[u] = account[u]
    BY <1>1 DEF Resend, WorldOK
  <2> QED
    BY <1>1, <1>2, <1>3, <2>1, OnlyOthers DEF Resend, Touches
<1>5. OneOwner(t)'
  BY <1>1, <1>3, <1>4 DEF Good, OneOwner, Touches, Traced
<1>6. Traced(t)'
  BY <1>1, <1>3, <1>4 DEF Good, Traced, Touches, SessionOK, Placed
<1>7. StatusTrue(t)'
  BY <1>1, <1>3, <1>4 DEF Good, StatusTrue, TrueOf, Touches, SessionOK, Placed
<1>8. OneOutcome(t)'
  <2>1. NotFailed(t) => NotFailed(t)'
    BY <1>1, <1>2, <1>3, <1>4 DEF NotFailed, SawFailure, Touches, SessionOK, Placed, Fetched
  <2>2. NotSucceeded(t) => NotSucceeded(t)'
    BY <1>1, <1>2, <1>3, <1>4 DEF NotSucceeded, SawSuccess, Touches, SessionOK, Placed, Fetched
  <2>3. \A r \in Sessions : cur'[r] = t /\ pc'[r] \in Undecided =>
          cur[r] = t /\ pc[r] \in Undecided /\ (ok'[r] <=> ok[r])
    BY <1>1, <1>2, <1>3, <1>4 DEF Touches, SessionOK, Placed, Undecided
  <2>4. NotSucceeded(t)' \/ t \in loaded' \cup doubtful' \cup unserved'
    BY <1>1, <1>3, <2>2 DEF Good, OneOutcome
  <2> QED
    BY <1>1, <1>3, <2>1, <2>2, <2>3, <2>4 DEF Good, OneOutcome
<1>9. AckTrue(t)'
  BY <1>1, <1>2, <1>3, <1>4 DEF Good, AckTrue, MustSubmit, Touches, SessionOK, Placed, Undecided
<1> QED
  BY <1>2, <1>4, <1>5, <1>6, <1>7, <1>8, <1>9, GoodStep DEF Good

(* The debit: the top-up had left no trace.                                 *)
LEMMA PayStep ==
  ASSUME IInv, NEW s \in Sessions, NEW t \in TopUps, Pay(s, t)
  PROVE  IInv'
<1> USE TopUpAssumption, NoRowAssumption
    DEF Unconfirmed, Confirmed, ConfirmFailed, LoadFailed,
        Reversed, ReversalFailed, Unknown
<1>1. SessionOK(s) /\ WorldOK /\ TypeInv /\ Good(t)
  BY SessionTypes DEF IInv
<1>2. Only(s) /\ TypeInv' /\ SessionOK(s)'
  BY TypeStep DEF IInv, YCT_NormalTrade
<1>3. /\ pc[s] = "menu" /\ cur[s] = NoTopUp /\ account[t] = "untouched" /\ pc'[s] = "insert"
      /\ cur'[s] = t
      /\ data'[s].status = IF kind[t].deposit THEN ReversalFailed ELSE LoadFailed
      /\ ok'[s] = ok[s] /\ recovering'[s] = recovering[s]
      /\ account'[t] = IF kind[t].deposit THEN "waived" ELSE "debited"
      /\ (t \in told' <=> t \in told) /\ (t \in loaded' <=> t \in loaded)
      /\ (t \in platform' <=> t \in platform) /\ (t \in doubtful' <=> t \in doubtful)
      /\ (t \in unserved' <=> t \in unserved)
      /\ row'[t] = row[t]
  BY <1>1 DEF Pay, At, Go, NoData, SessionOK, Placed, Free, TypeInv, TypeOK, Data, WorldOK
<1>4. Touches(s, t)
  <2>1. \A u \in TopUps : u # t => row'[u] = row[u] /\ account'[u] = account[u]
    BY <1>1 DEF Pay, WorldOK
  <2> QED
    BY <1>1, <1>2, <1>3, <2>1, OnlyOthers DEF Pay, Touches
<1>5. OneOwner(t)'
  BY <1>1, <1>3, <1>4 DEF Good, OneOwner, Touches, Traced
<1>6. Traced(t)'
  BY <1>1, <1>3, <1>4 DEF Good, Traced, Touches, SessionOK, Placed
<1>7. StatusTrue(t)'
  BY <1>1, <1>3, <1>4 DEF Good, StatusTrue, TrueOf, Touches, SessionOK, Placed
<1>8. OneOutcome(t)'
  <2>1. NotFailed(t)'
    BY <1>1, <1>2, <1>3, <1>4 DEF Good, Traced, NotFailed, SawFailure, Touches, Fetched
  <2>2. NotSucceeded(t)'
    BY <1>1, <1>2, <1>3, <1>4 DEF Good, Traced, NotSucceeded, SawSuccess, Touches, Fetched
  <2>3. ~ok'[s] /\ \A r \in Sessions : cur'[r] = t => r = s
    BY <1>1, <1>3, <1>4 DEF Good, Traced, Touches, SessionOK, Placed, Free
  <2> QED
    BY <2>1, <2>2, <2>3 DEF OneOutcome
<1>9. AckTrue(t)'
  BY <1>1, <1>2, <1>3, <1>4 DEF Good, AckTrue, MustSubmit, Touches, SessionOK, Placed, Undecided
<1> QED
  BY <1>2, <1>4, <1>5, <1>6, <1>7, <1>8, <1>9, GoodStep DEF Good

(* A debit nobody knows of.                                                 *)
LEMMA PayAnswerLostStep ==
  ASSUME IInv, NEW s \in Sessions, NEW t \in TopUps, PayAnswerLost(s, t)
  PROVE  IInv'
<1> USE TopUpAssumption, NoRowAssumption
    DEF Unconfirmed, Confirmed, ConfirmFailed, LoadFailed,
        Reversed, ReversalFailed, Unknown
<1>1. SessionOK(s) /\ WorldOK /\ TypeInv /\ Good(t)
  BY SessionTypes DEF IInv
<1>2. Only(s) /\ TypeInv' /\ SessionOK(s)'
  BY TypeStep DEF IInv, YCT_NormalTrade
<1>3. /\ pc[s] = "menu" /\ cur[s] = NoTopUp /\ account[t] = "untouched" /\ ~kind[t].deposit
      /\ pc'[s] = pc[s] /\ cur'[s] = cur[s] /\ data'[s] = data[s] /\ ok'[s] = ok[s]
      /\ recovering'[s] = recovering[s] /\ account'[t] = "debited"
      /\ (t \in told' <=> t \in told) /\ (t \in loaded' <=> t \in loaded)
      /\ (t \in platform' <=> t \in platform) /\ (t \in doubtful' <=> t \in doubtful)
      /\ (t \in unserved' <=> t \in unserved)
      /\ row'[t] = row[t]
  BY <1>1 DEF PayAnswerLost, At, local, SessionOK, Placed, Free, TypeInv, TypeOK, WorldOK
<1>4. Touches(s, t)
  <2>1. \A u \in TopUps : u # t => row'[u] = row[u] /\ account'[u] = account[u]
    BY <1>1 DEF PayAnswerLost, WorldOK
  <2> QED
    BY <1>1, <1>2, <1>3, <2>1, OnlyOthers DEF PayAnswerLost, Touches
<1>5. OneOwner(t)'
  BY <1>1, <1>3, <1>4 DEF Good, OneOwner, Touches, Traced
<1>6. Traced(t)'
  BY <1>1, <1>3, <1>4 DEF Good, Traced, Touches, SessionOK, Placed
<1>7. StatusTrue(t)'
  BY <1>1, <1>3, <1>4 DEF Good, StatusTrue, TrueOf, Touches, SessionOK, Placed
<1>8. OneOutcome(t)'
  <2>1. NotFailed(t) => NotFailed(t)'
    BY <1>1, <1>2, <1>3, <1>4 DEF NotFailed, SawFailure, Touches, SessionOK, Placed, Fetched
  <2>2. NotSucceeded(t) => NotSucceeded(t)'
    BY <1>1, <1>2, <1>3, <1>4 DEF NotSucceeded, SawSuccess, Touches, SessionOK, Placed, Fetched
  <2>3. \A r \in Sessions : cur'[r] = t /\ pc'[r] \in Undecided =>
          cur[r] = t /\ pc[r] \in Undecided /\ (ok'[r] <=> ok[r])
    BY <1>1, <1>2, <1>3, <1>4 DEF Touches, SessionOK, Placed, Undecided
  <2>4. NotSucceeded(t)' \/ t \in loaded' \cup doubtful' \cup unserved'
    BY <1>1, <1>3, <2>2 DEF Good, OneOutcome
  <2> QED
    BY <1>1, <1>3, <2>1, <2>2, <2>3, <2>4 DEF Good, OneOutcome
<1>9. AckTrue(t)'
  BY <1>1, <1>2, <1>3, <1>4 DEF Good, AckTrue, MustSubmit, Touches, SessionOK, Placed, Undecided
<1> QED
  BY <1>2, <1>4, <1>5, <1>6, <1>7, <1>8, <1>9, GoodStep DEF Good

(* The row that says "failed" has no message, so nothing is known from it.  *)
LEMMA SetYctYPDataStep ==
  ASSUME IInv, NEW s \in Sessions, NEW t \in TopUps, t = cur[s], SetYctYPData(s)
  PROVE  IInv'
<1> USE TopUpAssumption, NoRowAssumption
    DEF Unconfirmed, Confirmed, ConfirmFailed, LoadFailed,
        Reversed, ReversalFailed, Unknown
<1>1. SessionOK(s) /\ WorldOK /\ TypeInv /\ Good(t)
  BY SessionTypes DEF IInv
<1>2. Only(s) /\ TypeInv' /\ SessionOK(s)'
  BY TypeStep DEF IInv, YCT_NormalTrade
<1>3. /\ pc[s] = "insert" /\ pc'[s] = "load" /\ cur'[s] = cur[s] /\ data'[s] = data[s]
      /\ ok'[s] = ok[s] /\ recovering'[s] = recovering[s] /\ account'[t] = account[t]
      /\ (t \in told' <=> t \in told) /\ (t \in loaded' <=> t \in loaded)
      /\ (t \in platform' <=> t \in platform) /\ (t \in doubtful' <=> t \in doubtful)
      /\ (t \in unserved' <=> t \in unserved)
      /\ \/ row'[t] = row[t]
         \/ /\ row'[t].status = data[s].status /\ row'[t].msg = data[s].msg
            /\ row'[t].ack = Null
  BY <1>1 DEF SetYctYPData, At, Go, world, local, SessionOK, Placed, Free, TypeInv, TypeOK,
     Data, WorldOK
<1>4. Touches(s, t)
  <2>1. \A u \in TopUps : u # t => row'[u] = row[u] /\ account'[u] = account[u]
    BY <1>1 DEF SetYctYPData, world, WorldOK
  <2> QED
    BY <1>1, <1>2, <1>3, <2>1, OnlyOthers DEF SetYctYPData, world, Touches
<1>5. OneOwner(t)'
  BY <1>1, <1>3, <1>4 DEF Good, OneOwner, Touches, Traced
<1>6. Traced(t)'
  BY <1>1, <1>3, <1>4 DEF Good, Traced, Touches, SessionOK, Placed
<1>7. StatusTrue(t)'
  BY <1>1, <1>3, <1>4 DEF Good, StatusTrue, TrueOf, Touches, SessionOK, Placed
<1>8. OneOutcome(t)'
  <2>1. NotFailed(t) => NotFailed(t)'
    BY <1>1, <1>2, <1>3, <1>4 DEF NotFailed, SawFailure, Touches, SessionOK, Placed, Fetched
  <2>2. NotSucceeded(t) => NotSucceeded(t)'
    BY <1>1, <1>2, <1>3, <1>4 DEF NotSucceeded, SawSuccess, Touches, SessionOK, Placed, Fetched
  <2>3. \A r \in Sessions : cur'[r] = t /\ pc'[r] \in Undecided =>
          cur[r] = t /\ pc[r] \in Undecided /\ (ok'[r] <=> ok[r])
    BY <1>1, <1>2, <1>3, <1>4 DEF Touches, SessionOK, Placed, Undecided
  <2>4. NotSucceeded(t)' \/ t \in loaded' \cup doubtful' \cup unserved'
    BY <1>1, <1>3, <2>2 DEF Good, OneOutcome
  <2> QED
    BY <1>1, <1>3, <2>1, <2>2, <2>3, <2>4 DEF Good, OneOutcome
<1>9. AckTrue(t)'
  BY <1>1, <1>2, <1>3, <1>4 DEF Good, AckTrue, MustSubmit, Touches, SessionOK, Placed, Undecided
<1> QED
  BY <1>2, <1>4, <1>5, <1>6, <1>7, <1>8, <1>9, GoodStep DEF Good

(* The session learns that the loading failed; it is the only one that      *)
(* could have learnt the opposite.                                          *)
LEMMA LoadNotStartedStep ==
  ASSUME IInv, NEW s \in Sessions, NEW t \in TopUps, t = cur[s], LoadNotStarted(s)
  PROVE  IInv'
<1> USE TopUpAssumption, NoRowAssumption
    DEF Unconfirmed, Confirmed, ConfirmFailed, LoadFailed,
        Reversed, ReversalFailed, Unknown
<1>1. SessionOK(s) /\ WorldOK /\ TypeInv /\ Good(t)
  BY SessionTypes DEF IInv
<1>2. Only(s) /\ TypeInv' /\ SessionOK(s)'
  BY TypeStep DEF IInv, YCT_NormalTrade
<1>3. /\ pc[s] = "load" /\ pc'[s] = "mark" /\ cur'[s] = cur[s] /\ data'[s] = data[s]
      /\ ~ok'[s] /\ recovering'[s] = recovering[s] /\ account'[t] = account[t]
      /\ (t \in told' <=> t \in told) /\ (t \in loaded' <=> t \in loaded)
      /\ (t \in platform' <=> t \in platform) /\ (t \in doubtful' <=> t \in doubtful)
      /\ (t \in unserved' <=> t \in unserved)
      /\ row'[t] = row[t]
  BY <1>1 DEF LoadNotStarted, At, Go, world, SessionOK, Placed, Free, TypeInv, TypeOK
<1>4. Touches(s, t)
  <2>1. \A u \in TopUps : u # t => row'[u] = row[u] /\ account'[u] = account[u]
    BY <1>1 DEF LoadNotStarted, world, WorldOK
  <2> QED
    BY <1>1, <1>2, <1>3, <2>1, OnlyOthers DEF LoadNotStarted, world, Touches
<1>5. OneOwner(t)'
  BY <1>1, <1>3, <1>4 DEF Good, OneOwner, Touches, Traced
<1>6. Traced(t)'
  BY <1>1, <1>3, <1>4 DEF Good, Traced, Touches, SessionOK, Placed
<1>7. StatusTrue(t)'
  BY <1>1, <1>3, <1>4 DEF Good, StatusTrue, TrueOf, Touches, SessionOK, Placed
<1>8. OneOutcome(t)'
  <2>1. NotSucceeded(t)
    BY <1>1, <1>3 DEF Good, OneOutcome, Undecided, SessionOK, Placed
  <2>2. NotSucceeded(t)'
    BY <1>1, <1>2, <1>3, <1>4, <2>1 DEF NotSucceeded, SawSuccess, Touches, Fetched
  <2>3. \A r \in Sessions : ~(cur'[r] = t /\ pc'[r] \in Undecided)
    BY <1>1, <1>2, <1>3, <1>4, SessionTypes DEF Good, OneOwner, Touches, SessionOK, Placed,
       Undecided, Fetched
  <2> QED
    BY <2>2, <2>3 DEF OneOutcome
<1>9. AckTrue(t)'
  BY <1>1, <1>2, <1>3, <1>4 DEF Good, AckTrue, MustSubmit, Touches, SessionOK, Placed, Undecided
<1> QED
  BY <1>2, <1>4, <1>5, <1>6, <1>7, <1>8, <1>9, GoodStep DEF Good

(* The session learns that it succeeded.                                    *)
LEMMA LoadDoneStep ==
  ASSUME IInv, NEW s \in Sessions, NEW t \in TopUps, t = cur[s], LoadDone(s)
  PROVE  IInv'
<1> USE TopUpAssumption, NoRowAssumption
    DEF Unconfirmed, Confirmed, ConfirmFailed, LoadFailed,
        Reversed, ReversalFailed, Unknown
<1>1. SessionOK(s) /\ WorldOK /\ TypeInv /\ Good(t)
  BY SessionTypes DEF IInv
<1>2. Only(s) /\ TypeInv' /\ SessionOK(s)'
  BY TypeStep DEF IInv, YCT_NormalTrade
<1>3. /\ pc[s] = "load" /\ pc'[s] = IF kind[t].m1 THEN "mark" ELSE "submit"
      /\ cur'[s] = cur[s] /\ data'[s] = data[s] /\ ok'[s] /\ recovering'[s] = recovering[s]
      /\ account'[t] = account[t] /\ (t \in told' <=> t \in told) /\ (t \in loaded')
      /\ (t \in platform' <=> t \in platform) /\ (t \in doubtful' <=> t \in doubtful)
      /\ (t \in unserved' <=> t \in unserved)
      /\ row'[t] = row[t]
  BY <1>1 DEF LoadDone, At, Go, SessionOK, Placed, Free, TypeInv, TypeOK
<1>4. Touches(s, t)
  <2>1. \A u \in TopUps : u # t => row'[u] = row[u] /\ account'[u] = account[u]
    BY <1>1 DEF LoadDone, WorldOK
  <2> QED
    BY <1>1, <1>2, <1>3, <2>1, OnlyOthers DEF LoadDone, Touches
<1>5. OneOwner(t)'
  BY <1>1, <1>3, <1>4 DEF Good, OneOwner, Touches, Traced
<1>6. Traced(t)'
  BY <1>1, <1>3, <1>4 DEF Good, Traced, Touches, SessionOK, Placed
<1>7. StatusTrue(t)'
  BY <1>1, <1>3, <1>4 DEF Good, StatusTrue, TrueOf, Touches, SessionOK, Placed
<1>8. OneOutcome(t)'
  <2>1. NotFailed(t)
    BY <1>1, <1>3 DEF Good, OneOutcome, Undecided
  <2>2. NotFailed(t)'
    BY <1>1, <1>2, <1>3, <1>4, <2>1 DEF NotFailed, SawFailure, Touches, Fetched
  <2>3. \A r \in Sessions : cur'[r] = t /\ pc'[r] \in Undecided => r = s
    BY <1>1, <1>2, <1>3, <1>4, SessionTypes DEF Good, OneOwner, Touches, SessionOK, Placed,
       Undecided, Fetched
  <2> QED
    BY <1>3, <2>2, <2>3 DEF OneOutcome
<1>9. AckTrue(t)'
  BY <1>1, <1>2, <1>3, <1>4 DEF Good, AckTrue, MustSubmit, Touches, SessionOK, Placed, Undecided
<1> QED
  BY <1>2, <1>4, <1>5, <1>6, <1>7, <1>8, <1>9, GoodStep DEF Good

(* The failure is not final before the platform was told.                   *)
LEMMA LoadRefusedStep ==
  ASSUME IInv, NEW s \in Sessions, NEW t \in TopUps, t = cur[s], LoadRefused(s)
  PROVE  IInv'
<1> USE TopUpAssumption, NoRowAssumption
    DEF Unconfirmed, Confirmed, ConfirmFailed, LoadFailed,
        Reversed, ReversalFailed, Unknown
<1>1. SessionOK(s) /\ WorldOK /\ TypeInv /\ Good(t)
  BY SessionTypes DEF IInv
<1>2. Only(s) /\ TypeInv' /\ SessionOK(s)'
  BY TypeStep DEF IInv, YCT_NormalTrade
<1>3. /\ pc[s] = "load" /\ pc'[s] \in {"submit", "rollback"} /\ cur'[s] = cur[s]
      /\ data'[s] = data[s] /\ ~ok'[s] /\ recovering'[s] = recovering[s]
      /\ account'[t] = account[t] /\ (t \in told' <=> t \in told)
      /\ (t \in loaded' <=> t \in loaded) /\ (t \in platform' <=> t \in platform)
      /\ (t \in doubtful' <=> t \in doubtful)
      /\ (t \in unserved' <=> t \in unserved) /\ row'[t] = row[t]
  BY <1>1 DEF LoadRefused, At, Go, world, SessionOK, Placed, Free, TypeInv, TypeOK
<1>4. Touches(s, t)
  <2>1. \A u \in TopUps : u # t => row'[u] = row[u] /\ account'[u] = account[u]
    BY <1>1 DEF LoadRefused, world, WorldOK
  <2> QED
    BY <1>1, <1>2, <1>3, <2>1, OnlyOthers DEF LoadRefused, world, Touches
<1>5. OneOwner(t)'
  BY <1>1, <1>3, <1>4 DEF Good, OneOwner, Touches, Traced
<1>6. Traced(t)'
  BY <1>1, <1>3, <1>4 DEF Good, Traced, Touches, SessionOK, Placed
<1>7. StatusTrue(t)'
  BY <1>1, <1>3, <1>4 DEF Good, StatusTrue, TrueOf, Touches, SessionOK, Placed
<1>8. OneOutcome(t)'
  <2>1. NotFailed(t) => NotFailed(t)'
    BY <1>1, <1>2, <1>3, <1>4 DEF NotFailed, SawFailure, Touches, SessionOK, Placed, Fetched
  <2>2. NotSucceeded(t) => NotSucceeded(t)'
    BY <1>1, <1>2, <1>3, <1>4 DEF NotSucceeded, SawSuccess, Touches, SessionOK, Placed, Fetched
  <2>3. \A r \in Sessions : cur'[r] = t /\ pc'[r] \in Undecided =>
          cur[r] = t /\ pc[r] \in Undecided /\ (ok'[r] <=> ok[r])
    BY <1>1, <1>2, <1>3, <1>4 DEF Touches, SessionOK, Placed, Undecided
  <2>4. NotSucceeded(t)' \/ t \in loaded' \cup doubtful' \cup unserved'
    BY <1>1, <1>3, <2>2 DEF Good, OneOutcome
  <2> QED
    BY <1>1, <1>3, <2>1, <2>2, <2>3, <2>4 DEF Good, OneOutcome
<1>9. AckTrue(t)'
  BY <1>1, <1>2, <1>3, <1>4 DEF Good, AckTrue, MustSubmit, Touches, SessionOK, Placed, Undecided
<1> QED
  BY <1>2, <1>4, <1>5, <1>6, <1>7, <1>8, <1>9, GoodStep DEF Good

(* Success is simulated: from here the top-up is doubtful.                  *)
LEMMA ReaderSilentStep ==
  ASSUME IInv, NEW s \in Sessions, NEW t \in TopUps, t = cur[s], ReaderSilent(s)
  PROVE  IInv'
<1> USE TopUpAssumption, NoRowAssumption
    DEF Unconfirmed, Confirmed, ConfirmFailed, LoadFailed,
        Reversed, ReversalFailed, Unknown
<1>1. SessionOK(s) /\ WorldOK /\ TypeInv /\ Good(t)
  BY SessionTypes DEF IInv
<1>2. Only(s) /\ TypeInv' /\ SessionOK(s)'
  BY TypeStep DEF IInv, YCT_NormalTrade
<1>3. /\ pc[s] = "load" /\ pc'[s] = "mark" /\ cur'[s] = cur[s] /\ data'[s] = data[s]
      /\ ok'[s] /\ recovering'[s] = recovering[s] /\ account'[t] = account[t]
      /\ (t \in told' <=> t \in told) /\ (t \in loaded => t \in loaded')
      /\ (t \in platform' <=> t \in platform) /\ (t \in doubtful')
      /\ (t \in unserved' <=> t \in unserved)
      /\ row'[t] = row[t]
  BY <1>1 DEF ReaderSilent, At, Go, SessionOK, Placed, Free, TypeInv, TypeOK
<1>4. Touches(s, t)
  <2>1. \A u \in TopUps : u # t => row'[u] = row[u] /\ account'[u] = account[u]
    BY <1>1 DEF ReaderSilent, WorldOK
  <2> QED
    BY <1>1, <1>2, <1>3, <2>1, OnlyOthers DEF ReaderSilent, Touches
<1>5. OneOwner(t)'
  BY <1>1, <1>3, <1>4 DEF Good, OneOwner, Touches, Traced
<1>6. Traced(t)'
  BY <1>1, <1>3, <1>4 DEF Good, Traced, Touches, SessionOK, Placed
<1>7. StatusTrue(t)'
  BY <1>1, <1>3, <1>4 DEF Good, StatusTrue, TrueOf, Touches, SessionOK, Placed
<1>8. OneOutcome(t)'
  <2>1. NotFailed(t)
    BY <1>1, <1>3 DEF Good, OneOutcome, Undecided
  <2>2. NotFailed(t)'
    BY <1>1, <1>2, <1>3, <1>4, <2>1 DEF NotFailed, SawFailure, Touches, Fetched
  <2>3. \A r \in Sessions : ~(cur'[r] = t /\ pc'[r] \in Undecided)
    BY <1>1, <1>2, <1>3, <1>4, SessionTypes DEF Good, OneOwner, Touches, SessionOK, Placed,
       Undecided, Fetched
  <2> QED
    BY <1>3, <2>2, <2>3 DEF OneOutcome
<1>9. AckTrue(t)'
  BY <1>1, <1>2, <1>3, <1>4 DEF Good, AckTrue, MustSubmit, Touches, SessionOK, Placed, Undecided
<1> QED
  BY <1>2, <1>4, <1>5, <1>6, <1>7, <1>8, <1>9, GoodStep DEF Good

(* Nor is it loaded when the platform asks for something else: unserved.    *)
LEMMA OtherTradeTypeStep ==
  ASSUME IInv, NEW s \in Sessions, NEW t \in TopUps, t = cur[s], OtherTradeType(s)
  PROVE  IInv'
<1> USE TopUpAssumption, NoRowAssumption
    DEF Unconfirmed, Confirmed, ConfirmFailed, LoadFailed,
        Reversed, ReversalFailed, Unknown
<1>1. SessionOK(s) /\ WorldOK /\ TypeInv /\ Good(t)
  BY SessionTypes DEF IInv
<1>2. Only(s) /\ TypeInv' /\ SessionOK(s)'
  BY TypeStep DEF IInv, YCT_NormalTrade
<1>3. /\ pc[s] = "load" /\ pc'[s] = "mark" /\ cur'[s] = cur[s] /\ data'[s] = data[s]
      /\ ok'[s] /\ recovering'[s] = recovering[s] /\ account'[t] = account[t]
      /\ (t \in told' <=> t \in told) /\ (t \in loaded' <=> t \in loaded)
      /\ (t \in platform' <=> t \in platform) /\ (t \in doubtful' <=> t \in doubtful)
      /\ t \in unserved' /\ row'[t] = row[t]
  BY <1>1 DEF OtherTradeType, At, Go, SessionOK, Placed, Free, TypeInv, TypeOK
<1>4. Touches(s, t)
  <2>1. \A u \in TopUps : u # t => row'[u] = row[u] /\ account'[u] = account[u]
    BY <1>1 DEF OtherTradeType, WorldOK
  <2> QED
    BY <1>1, <1>2, <1>3, <2>1, OnlyOthers DEF OtherTradeType, Touches
<1>5. OneOwner(t)'
  BY <1>1, <1>3, <1>4 DEF Good, OneOwner, Touches, Traced
<1>6. Traced(t)'
  BY <1>1, <1>3, <1>4 DEF Good, Traced, Touches, SessionOK, Placed
<1>7. StatusTrue(t)'
  BY <1>1, <1>3, <1>4 DEF Good, StatusTrue, TrueOf, Touches, SessionOK, Placed
<1>8. OneOutcome(t)'
  <2>1. NotFailed(t)
    BY <1>1, <1>3 DEF Good, OneOutcome, Undecided
  <2>2. NotFailed(t)'
    BY <1>1, <1>2, <1>3, <1>4, <2>1 DEF NotFailed, SawFailure, Touches, Fetched
  <2>3. \A r \in Sessions : ~(cur'[r] = t /\ pc'[r] \in Undecided)
    BY <1>1, <1>2, <1>3, <1>4, SessionTypes DEF Good, OneOwner, Touches, SessionOK, Placed,
       Undecided, Fetched
  <2> QED
    BY <1>3, <2>2, <2>3 DEF OneOutcome
<1>9. AckTrue(t)'
  BY <1>1, <1>2, <1>3, <1>4 DEF Good, AckTrue, MustSubmit, Touches, SessionOK, Placed, Undecided
<1> QED
  BY <1>2, <1>4, <1>5, <1>6, <1>7, <1>8, <1>9, GoodStep DEF Good

(* The same when the balance is moved first.                                *)
LEMMA TransferBalanceStep ==
  ASSUME IInv, NEW s \in Sessions, NEW t \in TopUps, t = cur[s], TransferBalance(s)
  PROVE  IInv'
<1> USE TopUpAssumption, NoRowAssumption
    DEF Unconfirmed, Confirmed, ConfirmFailed, LoadFailed,
        Reversed, ReversalFailed, Unknown
<1>1. SessionOK(s) /\ WorldOK /\ TypeInv /\ Good(t)
  BY SessionTypes DEF IInv
<1>2. Only(s) /\ TypeInv' /\ SessionOK(s)'
  BY TypeStep DEF IInv, YCT_NormalTrade
<1>3. /\ pc[s] = "load" /\ pc'[s] = "submit" /\ cur'[s] = cur[s] /\ data'[s] = data[s]
      /\ ok'[s] /\ recovering'[s] = recovering[s] /\ account'[t] = account[t]
      /\ (t \in told' <=> t \in told) /\ (t \in loaded' <=> t \in loaded)
      /\ (t \in platform' <=> t \in platform) /\ (t \in doubtful' <=> t \in doubtful)
      /\ t \in unserved' /\ row'[t] = row[t]
  BY <1>1 DEF TransferBalance, At, Go, SessionOK, Placed, Free, TypeInv, TypeOK
<1>4. Touches(s, t)
  <2>1. \A u \in TopUps : u # t => row'[u] = row[u] /\ account'[u] = account[u]
    BY <1>1 DEF TransferBalance, WorldOK
  <2> QED
    BY <1>1, <1>2, <1>3, <2>1, OnlyOthers DEF TransferBalance, Touches
<1>5. OneOwner(t)'
  BY <1>1, <1>3, <1>4 DEF Good, OneOwner, Touches, Traced
<1>6. Traced(t)'
  BY <1>1, <1>3, <1>4 DEF Good, Traced, Touches, SessionOK, Placed
<1>7. StatusTrue(t)'
  BY <1>1, <1>3, <1>4 DEF Good, StatusTrue, TrueOf, Touches, SessionOK, Placed
<1>8. OneOutcome(t)'
  <2>1. NotFailed(t)
    BY <1>1, <1>3 DEF Good, OneOutcome, Undecided
  <2>2. NotFailed(t)'
    BY <1>1, <1>2, <1>3, <1>4, <2>1 DEF NotFailed, SawFailure, Touches, Fetched
  <2>3. \A r \in Sessions : cur'[r] = t /\ pc'[r] \in Undecided => r = s
    BY <1>1, <1>2, <1>3, <1>4, SessionTypes DEF Good, OneOwner, Touches, SessionOK, Placed,
       Undecided, Fetched
  <2> QED
    BY <1>3, <2>2, <2>3 DEF OneOutcome
<1>9. AckTrue(t)'
  BY <1>1, <1>2, <1>3, <1>4 DEF Good, AckTrue, MustSubmit, Touches, SessionOK, Placed, Undecided
<1> QED
  BY <1>2, <1>4, <1>5, <1>6, <1>7, <1>8, <1>9, GoodStep DEF Good

(* The same when the loading throws.                                        *)
LEMMA LoadThrowsStep ==
  ASSUME IInv, NEW s \in Sessions, NEW t \in TopUps, t = cur[s], LoadThrows(s)
  PROVE  IInv'
<1> USE TopUpAssumption, NoRowAssumption
    DEF Unconfirmed, Confirmed, ConfirmFailed, LoadFailed,
        Reversed, ReversalFailed, Unknown
<1>1. SessionOK(s) /\ WorldOK /\ TypeInv /\ Good(t)
  BY SessionTypes DEF IInv
<1>2. Only(s) /\ TypeInv' /\ SessionOK(s)'
  BY TypeStep DEF IInv, YCT_NormalTrade
<1>3. /\ pc[s] \in {"load", "submit", "rollback"} /\ pc'[s] = "mark" /\ cur'[s] = cur[s]
      /\ data'[s] = data[s] /\ ok'[s] /\ recovering'[s] = recovering[s]
      /\ account'[t] = account[t] /\ (t \in told' <=> t \in told)
      /\ (t \in loaded => t \in loaded') /\ (t \in platform' <=> t \in platform)
      /\ (t \in doubtful') /\ (t \in unserved' <=> t \in unserved)
      /\ row'[t] = row[t]
  BY <1>1 DEF LoadThrows, At, Go, SessionOK, Placed, Free, TypeInv, TypeOK
<1>4. Touches(s, t)
  <2>1. \A u \in TopUps : u # t => row'[u] = row[u] /\ account'[u] = account[u]
    BY <1>1 DEF LoadThrows, WorldOK
  <2>2. \A u \in TopUps : u # t =>
          /\ (u \in told' <=> u \in told) /\ (u \in loaded' <=> u \in loaded)
          /\ (u \in platform' <=> u \in platform) /\ (u \in doubtful' <=> u \in doubtful)
      /\ (u \in unserved' <=> u \in unserved)
    BY DEF LoadThrows
  <2>3. kind' = kind
    BY DEF LoadThrows
  <2>4. \A r \in Sessions : r # s =>
          /\ pc'[r] = pc[r] /\ cur'[r] = cur[r] /\ data'[r] = data[r]
          /\ ok'[r] = ok[r] /\ recovering'[r] = recovering[r]
    BY <1>1, <1>2, OnlyOthers
  <2> QED
    BY <1>3, <2>1, <2>2, <2>3, <2>4 DEF Touches
<1>5. OneOwner(t)'
  BY <1>1, <1>3, <1>4 DEF Good, OneOwner, Touches, Traced
<1>6. Traced(t)'
  BY <1>1, <1>3, <1>4 DEF Good, Traced, Touches, SessionOK, Placed
<1>7. StatusTrue(t)'
  BY <1>1, <1>3, <1>4 DEF Good, StatusTrue, TrueOf, Touches, SessionOK, Placed
<1>8. OneOutcome(t)'
  <2>1. NotFailed(t)
    BY <1>1, <1>3 DEF Good, OneOutcome, Undecided
  <2>2. NotFailed(t)'
    BY <1>1, <1>2, <1>3, <1>4, <2>1 DEF NotFailed, SawFailure, Touches, Fetched
  <2>3. \A r \in Sessions : ~(cur'[r] = t /\ pc'[r] \in Undecided)
    BY <1>1, <1>2, <1>3, <1>4, SessionTypes DEF Good, OneOwner, Touches, SessionOK, Placed,
       Undecided, Fetched
  <2> QED
    BY <1>3, <2>2, <2>3 DEF OneOutcome
<1>9. AckTrue(t)'
  BY <1>1, <1>2, <1>3, <1>4 DEF Good, AckTrue, MustSubmit, Touches, SessionOK, Placed, Undecided
<1> QED
  BY <1>2, <1>4, <1>5, <1>6, <1>7, <1>8, <1>9, GoodStep DEF Good

(* The platform has acknowledged; the outcome is what ok says.              *)
LEMMA SubmittedStep ==
  ASSUME IInv, NEW s \in Sessions, NEW t \in TopUps, t = cur[s], Submitted(s)
  PROVE  IInv'
<1> USE TopUpAssumption, NoRowAssumption
    DEF Unconfirmed, Confirmed, ConfirmFailed, LoadFailed,
        Reversed, ReversalFailed, Unknown
<1>1. SessionOK(s) /\ WorldOK /\ TypeInv /\ Good(t)
  BY SessionTypes DEF IInv
<1>2. Only(s) /\ TypeInv' /\ SessionOK(s)'
  BY TypeStep DEF IInv, YCT_NormalTrade
<1>3. /\ pc[s] \in {"submit", "rollback"} /\ pc'[s] = "mark" /\ cur'[s] = cur[s]
      /\ data'[s].status = data[s].status /\ ok'[s] = ok[s]
      /\ recovering'[s] = recovering[s] /\ account'[t] = account[t]
      /\ (t \in told' <=> t \in told) /\ (t \in loaded' <=> t \in loaded)
      /\ (t \in platform') /\ (t \in doubtful' <=> t \in doubtful)
      /\ (t \in unserved' <=> t \in unserved) /\ row'[t] = row[t]
  BY <1>1 DEF Submitted, Go, SubmitTry, SessionOK, Placed, Free, TypeInv, TypeOK, Data
<1>4. Touches(s, t)
  <2>1. \A u \in TopUps : u # t => row'[u] = row[u] /\ account'[u] = account[u]
    BY <1>1 DEF Submitted, WorldOK
  <2> QED
    BY <1>1, <1>2, <1>3, <2>1, OnlyOthers DEF Submitted, Touches
<1>5. OneOwner(t)'
  BY <1>1, <1>3, <1>4 DEF Good, OneOwner, Touches, Traced
<1>6. Traced(t)'
  BY <1>1, <1>3, <1>4 DEF Good, Traced, Touches, SessionOK, Placed
<1>7. StatusTrue(t)'
  BY <1>1, <1>3, <1>4 DEF Good, StatusTrue, TrueOf, Touches, SessionOK, Placed
<1>8. OneOutcome(t)'
  <2>1. \A r \in Sessions : ~(cur'[r] = t /\ pc'[r] \in Undecided)
    BY <1>1, <1>2, <1>3, <1>4, SessionTypes DEF Good, OneOwner, Touches, SessionOK, Placed,
       Undecided, Fetched
  <2>2. CASE ok[s]
    <3>1. NotFailed(t) /\ t \in loaded \cup unserved
      BY <1>1, <1>3, <2>2 DEF Good, OneOutcome, Undecided
    <3>2. NotFailed(t)'
      <4>1. ok'[s] /\ ~SawFailure(s)'
        BY <1>3, <2>2 DEF SawFailure
      <4> QED
        BY <1>1, <1>3, <1>4, <3>1, <4>1 DEF NotFailed, SawFailure, Touches
    <3> QED
      BY <1>3, <2>1, <3>1, <3>2 DEF OneOutcome
  <2>3. CASE ~ok[s]
    <3>1. NotSucceeded(t)
      BY <1>1, <1>3, <2>3 DEF Good, OneOutcome, Undecided
    <3>2. NotSucceeded(t)'
      BY <1>1, <1>2, <1>3, <1>4, <2>3, <3>1 DEF NotSucceeded, SawSuccess, Touches, Fetched
    <3> QED
      BY <2>1, <3>2 DEF OneOutcome
  <2> QED
    BY <2>2, <2>3
<1>9. AckTrue(t)'
  BY <1>1, <1>2, <1>3, <1>4 DEF Good, AckTrue, MustSubmit, Touches, SessionOK, Placed, Undecided
<1> QED
  BY <1>2, <1>4, <1>5, <1>6, <1>7, <1>8, <1>9, GoodStep DEF Good

(* It has not, and yct_ack is cleared by the last try of a CPU card.        *)
LEMMA SubmitFailsStep ==
  ASSUME IInv, NEW s \in Sessions, NEW t \in TopUps, t = cur[s], SubmitFails(s)
  PROVE  IInv'
<1> USE TopUpAssumption, NoRowAssumption
    DEF Unconfirmed, Confirmed, ConfirmFailed, LoadFailed,
        Reversed, ReversalFailed, Unknown
<1>1. SessionOK(s) /\ WorldOK /\ TypeInv /\ Good(t)
  BY SessionTypes DEF IInv
<1>2. Only(s) /\ TypeInv' /\ SessionOK(s)'
  BY TypeStep DEF IInv, YCT_NormalTrade
<1>3. /\ pc[s] \in {"submit", "rollback"}
      /\ cur'[s] = cur[s] /\ ok'[s] = ok[s] /\ recovering'[s] = recovering[s]
      /\ account'[t] = account[t] /\ row'[t] = row[t]
      /\ (t \in told' <=> t \in told) /\ (t \in loaded' <=> t \in loaded)
      /\ (t \in doubtful' <=> t \in doubtful)
      /\ (t \in unserved' <=> t \in unserved) /\ (t \in platform => t \in platform')
      /\ data'[s].status = data[s].status
      /\ pc'[s] = pc[s] \/ (pc'[s] = "mark" /\ (pc[s] = "submit" => data'[s].ack = 0))
  <2>1. PICK c \in BOOLEAN :
          data'[s] = [SubmitTry(s, c) EXCEPT
                        !.ack = IF tries[s] + 1 = SubmitTries /\ At(s, "submit") THEN 0 ELSE @]
    BY <1>1 DEF SubmitFails, TypeInv, TypeOK
  <2>2. SubmitTry(s, c) \in Data /\ SubmitTry(s, c).status = data[s].status
    BY <1>1 DEF SubmitTry, SessionOK, WorldOK, Data
  <2>3. /\ data'[s].status = data[s].status
        /\ tries[s] + 1 = SubmitTries /\ pc[s] = "submit" => data'[s].ack = 0
    BY <2>1, <2>2 DEF Data, At
  <2>4. pc'[s] = pc[s] \/ (pc'[s] = "mark" /\ (pc[s] = "submit" => tries[s] + 1 = SubmitTries))
    <3>1. tries[s] \in Nat /\ tries[s] < SubmitTries
      BY <1>1 DEF SubmitFails, SessionOK
    <3>2. pc'[s] = pc[s] \/ (pc'[s] = "mark" /\ ~(tries[s] + 1 < SubmitTries))
      <4>1. CASE tries[s] + 1 < SubmitTries
        BY <4>1 DEF SubmitFails
      <4>2. CASE ~(tries[s] + 1 < SubmitTries)
        <5>1. Go(s, "mark")
          BY <4>2 DEF SubmitFails
        <5> QED
          BY <1>1, <4>2, <5>1 DEF Go, TypeInv, TypeOK
      <4> QED
        BY <4>1, <4>2
    <3> QED
      BY <3>1, <3>2
  <2> QED
    BY <1>1, <2>3, <2>4 DEF SubmitFails
<1>4. Touches(s, t)
  <2>1. \A u \in TopUps : u # t => row'[u] = row[u] /\ account'[u] = account[u]
    BY <1>1 DEF SubmitFails, WorldOK
  <2> QED
    BY <1>1, <1>2, <1>3, <2>1, OnlyOthers DEF SubmitFails, Touches
<1>5. OneOwner(t)'
  BY <1>1, <1>3, <1>4 DEF Good, OneOwner, Touches, Traced
<1>6. Traced(t)'
  BY <1>1, <1>3, <1>4 DEF Good, Traced, Touches, SessionOK, Placed
<1>7. StatusTrue(t)'
  BY <1>1, <1>3, <1>4 DEF Good, StatusTrue, TrueOf, Touches, SessionOK, Placed
<1>8. OneOutcome(t)'
  <2>1. \A r \in Sessions : cur'[r] = t /\ pc'[r] \in Undecided => r = s /\ pc'[s] = pc[s]
    BY <1>1, <1>2, <1>3, <1>4, SessionTypes DEF Good, OneOwner, Touches, SessionOK, Placed,
       Undecided, Fetched
  <2>2. CASE ok[s]
    <3>1. NotFailed(t) /\ t \in loaded \cup unserved
      BY <1>1, <1>3, <2>2 DEF Good, OneOutcome, Undecided
    <3>2. NotFailed(t)'
      <4>1. ok'[s] /\ ~SawFailure(s)'
        BY <1>3, <2>2 DEF SawFailure
      <4> QED
        BY <1>1, <1>3, <1>4, <3>1, <4>1 DEF NotFailed, SawFailure, Touches
    <3> QED
      BY <1>3, <2>1, <2>2, <3>1, <3>2 DEF OneOutcome
  <2>3. CASE ~ok[s]
    <3>1. NotFailed(t) /\ NotSucceeded(t)
      BY <1>1, <1>3, <2>3 DEF Good, OneOutcome, Undecided
    <3>2. NotSucceeded(t)'
      BY <1>1, <1>2, <1>3, <1>4, <2>3, <3>1 DEF NotSucceeded, SawSuccess, Touches, Fetched
    <3>3. pc'[s] = pc[s] => NotFailed(t)'
      BY <1>1, <1>2, <1>3, <1>4, <2>3, <3>1 DEF NotFailed, SawFailure, Touches, Fetched
    <3> QED
      BY <1>3, <2>1, <2>3, <3>2, <3>3 DEF OneOutcome
  <2> QED
    BY <2>2, <2>3
<1>9. AckTrue(t)'
  BY <1>1, <1>2, <1>3, <1>4 DEF Good, AckTrue, MustSubmit, Touches, SessionOK, Placed, Undecided
<1> QED
  BY <1>2, <1>4, <1>5, <1>6, <1>7, <1>8, <1>9, GoodStep DEF Good

(* The outcome goes into the row.                                           *)
LEMMA MarkStep ==
  ASSUME IInv, NEW s \in Sessions, NEW t \in TopUps, t = cur[s], Mark(s)
  PROVE  IInv'
<1> USE TopUpAssumption, NoRowAssumption
    DEF Unconfirmed, Confirmed, ConfirmFailed, LoadFailed,
        Reversed, ReversalFailed, Unknown
<1>1. SessionOK(s) /\ WorldOK /\ TypeInv /\ Good(t)
  BY SessionTypes DEF IInv
<1>2. Only(s) /\ TypeInv' /\ SessionOK(s)'
  BY TypeStep DEF IInv, YCT_NormalTrade
<1>3. /\ pc[s] = "mark" /\ pc'[s] = "settle" /\ cur'[s] = cur[s]
      /\ data'[s].status = LoadStatus(s) /\ data'[s].ack = data[s].ack /\ data'[s].msg = data[s].msg
      /\ ok'[s] = ok[s] /\ recovering'[s] = recovering[s] /\ account'[t] = account[t]
      /\ (t \in told' <=> t \in told) /\ (t \in loaded' <=> t \in loaded)
      /\ (t \in platform' <=> t \in platform) /\ (t \in doubtful' <=> t \in doubtful)
      /\ (t \in unserved' <=> t \in unserved)
      /\ (row'[t] = row[t] \/ row'[t] = data'[s])
  BY <1>1 DEF Mark, At, Go, SetStatus, UpdateRow, world, SessionOK, Placed, Free, TypeInv,
     TypeOK, Data, WorldOK
<1>4. Touches(s, t)
  <2>1. \A u \in TopUps : u # t => row'[u] = row[u] /\ account'[u] = account[u]
    BY <1>1 DEF Mark, UpdateRow, world, WorldOK
  <2> QED
    BY <1>1, <1>2, <1>3, <2>1, OnlyOthers DEF Mark, world, Touches
<1>5. OneOwner(t)'
  BY <1>1, <1>3, <1>4 DEF Good, OneOwner, Touches, Traced
<1>6. Traced(t)'
  BY <1>1, <1>3, <1>4 DEF Good, Traced, Touches, SessionOK, Placed, LoadStatus
<1>7. StatusTrue(t)'
  BY <1>1, <1>3, <1>4 DEF Good, StatusTrue, TrueOf, Touches, SessionOK, Placed, LoadStatus
<1>8. OneOutcome(t)'
  <2>1. NotFailed(t) => NotFailed(t)'
    BY <1>1, <1>2, <1>3, <1>4 DEF NotFailed, SawFailure, Touches, SessionOK, Placed, Fetched,
       LoadStatus
  <2>2. NotSucceeded(t) => NotSucceeded(t)'
    BY <1>1, <1>2, <1>3, <1>4 DEF NotSucceeded, SawSuccess, Touches, SessionOK, Placed,
       Fetched, LoadStatus
  <2>3. \A r \in Sessions : cur'[r] = t /\ pc'[r] \in Undecided =>
          cur[r] = t /\ pc[r] \in Undecided /\ (ok'[r] <=> ok[r])
    BY <1>1, <1>2, <1>3, <1>4 DEF Touches, SessionOK, Placed, Undecided
  <2>4. NotSucceeded(t)' \/ t \in loaded' \cup doubtful' \cup unserved'
    BY <1>1, <1>3, <2>2 DEF Good, OneOutcome
  <2> QED
    BY <1>1, <1>3, <2>1, <2>2, <2>3, <2>4 DEF Good, OneOutcome
<1>9. AckTrue(t)'
  BY <1>1, <1>2, <1>3, <1>4 DEF Good, AckTrue, MustSubmit, Touches, SessionOK, Placed,
     Undecided, LoadStatus
<1> QED
  BY <1>2, <1>4, <1>5, <1>6, <1>7, <1>8, <1>9, GoodStep DEF Good

(* The status selects the request to the host.                              *)
LEMMA SettleStep ==
  ASSUME IInv, NEW s \in Sessions, NEW t \in TopUps, t = cur[s], Settle(s)
  PROVE  IInv'
<1> USE TopUpAssumption, NoRowAssumption
    DEF Unconfirmed, Confirmed, ConfirmFailed, LoadFailed,
        Reversed, ReversalFailed, Unknown
<1>1. SessionOK(s) /\ WorldOK /\ TypeInv /\ Good(t)
  BY SessionTypes DEF IInv
<1>2. Only(s) /\ TypeInv' /\ SessionOK(s)'
  BY TypeStep DEF IInv, AckRevTrade
<1>3. /\ pc[s] = "settle" /\ pc'[s] \in {"ack", "reverse", "ackFailure", "write"}
      /\ cur'[s] = cur[s] /\ data'[s] = data[s] /\ ok'[s] = ok[s]
      /\ recovering'[s] = recovering[s] /\ account'[t] = account[t]
      /\ (t \in told' <=> t \in told) /\ (t \in loaded' <=> t \in loaded)
      /\ (t \in platform' <=> t \in platform) /\ (t \in doubtful' <=> t \in doubtful)
      /\ (t \in unserved' <=> t \in unserved)
      /\ row'[t] = row[t]
  BY <1>1 DEF Settle, At, Go, world, local, SessionOK, Placed, Free, TypeInv, TypeOK
<1>4. Touches(s, t)
  <2>1. \A u \in TopUps : u # t => row'[u] = row[u] /\ account'[u] = account[u]
    BY <1>1 DEF Settle, world, WorldOK
  <2> QED
    BY <1>1, <1>2, <1>3, <2>1, OnlyOthers DEF Settle, world, Touches
<1>5. OneOwner(t)'
  BY <1>1, <1>3, <1>4 DEF Good, OneOwner, Touches, Traced
<1>6. Traced(t)'
  BY <1>1, <1>3, <1>4 DEF Good, Traced, Touches, SessionOK, Placed
<1>7. StatusTrue(t)'
  BY <1>1, <1>3, <1>4 DEF Good, StatusTrue, TrueOf, Touches, SessionOK, Placed
<1>8. OneOutcome(t)'
  <2>1. NotFailed(t) => NotFailed(t)'
    BY <1>1, <1>2, <1>3, <1>4 DEF NotFailed, SawFailure, Touches, SessionOK, Placed, Fetched
  <2>2. NotSucceeded(t) => NotSucceeded(t)'
    BY <1>1, <1>2, <1>3, <1>4 DEF NotSucceeded, SawSuccess, Touches, SessionOK, Placed, Fetched
  <2>3. \A r \in Sessions : cur'[r] = t /\ pc'[r] \in Undecided =>
          cur[r] = t /\ pc[r] \in Undecided /\ (ok'[r] <=> ok[r])
    BY <1>1, <1>2, <1>3, <1>4 DEF Touches, SessionOK, Placed, Undecided
  <2>4. NotSucceeded(t)' \/ t \in loaded' \cup doubtful' \cup unserved'
    BY <1>1, <1>3, <2>2 DEF Good, OneOutcome
  <2> QED
    BY <1>1, <1>3, <2>1, <2>2, <2>3, <2>4 DEF Good, OneOutcome
<1>9. AckTrue(t)'
  BY <1>1, <1>2, <1>3, <1>4 DEF Good, AckTrue, MustSubmit, Touches, SessionOK, Placed, Undecided
<1> QED
  BY <1>2, <1>4, <1>5, <1>6, <1>7, <1>8, <1>9, GoodStep DEF Good

(* The host is told of a success that was seen.                             *)
LEMMA AckTradeAnsweredStep ==
  ASSUME IInv, NEW s \in Sessions, NEW t \in TopUps, t = cur[s], AckTradeAnswered(s)
  PROVE  IInv'
<1> USE TopUpAssumption, NoRowAssumption
    DEF Unconfirmed, Confirmed, ConfirmFailed, LoadFailed,
        Reversed, ReversalFailed, Unknown
<1>1. SessionOK(s) /\ WorldOK /\ TypeInv /\ Good(t)
  BY SessionTypes DEF IInv
<1>2. Only(s) /\ TypeInv' /\ SessionOK(s)'
  BY TypeStep DEF IInv, AckRevTrade
<1>3. /\ pc[s] = "ack" /\ pc'[s] = "write" /\ cur'[s] = cur[s]
      /\ data'[s].status = Confirmed /\ data'[s].ack = data[s].ack /\ data'[s].msg = data[s].msg
      /\ ok'[s] = ok[s] /\ recovering'[s] = recovering[s] /\ account'[t] = account[t]
      /\ (t \in told') /\ (t \in loaded' <=> t \in loaded)
      /\ (t \in platform' <=> t \in platform) /\ (t \in doubtful' <=> t \in doubtful)
      /\ (t \in unserved' <=> t \in unserved)
      /\ row'[t] = row[t]
  BY <1>1 DEF AckTradeAnswered, At, Go, SetStatus, SessionOK, Placed, Free, TypeInv, TypeOK,
     Data
<1>4. Touches(s, t)
  <2>1. \A u \in TopUps : u # t => row'[u] = row[u] /\ account'[u] = account[u]
    BY <1>1 DEF AckTradeAnswered, WorldOK
  <2> QED
    BY <1>1, <1>2, <1>3, <2>1, OnlyOthers DEF AckTradeAnswered, Touches
<1>5. OneOwner(t)'
  BY <1>1, <1>3, <1>4 DEF Good, OneOwner, Touches, Traced
<1>6. Traced(t)'
  BY <1>1, <1>3, <1>4 DEF Good, Traced, Touches, SessionOK, Placed
<1>7. StatusTrue(t)'
  BY <1>1, <1>3, <1>4 DEF Good, StatusTrue, TrueOf, Touches, SessionOK, Placed
<1>8. OneOutcome(t)'
  <2>1. NotFailed(t) => NotFailed(t)'
    BY <1>1, <1>2, <1>3, <1>4 DEF NotFailed, SawFailure, Touches, SessionOK, Placed, Fetched
  <2>2. NotSucceeded(t) => NotSucceeded(t)'
    BY <1>1, <1>2, <1>3, <1>4 DEF NotSucceeded, SawSuccess, Touches, SessionOK, Placed, Fetched
  <2>3. \A r \in Sessions : cur'[r] = t /\ pc'[r] \in Undecided =>
          cur[r] = t /\ pc[r] \in Undecided /\ (ok'[r] <=> ok[r])
    BY <1>1, <1>2, <1>3, <1>4 DEF Touches, SessionOK, Placed, Undecided
  <2>4. NotSucceeded(t)' \/ t \in loaded' \cup doubtful' \cup unserved'
    BY <1>1, <1>3, <2>2 DEF Good, OneOutcome
  <2> QED
    BY <1>1, <1>3, <2>1, <2>2, <2>3, <2>4 DEF Good, OneOutcome
<1>9. AckTrue(t)'
  BY <1>1, <1>2, <1>3, <1>4 DEF Good, AckTrue, MustSubmit, Touches, SessionOK, Placed, Undecided
<1> QED
  BY <1>2, <1>4, <1>5, <1>6, <1>7, <1>8, <1>9, GoodStep DEF Good

(* The same, but the answer is lost.                                        *)
LEMMA AckTradeFailsStep ==
  ASSUME IInv, NEW s \in Sessions, NEW t \in TopUps, t = cur[s], AckTradeFails(s)
  PROVE  IInv'
<1> USE TopUpAssumption, NoRowAssumption
    DEF Unconfirmed, Confirmed, ConfirmFailed, LoadFailed,
        Reversed, ReversalFailed, Unknown
<1>1. SessionOK(s) /\ WorldOK /\ TypeInv /\ Good(t)
  BY SessionTypes DEF IInv
<1>2. Only(s) /\ TypeInv' /\ SessionOK(s)'
  BY TypeStep DEF IInv, AckRevTrade
<1>3. /\ pc[s] = "ack"
      /\ \/ /\ pc'[s] = pc[s] /\ cur'[s] = cur[s] /\ data'[s] = data[s]
            /\ ok'[s] = ok[s] /\ recovering'[s] = recovering[s]
         \/ /\ pc'[s] = "write" /\ cur'[s] = cur[s] /\ data'[s].status = ConfirmFailed
            /\ recovering'[s] = recovering[s]
         \/ cur'[s] = NoTopUp
      /\ account'[t] = account[t] /\ (t \in told => t \in told')
      /\ (t \in loaded' <=> t \in loaded) /\ (t \in platform' <=> t \in platform)
      /\ (t \in doubtful' <=> t \in doubtful)
      /\ (t \in unserved' <=> t \in unserved) /\ row'[t] = row[t]
  BY <1>1 DEF AckTradeFails, At, Go, SetStatus, Forget, NoData, SessionOK, Placed, Free,
     TypeInv, TypeOK, Data
<1>4. Touches(s, t)
  <2>1. \A u \in TopUps : u # t => row'[u] = row[u] /\ account'[u] = account[u]
    BY <1>1 DEF AckTradeFails, WorldOK
  <2> QED
    BY <1>1, <1>2, <1>3, <2>1, OnlyOthers DEF AckTradeFails, Touches
<1>5. OneOwner(t)'
  BY <1>1, <1>3, <1>4 DEF Good, OneOwner, Touches, Traced
<1>6. Traced(t)'
  BY <1>1, <1>3, <1>4 DEF Good, Traced, Touches, SessionOK, Placed
<1>7. StatusTrue(t)'
  BY <1>1, <1>3, <1>4 DEF Good, StatusTrue, TrueOf, Touches, SessionOK, Placed
<1>8. OneOutcome(t)'
  <2>1. NotFailed(t) => NotFailed(t)'
    BY <1>1, <1>2, <1>3, <1>4 DEF NotFailed, SawFailure, Touches, SessionOK, Placed, Fetched
  <2>2. NotSucceeded(t) => NotSucceeded(t)'
    BY <1>1, <1>2, <1>3, <1>4 DEF NotSucceeded, SawSuccess, Touches, SessionOK, Placed, Fetched
  <2>3. \A r \in Sessions : cur'[r] = t /\ pc'[r] \in Undecided =>
          cur[r] = t /\ pc[r] \in Undecided /\ (ok'[r] <=> ok[r])
    BY <1>1, <1>2, <1>3, <1>4 DEF Touches, SessionOK, Placed, Undecided
  <2>4. NotSucceeded(t)' \/ t \in loaded' \cup doubtful' \cup unserved'
    BY <1>1, <1>3, <2>2 DEF Good, OneOutcome
  <2> QED
    BY <1>1, <1>3, <2>1, <2>2, <2>3, <2>4 DEF Good, OneOutcome
<1>9. AckTrue(t)'
  BY <1>1, <1>2, <1>3, <1>4 DEF Good, AckTrue, MustSubmit, Touches, SessionOK, Placed, Undecided
<1> QED
  BY <1>2, <1>4, <1>5, <1>6, <1>7, <1>8, <1>9, GoodStep DEF Good

(* The host reverses the debit of a top-up that was seen to fail.           *)
LEMMA RevTradeDoneStep ==
  ASSUME IInv, NEW s \in Sessions, NEW t \in TopUps, t = cur[s], RevTradeDone(s)
  PROVE  IInv'
<1> USE TopUpAssumption, NoRowAssumption
    DEF Unconfirmed, Confirmed, ConfirmFailed, LoadFailed,
        Reversed, ReversalFailed, Unknown
<1>1. SessionOK(s) /\ WorldOK /\ TypeInv /\ Good(t)
  BY SessionTypes DEF IInv
<1>2. Only(s) /\ TypeInv' /\ SessionOK(s)'
  BY TypeStep DEF IInv, AckRevTrade
<1>3. /\ pc[s] = "reverse" /\ pc'[s] = "ackFailure" /\ cur'[s] = cur[s]
      /\ data'[s].status = Reversed /\ data'[s].ack = data[s].ack /\ data'[s].msg = data[s].msg
      /\ ok'[s] = ok[s] /\ recovering'[s] = recovering[s] /\ account'[t] = "reversed"
      /\ (t \in told' <=> t \in told) /\ (t \in loaded' <=> t \in loaded)
      /\ (t \in platform' <=> t \in platform) /\ (t \in doubtful' <=> t \in doubtful)
      /\ (t \in unserved' <=> t \in unserved)
      /\ row'[t] = row[t]
  BY <1>1 DEF RevTradeDone, At, Go, SetStatus, SessionOK, Placed, Free, TypeInv, TypeOK,
     Data, WorldOK
<1>4. Touches(s, t)
  <2>1. \A u \in TopUps : u # t => row'[u] = row[u] /\ account'[u] = account[u]
    BY <1>1 DEF RevTradeDone, WorldOK
  <2> QED
    BY <1>1, <1>2, <1>3, <2>1, OnlyOthers DEF RevTradeDone, Touches
<1>5. OneOwner(t)'
  BY <1>1, <1>3, <1>4 DEF Good, OneOwner, Touches, Traced
<1>6. Traced(t)'
  BY <1>1, <1>3, <1>4 DEF Good, Traced, Touches, SessionOK, Placed
<1>7. StatusTrue(t)'
  BY <1>1, <1>3, <1>4 DEF Good, StatusTrue, TrueOf, Touches, SessionOK, Placed
<1>8. OneOutcome(t)'
  <2>1. NotFailed(t) => NotFailed(t)'
    BY <1>1, <1>2, <1>3, <1>4 DEF NotFailed, SawFailure, Touches, SessionOK, Placed, Fetched
  <2>2. NotSucceeded(t) => NotSucceeded(t)'
    BY <1>1, <1>2, <1>3, <1>4 DEF NotSucceeded, SawSuccess, Touches, SessionOK, Placed, Fetched
  <2>3. \A r \in Sessions : cur'[r] = t /\ pc'[r] \in Undecided =>
          cur[r] = t /\ pc[r] \in Undecided /\ (ok'[r] <=> ok[r])
    BY <1>1, <1>2, <1>3, <1>4 DEF Touches, SessionOK, Placed, Undecided
  <2>4. NotSucceeded(t)' \/ t \in loaded' \cup doubtful' \cup unserved'
    BY <1>1, <1>3, <2>2 DEF Good, OneOutcome
  <2> QED
    BY <1>1, <1>3, <2>1, <2>2, <2>3, <2>4 DEF Good, OneOutcome
<1>9. AckTrue(t)'
  BY <1>1, <1>2, <1>3, <1>4 DEF Good, AckTrue, MustSubmit, Touches, SessionOK, Placed, Undecided
<1> QED
  BY <1>2, <1>4, <1>5, <1>6, <1>7, <1>8, <1>9, GoodStep DEF Good

(* The host refuses.                                                        *)
LEMMA RevTradeRefusedStep ==
  ASSUME IInv, NEW s \in Sessions, NEW t \in TopUps, t = cur[s], RevTradeRefused(s)
  PROVE  IInv'
<1> USE TopUpAssumption, NoRowAssumption
    DEF Unconfirmed, Confirmed, ConfirmFailed, LoadFailed,
        Reversed, ReversalFailed, Unknown
<1>1. SessionOK(s) /\ WorldOK /\ TypeInv /\ Good(t)
  BY SessionTypes DEF IInv
<1>2. Only(s) /\ TypeInv' /\ SessionOK(s)'
  BY TypeStep DEF IInv, AckRevTrade
<1>3. /\ pc[s] = "reverse" /\ pc'[s] = "write" /\ cur'[s] = cur[s]
      /\ data'[s].status = ReversalFailed
      /\ data'[s].ack = data[s].ack /\ data'[s].msg = data[s].msg
      /\ ok'[s] = ok[s] /\ recovering'[s] = recovering[s] /\ account'[t] = account[t]
      /\ (t \in told' <=> t \in told) /\ (t \in loaded' <=> t \in loaded)
      /\ (t \in platform' <=> t \in platform) /\ (t \in doubtful' <=> t \in doubtful)
      /\ (t \in unserved' <=> t \in unserved)
      /\ row'[t] = row[t]
  BY <1>1 DEF RevTradeRefused, At, Go, SetStatus, world, SessionOK, Placed, Free, TypeInv,
     TypeOK, Data
<1>4. Touches(s, t)
  <2>1. \A u \in TopUps : u # t => row'[u] = row[u] /\ account'[u] = account[u]
    BY <1>1 DEF RevTradeRefused, world, WorldOK
  <2> QED
    BY <1>1, <1>2, <1>3, <2>1, OnlyOthers DEF RevTradeRefused, world, Touches
<1>5. OneOwner(t)'
  BY <1>1, <1>3, <1>4 DEF Good, OneOwner, Touches, Traced
<1>6. Traced(t)'
  BY <1>1, <1>3, <1>4 DEF Good, Traced, Touches, SessionOK, Placed
<1>7. StatusTrue(t)'
  BY <1>1, <1>3, <1>4 DEF Good, StatusTrue, TrueOf, Touches, SessionOK, Placed
<1>8. OneOutcome(t)'
  <2>1. NotFailed(t) => NotFailed(t)'
    BY <1>1, <1>2, <1>3, <1>4 DEF NotFailed, SawFailure, Touches, SessionOK, Placed, Fetched
  <2>2. NotSucceeded(t) => NotSucceeded(t)'
    BY <1>1, <1>2, <1>3, <1>4 DEF NotSucceeded, SawSuccess, Touches, SessionOK, Placed, Fetched
  <2>3. \A r \in Sessions : cur'[r] = t /\ pc'[r] \in Undecided =>
          cur[r] = t /\ pc[r] \in Undecided /\ (ok'[r] <=> ok[r])
    BY <1>1, <1>2, <1>3, <1>4 DEF Touches, SessionOK, Placed, Undecided
  <2>4. NotSucceeded(t)' \/ t \in loaded' \cup doubtful' \cup unserved'
    BY <1>1, <1>3, <2>2 DEF Good, OneOutcome
  <2> QED
    BY <1>1, <1>3, <2>1, <2>2, <2>3, <2>4 DEF Good, OneOutcome
<1>9. AckTrue(t)'
  BY <1>1, <1>2, <1>3, <1>4 DEF Good, AckTrue, MustSubmit, Touches, SessionOK, Placed, Undecided
<1> QED
  BY <1>2, <1>4, <1>5, <1>6, <1>7, <1>8, <1>9, GoodStep DEF Good

(* The answer of the host is lost.                                          *)
LEMMA RevTradeLostStep ==
  ASSUME IInv, NEW s \in Sessions, NEW t \in TopUps, t = cur[s], RevTradeLost(s)
  PROVE  IInv'
<1> USE TopUpAssumption, NoRowAssumption
    DEF Unconfirmed, Confirmed, ConfirmFailed, LoadFailed,
        Reversed, ReversalFailed, Unknown
<1>1. SessionOK(s) /\ WorldOK /\ TypeInv /\ Good(t)
  BY SessionTypes DEF IInv
<1>2. Only(s) /\ TypeInv' /\ SessionOK(s)'
  BY TypeStep DEF IInv, AckRevTrade
<1>3. /\ pc[s] = "reverse" /\ cur'[s] = cur[s]
      /\ \/ pc'[s] = pc[s] /\ data'[s] = data[s]
         \/ pc'[s] = "write" /\ data'[s].status = ReversalFailed
      /\ ok'[s] = ok[s] /\ recovering'[s] = recovering[s]
      /\ account'[t] \in {account[t], "reversed"} /\ (t \in told' <=> t \in told)
      /\ (t \in loaded' <=> t \in loaded) /\ (t \in platform' <=> t \in platform)
      /\ (t \in doubtful' <=> t \in doubtful)
      /\ (t \in unserved' <=> t \in unserved) /\ row'[t] = row[t]
  BY <1>1 DEF RevTradeLost, At, Go, SetStatus, SessionOK, Placed, Free, TypeInv, TypeOK,
     Data, WorldOK
<1>4. Touches(s, t)
  <2>1. \A u \in TopUps : u # t => row'[u] = row[u] /\ account'[u] = account[u]
    BY <1>1 DEF RevTradeLost, WorldOK
  <2> QED
    BY <1>1, <1>2, <1>3, <2>1, OnlyOthers DEF RevTradeLost, Touches
<1>5. OneOwner(t)'
  BY <1>1, <1>3, <1>4 DEF Good, OneOwner, Touches, Traced
<1>6. Traced(t)'
  BY <1>1, <1>3, <1>4 DEF Good, Traced, Touches, SessionOK, Placed
<1>7. StatusTrue(t)'
  BY <1>1, <1>3, <1>4 DEF Good, StatusTrue, TrueOf, Touches, SessionOK, Placed
<1>8. OneOutcome(t)'
  <2>1. NotFailed(t) => NotFailed(t)'
    BY <1>1, <1>2, <1>3, <1>4 DEF NotFailed, SawFailure, Touches, SessionOK, Placed, Fetched
  <2>2. NotSucceeded(t) => NotSucceeded(t)'
    BY <1>1, <1>2, <1>3, <1>4 DEF NotSucceeded, SawSuccess, Touches, SessionOK, Placed, Fetched
  <2>3. \A r \in Sessions : cur'[r] = t /\ pc'[r] \in Undecided =>
          cur[r] = t /\ pc[r] \in Undecided /\ (ok'[r] <=> ok[r])
    BY <1>1, <1>2, <1>3, <1>4 DEF Touches, SessionOK, Placed, Undecided
  <2>4. NotSucceeded(t)' \/ t \in loaded' \cup doubtful' \cup unserved'
    BY <1>1, <1>3, <2>2 DEF Good, OneOutcome
  <2> QED
    BY <1>1, <1>3, <2>1, <2>2, <2>3, <2>4 DEF Good, OneOutcome
<1>9. AckTrue(t)'
  BY <1>1, <1>2, <1>3, <1>4 DEF Good, AckTrue, MustSubmit, Touches, SessionOK, Placed, Undecided
<1> QED
  BY <1>2, <1>4, <1>5, <1>6, <1>7, <1>8, <1>9, GoodStep DEF Good

(* The host is told of the failure.                                         *)
LEMMA AckFailureStep ==
  ASSUME IInv, NEW s \in Sessions, NEW t \in TopUps, t = cur[s], AckFailure(s)
  PROVE  IInv'
<1> USE TopUpAssumption, NoRowAssumption
    DEF Unconfirmed, Confirmed, ConfirmFailed, LoadFailed,
        Reversed, ReversalFailed, Unknown
<1>1. SessionOK(s) /\ WorldOK /\ TypeInv /\ Good(t)
  BY SessionTypes DEF IInv
<1>2. Only(s) /\ TypeInv' /\ SessionOK(s)'
  BY TypeStep DEF IInv, AckRevTrade
<1>3. /\ pc[s] = "ackFailure" /\ pc'[s] = "write" /\ cur'[s] = cur[s] /\ data'[s] = data[s]
      /\ ok'[s] = ok[s] /\ recovering'[s] = recovering[s] /\ account'[t] = account[t]
      /\ (t \in told' <=> t \in told) /\ (t \in loaded' <=> t \in loaded)
      /\ (t \in platform' <=> t \in platform) /\ (t \in doubtful' <=> t \in doubtful)
      /\ (t \in unserved' <=> t \in unserved)
      /\ row'[t] = row[t]
  BY <1>1 DEF AckFailure, At, Go, world, local, SessionOK, Placed, Free, TypeInv, TypeOK
<1>4. Touches(s, t)
  <2>1. \A u \in TopUps : u # t => row'[u] = row[u] /\ account'[u] = account[u]
    BY <1>1 DEF AckFailure, world, WorldOK
  <2> QED
    BY <1>1, <1>2, <1>3, <2>1, OnlyOthers DEF AckFailure, world, Touches
<1>5. OneOwner(t)'
  BY <1>1, <1>3, <1>4 DEF Good, OneOwner, Touches, Traced
<1>6. Traced(t)'
  BY <1>1, <1>3, <1>4 DEF Good, Traced, Touches, SessionOK, Placed
<1>7. StatusTrue(t)'
  BY <1>1, <1>3, <1>4 DEF Good, StatusTrue, TrueOf, Touches, SessionOK, Placed
<1>8. OneOutcome(t)'
  <2>1. NotFailed(t) => NotFailed(t)'
    BY <1>1, <1>2, <1>3, <1>4 DEF NotFailed, SawFailure, Touches, SessionOK, Placed, Fetched
  <2>2. NotSucceeded(t) => NotSucceeded(t)'
    BY <1>1, <1>2, <1>3, <1>4 DEF NotSucceeded, SawSuccess, Touches, SessionOK, Placed, Fetched
  <2>3. \A r \in Sessions : cur'[r] = t /\ pc'[r] \in Undecided =>
          cur[r] = t /\ pc[r] \in Undecided /\ (ok'[r] <=> ok[r])
    BY <1>1, <1>2, <1>3, <1>4 DEF Touches, SessionOK, Placed, Undecided
  <2>4. NotSucceeded(t)' \/ t \in loaded' \cup doubtful' \cup unserved'
    BY <1>1, <1>3, <2>2 DEF Good, OneOutcome
  <2> QED
    BY <1>1, <1>3, <2>1, <2>2, <2>3, <2>4 DEF Good, OneOutcome
<1>9. AckTrue(t)'
  BY <1>1, <1>2, <1>3, <1>4 DEF Good, AckTrue, MustSubmit, Touches, SessionOK, Placed, Undecided
<1> QED
  BY <1>2, <1>4, <1>5, <1>6, <1>7, <1>8, <1>9, GoodStep DEF Good

(* The last update of the row.                                              *)
LEMMA WriteStep ==
  ASSUME IInv, NEW s \in Sessions, NEW t \in TopUps, t = cur[s], NEW b \in BOOLEAN, Write(s, b)
  PROVE  IInv'
<1> USE TopUpAssumption, NoRowAssumption
    DEF Unconfirmed, Confirmed, ConfirmFailed, LoadFailed,
        Reversed, ReversalFailed, Unknown
<1>1. SessionOK(s) /\ WorldOK /\ TypeInv /\ Good(t)
  BY SessionTypes DEF IInv
<1>2. Only(s) /\ TypeInv' /\ SessionOK(s)'
  BY TypeStep DEF IInv, AckRevTrade
<1>3. /\ pc[s] = "write" /\ pc'[s] = "menu" /\ cur'[s] = NoTopUp /\ account'[t] = account[t]
      /\ (t \in told' <=> t \in told) /\ (t \in loaded' <=> t \in loaded)
      /\ (t \in platform' <=> t \in platform) /\ (t \in doubtful' <=> t \in doubtful)
      /\ (t \in unserved' <=> t \in unserved)
      /\ (row'[t] = row[t] \/ row'[t] = data[s])
  BY <1>1 DEF Write, At, Go, Forget, UpdateRow, world, NoData, SessionOK, Placed, Free,
     TypeInv, TypeOK, WorldOK
<1>4. Touches(s, t)
  <2>1. \A u \in TopUps : u # t => row'[u] = row[u] /\ account'[u] = account[u]
    BY <1>1 DEF Write, UpdateRow, world, WorldOK
  <2> QED
    BY <1>1, <1>2, <1>3, <2>1, OnlyOthers DEF Write, world, Touches
<1>5. OneOwner(t)'
  BY <1>1, <1>3, <1>4 DEF Good, OneOwner, Touches, Traced
<1>6. Traced(t)'
  BY <1>1, <1>3, <1>4 DEF Good, Traced, Touches, SessionOK, Placed
<1>7. StatusTrue(t)'
  BY <1>1, <1>3, <1>4 DEF Good, StatusTrue, TrueOf, Touches, SessionOK, Placed
<1>8. OneOutcome(t)'
  <2>1. NotFailed(t) => NotFailed(t)'
    BY <1>1, <1>2, <1>3, <1>4 DEF NotFailed, SawFailure, Touches, SessionOK, Placed, Fetched
  <2>2. NotSucceeded(t) => NotSucceeded(t)'
    BY <1>1, <1>2, <1>3, <1>4 DEF NotSucceeded, SawSuccess, Touches, SessionOK, Placed, Fetched
  <2>3. \A r \in Sessions : cur'[r] = t /\ pc'[r] \in Undecided =>
          cur[r] = t /\ pc[r] \in Undecided /\ (ok'[r] <=> ok[r])
    BY <1>1, <1>2, <1>3, <1>4 DEF Touches, SessionOK, Placed, Undecided
  <2>4. NotSucceeded(t)' \/ t \in loaded' \cup doubtful' \cup unserved'
    BY <1>1, <1>3, <2>2 DEF Good, OneOutcome
  <2> QED
    BY <1>1, <1>3, <2>1, <2>2, <2>3, <2>4 DEF Good, OneOutcome
<1>9. AckTrue(t)'
  BY <1>1, <1>2, <1>3, <1>4 DEF Good, AckTrue, MustSubmit, Touches, SessionOK, Placed, Undecided
<1> QED
  BY <1>2, <1>4, <1>5, <1>6, <1>7, <1>8, <1>9, GoodStep DEF Good

(* A session takes no top-up, or drops the one it has.                      *)
LEMMA DropStep ==
  ASSUME IInv, NEW s \in Sessions,
         Login(s) \/ HangUp(s) \/ Crash(s) \/ NothingToFinish(s) \/ ReaderFails(s)
  PROVE  IInv'
<1> USE TopUpAssumption
<1>1. SessionOK(s) /\ TypeInv
  BY SessionTypes DEF IInv
<1>2. Only(s) /\ TypeInv' /\ SessionOK(s)'
  BY TypeStep DEF IInv, NotFinishChk
<1>3. /\ UNCHANGED <<row, account, told, loaded, platform, doubtful, unserved, kind>>
      /\ cur'[s] = NoTopUp
  BY <1>1 DEF Login, HangUp, Crash, NothingToFinish, ReaderFails, At, Forget, world, local,
              SessionOK, Placed, Free, TypeInv, TypeOK
<1>4. Touches(s, cur[s])
  BY <1>1, <1>2, <1>3, OnlyOthers DEF Touches
<1>5. ASSUME NEW t \in TopUps PROVE Good(t)'
  <2>1. Good(t) /\ cur'[s] # t
    BY <1>3 DEF IInv
  <2>2. OneOwner(t)'
    BY <1>4, <2>1 DEF Good, OneOwner, Touches
  <2>3. Traced(t)'
    BY <1>3, <1>4, <2>1 DEF Good, Traced, Touches
  <2>4. StatusTrue(t)'
    BY <1>3, <1>4, <2>1 DEF Good, StatusTrue, TrueOf, Touches
  <2>5. OneOutcome(t)'
    <3>1. NotFailed(t) => NotFailed(t)'
      BY <1>3, <1>4, <2>1 DEF NotFailed, SawFailure, Touches
    <3>2. NotSucceeded(t) => NotSucceeded(t)'
      BY <1>3, <1>4, <2>1 DEF NotSucceeded, SawSuccess, Touches
    <3> QED
      BY <1>3, <1>4, <2>1, <3>1, <3>2 DEF Good, OneOutcome, Touches
  <2>6. AckTrue(t)'
    BY <1>3, <1>4, <2>1 DEF Good, AckTrue, MustSubmit, Touches
  <2> QED
    BY <2>2, <2>3, <2>4, <2>5, <2>6 DEF Good
<1> QED
  BY <1>2, <1>5 DEF IInv

(* Every session with a top-up works on one of TopUps.                      *)
LEMMA WorkingOn ==
  ASSUME TypeInv, NEW s \in Sessions, pc[s] \notin Free
  PROVE  \E t \in TopUps : t = cur[s]
  BY DEF TypeInv, TypeOK, PlaceInv, Placed

(* NotFinishChk, whichever row it finds.                                    *)
LEMMA NotFinishChkStep ==
  ASSUME IInv, NEW s \in Sessions, NotFinishChk(s)
  PROVE  IInv'
<1>1. TypeInv
  BY DEF IInv
<1>2. ASSUME NEW t \in TopUps, GetYctNotFinish(s, t) PROVE IInv'
  BY <1>2, GetYctNotFinishStep
<1>3. ASSUME NothingToFinish(s) PROVE IInv'
  BY <1>3, DropStep
<1>4. ASSUME ReaderFails(s) PROVE IInv'
  BY <1>4, DropStep
<1>5. ASSUME ReaderReady(s) PROVE IInv'
  <2>1. PICK t \in TopUps : t = cur[s]
    BY <1>1, <1>5, WorkingOn DEF ReaderReady, At, Free
  <2> QED
    BY <1>5, <2>1, ReaderReadyStep
<1>6. ASSUME NEW b \in BOOLEAN, Resend(s, b) PROVE IInv'
  <2>1. PICK t \in TopUps : t = cur[s]
    BY <1>1, <1>6, WorkingOn DEF Resend, At, Free
  <2> QED
    BY <1>6, <2>1, ResendStep
<1> QED
  BY <1>2, <1>3, <1>4, <1>5, <1>6 DEF NotFinishChk

(* A new top-up.                                                            *)
LEMMA NormalTradeStep ==
  ASSUME IInv, NEW s \in Sessions, YCT_NormalTrade(s)
  PROVE  IInv'
<1>1. TypeInv
  BY DEF IInv
<1>2. ASSUME NEW t \in TopUps, Pay(s, t) PROVE IInv'
  BY <1>2, PayStep
<1>3. ASSUME NEW t \in TopUps, PayAnswerLost(s, t) PROVE IInv'
  BY <1>3, PayAnswerLostStep
<1>4. ASSUME SetYctYPData(s) PROVE IInv'
  <2>1. PICK t \in TopUps : t = cur[s]
    BY <1>1, <1>4, WorkingOn DEF SetYctYPData, At, Free
  <2> QED
    BY <1>4, <2>1, SetYctYPDataStep
<1>5. ASSUME LoadNotStarted(s) PROVE IInv'
  <2>1. PICK t \in TopUps : t = cur[s]
    BY <1>1, <1>5, WorkingOn DEF LoadNotStarted, At, Free
  <2> QED
    BY <1>5, <2>1, LoadNotStartedStep
<1>6. ASSUME LoadDone(s) PROVE IInv'
  <2>1. PICK t \in TopUps : t = cur[s]
    BY <1>1, <1>6, WorkingOn DEF LoadDone, At, Free
  <2> QED
    BY <1>6, <2>1, LoadDoneStep
<1>7. ASSUME LoadRefused(s) PROVE IInv'
  <2>1. PICK t \in TopUps : t = cur[s]
    BY <1>1, <1>7, WorkingOn DEF LoadRefused, At, Free
  <2> QED
    BY <1>7, <2>1, LoadRefusedStep
<1>8. ASSUME ReaderSilent(s) PROVE IInv'
  <2>1. PICK t \in TopUps : t = cur[s]
    BY <1>1, <1>8, WorkingOn DEF ReaderSilent, At, Free
  <2> QED
    BY <1>8, <2>1, ReaderSilentStep
<1>8a. ASSUME OtherTradeType(s) PROVE IInv'
  <2>1. PICK t \in TopUps : t = cur[s]
    BY <1>1, <1>8a, WorkingOn DEF OtherTradeType, At, Free
  <2> QED
    BY <1>8a, <2>1, OtherTradeTypeStep
<1>8b. ASSUME TransferBalance(s) PROVE IInv'
  <2>1. PICK t \in TopUps : t = cur[s]
    BY <1>1, <1>8b, WorkingOn DEF TransferBalance, At, Free
  <2> QED
    BY <1>8b, <2>1, TransferBalanceStep
<1>9. ASSUME LoadThrows(s) PROVE IInv'
  <2>1. PICK t \in TopUps : t = cur[s]
    BY <1>1, <1>9, WorkingOn DEF LoadThrows, At, Free
  <2> QED
    BY <1>9, <2>1, LoadThrowsStep
<1>10. ASSUME Submitted(s) PROVE IInv'
  <2>1. PICK t \in TopUps : t = cur[s]
    BY <1>1, <1>10, WorkingOn DEF Submitted, At, Free
  <2> QED
    BY <1>10, <2>1, SubmittedStep
<1>11. ASSUME SubmitFails(s) PROVE IInv'
  <2>1. PICK t \in TopUps : t = cur[s]
    BY <1>1, <1>11, WorkingOn DEF SubmitFails, At, Free
  <2> QED
    BY <1>11, <2>1, SubmitFailsStep
<1>12. ASSUME Mark(s) PROVE IInv'
  <2>1. PICK t \in TopUps : t = cur[s]
    BY <1>1, <1>12, WorkingOn DEF Mark, At, Free
  <2> QED
    BY <1>12, <2>1, MarkStep
<1> QED
  BY <1>2, <1>3, <1>4, <1>5, <1>6, <1>7, <1>8, <1>8a, <1>8b, <1>9, <1>10, <1>11, <1>12
  DEF YCT_NormalTrade

(* The settlement with the host.                                            *)
LEMMA AckRevTradeStep ==
  ASSUME IInv, NEW s \in Sessions, AckRevTrade(s)
  PROVE  IInv'
<1>1. TypeInv
  BY DEF IInv
<1>2. ASSUME Settle(s) PROVE IInv'
  <2>1. PICK t \in TopUps : t = cur[s]
    BY <1>1, <1>2, WorkingOn DEF Settle, At, Free
  <2> QED
    BY <1>2, <2>1, SettleStep
<1>3. ASSUME AckTradeAnswered(s) PROVE IInv'
  <2>1. PICK t \in TopUps : t = cur[s]
    BY <1>1, <1>3, WorkingOn DEF AckTradeAnswered, At, Free
  <2> QED
    BY <1>3, <2>1, AckTradeAnsweredStep
<1>4. ASSUME AckTradeFails(s) PROVE IInv'
  <2>1. PICK t \in TopUps : t = cur[s]
    BY <1>1, <1>4, WorkingOn DEF AckTradeFails, At, Free
  <2> QED
    BY <1>4, <2>1, AckTradeFailsStep
<1>5. ASSUME RevTradeDone(s) PROVE IInv'
  <2>1. PICK t \in TopUps : t = cur[s]
    BY <1>1, <1>5, WorkingOn DEF RevTradeDone, At, Free
  <2> QED
    BY <1>5, <2>1, RevTradeDoneStep
<1>6. ASSUME RevTradeRefused(s) PROVE IInv'
  <2>1. PICK t \in TopUps : t = cur[s]
    BY <1>1, <1>6, WorkingOn DEF RevTradeRefused, At, Free
  <2> QED
    BY <1>6, <2>1, RevTradeRefusedStep
<1>7. ASSUME RevTradeLost(s) PROVE IInv'
  <2>1. PICK t \in TopUps : t = cur[s]
    BY <1>1, <1>7, WorkingOn DEF RevTradeLost, At, Free
  <2> QED
    BY <1>7, <2>1, RevTradeLostStep
<1>8. ASSUME AckFailure(s) PROVE IInv'
  <2>1. PICK t \in TopUps : t = cur[s]
    BY <1>1, <1>8, WorkingOn DEF AckFailure, At, Free
  <2> QED
    BY <1>8, <2>1, AckFailureStep
<1>9. ASSUME NEW b \in BOOLEAN, Write(s, b) PROVE IInv'
  <2>1. PICK t \in TopUps : t = cur[s]
    BY <1>1, <1>9, WorkingOn DEF Write, At, Free
  <2> QED
    BY <1>9, <2>1, WriteStep
<1> QED
  BY <1>2, <1>3, <1>4, <1>5, <1>6, <1>7, <1>8, <1>9 DEF AckRevTrade

(* The invariant is inductive.                                              *)
LEMMA StepInv == IInv /\ [Next]_vars => IInv'
<1> SUFFICES ASSUME IInv, [Next]_vars PROVE IInv'
  OBVIOUS
<1>1. CASE UNCHANGED vars
  <2>1. TypeInv'
    <3>1. TypeOK'
      BY <1>1 DEF vars, world, local, IInv, TypeInv, TypeOK
    <3>2. PlaceInv'
      BY <1>1 DEF vars, local, IInv, TypeInv, PlaceInv, Placed
    <3> QED
      BY <3>1, <3>2 DEF TypeInv
  <2>2. ASSUME NEW t \in TopUps PROVE Good(t)'
    BY <1>1 DEF vars, world, local, IInv, Good, OneOwner, Traced, StatusTrue, TrueOf,
       OneOutcome,
                NotFailed, NotSucceeded, SawFailure, SawSuccess, AckTrue, MustSubmit
  <2> QED
    BY <2>1, <2>2 DEF IInv
<1>2. CASE Next
  <2>1. PICK s \in Sessions : \/ Login(s) \/ HangUp(s) \/ Crash(s)
                              \/ NotFinishChk(s) \/ YCT_NormalTrade(s) \/ AckRevTrade(s)
    BY <1>2 DEF Next
  <2> QED
    BY <2>1, DropStep, NotFinishChkStep, NormalTradeStep, AckRevTradeStep
<1> QED
  BY <1>1, <1>2

(* It holds before the first session.                                       *)
LEMMA InitInv == Init => IInv
<1> SUFFICES ASSUME Init PROVE IInv
  OBVIOUS
<1> USE TopUpAssumption DEF Init, Unconfirmed, Confirmed, LoadFailed, Reversed
<1>1. TypeInv
  BY DEF TypeInv, TypeOK, PlaceInv, Placed, Places, Free, Data, NoData
<1>2. ASSUME NEW t \in TopUps PROVE Good(t)
  BY DEF Good, OneOwner, Traced, StatusTrue, OneOutcome, NotFailed, NotSucceeded, AckTrue
<1> QED
  BY <1>1, <1>2 DEF IInv

(* Hence it holds always.                                                   *)
LEMMA AlwaysInv == Spec => []IInv
  BY InitInv, StepInv, PTL DEF Spec

(* The variables of the sessions, of the host, of the card and of the rows  *)
(* keep their types; the retry loops of AckTrade, RevTrade and of the       *)
(* submission stop after their last try.                                    *)
THEOREM TypeCorrect == Spec => []TypeOK
<1>1. IInv => TypeOK
  BY DEF IInv, TypeInv
<1> QED
  BY AlwaysInv, <1>1, PTL

(* However many sessions settle a top-up and wherever one of them dies, no  *)
(* debit is reversed (RevTrade, YCT_RevTrade) whose amount is on the card   *)
(* or that the host was told to be successful.                              *)
THEOREM NoRefundOfLoaded == Spec => []RefundedNotLoaded
<1>1. IInv => RefundedNotLoaded
  BY DEF IInv, Good, OneOutcome, NotFailed, NotSucceeded, RefundedNotLoaded
<1> QED
  BY AlwaysInv, <1>1, PTL

(* YCT_AckTrade confirms only a loading that succeeded, or one that         *)
(* ST_NormalEnqPay made a success of: the reader fell silent, the loading   *)
(* threw, or the platform asked for something else than a top-up.           *)
THEOREM OnlyLoadedConfirmed == Spec => []ConfirmedWasLoaded
<1>1. IInv => ConfirmedWasLoaded
  BY DEF IInv, TypeInv, TypeOK, Good, OneOutcome, NotSucceeded, ConfirmedWasLoaded
<1> QED
  BY AlwaysInv, <1>1, PTL

(* A row that says "reversed" or "confirmed" tells the truth about the      *)
(* host, although its updates may be lost and other sessions write it too.  *)
THEOREM FinalStatusIsTrue == Spec => []FinalStatusTrue
<1>1. IInv => FinalStatusTrue
  BY DEF IInv, Good, StatusTrue, TrueOf, FinalStatusTrue
<1> QED
  BY AlwaysInv, <1>1, PTL

(* A loaded CPU card's result has reached the platform before its row is    *)
(* out of the sight of getYctNotFinish.                                     *)
THEOREM ListedUntilSubmitted == Spec => []SubmittedOrListed
<1>1. IInv => SubmittedOrListed
  BY DEF IInv, Good, AckTrue, MustSubmit, SubmittedOrListed
<1> QED
  BY AlwaysInv, <1>1, PTL

-----------------------------------------------------------------------------
(* The abstract specification Purchase.                                     *)

(* A session that works on t shows that t was begun; one that is about to   *)
(* settle it with the host shows that the bank card was debited.            *)
LEMMA Begun ==
  ASSUME IInv, NEW s \in Sessions, pc[s] \notin Free
  PROVE  /\ cur[s] \in TopUps /\ Good(cur[s]) /\ account[cur[s]] # "untouched"
         /\ account[cur[s]] \in {"untouched", "waived", "debited", "reversed"}
         /\ pc[s] \in {"ack", "reverse"} => account[cur[s]] # "waived"
<1>1. PICK t \in TopUps : t = cur[s]
  BY WorkingOn DEF IInv
<1>2. Good(t) /\ SessionOK(s) /\ WorldOK
  BY SessionTypes DEF IInv
<1> QED
  BY <1>1, <1>2 DEF Good, Traced, SessionOK, Placed, WorldOK, Unconfirmed, LoadFailed, Reversed

(* Loading the card hands the goods over: it was paid for, and nobody has   *)
(* confirmed it yet.                                                        *)
LEMMA LoadHandsOver ==
  ASSUME IInv, NEW s \in Sessions, At(s, "load"),
         loaded' = loaded \cup {cur[s]}, UNCHANGED <<account, told>>
  PROVE  P!HandOver(cur[s])
<1>1. SessionOK(s) /\ WorldOK /\ pc[s] = "load"
  BY SessionTypes DEF IInv, At
<1>2. Good(cur[s]) /\ account[cur[s]] \in {"waived", "debited", "reversed"}
  BY <1>1, Begun DEF Free
<1>3. NotFailed(cur[s]) /\ NotSucceeded(cur[s])
  BY <1>1, <1>2 DEF Good, OneOutcome, Undecided, SessionOK, Placed
<1> QED
  BY <1>2, <1>3 DEF P!HandOver, NotFailed, NotSucceeded

(* The confirmation keeps the money: it was debited and not paid back.      *)
LEMMA AckKeeps ==
  ASSUME IInv, NEW s \in Sessions, At(s, "ack"),
         told' = told \cup {cur[s]}, UNCHANGED <<account, loaded>>
  PROVE  P!Keep(cur[s])
<1>1. pc[s] = "ack"
  BY DEF At
<1>2. Good(cur[s]) /\ cur[s] \in TopUps /\ account[cur[s]] \in {"debited", "reversed"}
  BY <1>1, Begun DEF Free
<1>3. NotFailed(cur[s])
  BY <1>1, <1>2 DEF Good, OneOutcome, NotSucceeded, SawSuccess
<1> QED
  BY <1>2, <1>3 DEF P!Keep, NotFailed

(* The reversal pays it back, once, and nothing was handed over.            *)
LEMMA ReversalPaysBack ==
  ASSUME IInv, NEW s \in Sessions, At(s, "reverse"),
         account' = [account EXCEPT ![cur[s]] = "reversed"], UNCHANGED <<told, loaded>>
  PROVE  P!PayBack(cur[s]) \/ UNCHANGED account
<1>1. pc[s] = "reverse" /\ WorldOK
  BY SessionTypes DEF IInv, At
<1>2. Good(cur[s]) /\ cur[s] \in TopUps /\ account[cur[s]] \in {"debited", "reversed"}
  BY <1>1, Begun DEF Free
<1>3. NotSucceeded(cur[s])
  BY <1>1, <1>2 DEF Good, OneOutcome, NotFailed, SawFailure
<1>4. CASE account[cur[s]] = "debited"
  BY <1>3, <1>4 DEF P!PayBack, NotSucceeded
<1>5. CASE account[cur[s]] = "reversed"
  BY <1>1, <1>5 DEF WorldOK
<1> QED
  BY <1>2, <1>4, <1>5

(* Every step is a step of Purchase or leaves the money, the goods and the  *)
(* receipts alone.                                                          *)
LEMMA PurchaseStep == IInv /\ [Next]_vars => [P!Next]_(P!vars)
<1> SUFFICES ASSUME IInv, [Next]_vars PROVE [P!Next]_(P!vars)
  OBVIOUS
<1> USE DEF P!vars, world
<1>1. CASE UNCHANGED vars
  BY <1>1 DEF vars
<1>2. ASSUME NEW s \in Sessions, Login(s) \/ HangUp(s) \/ Crash(s) PROVE [P!Next]_(P!vars)
  BY <1>2 DEF Login, HangUp, Crash
<1>3. ASSUME NEW s \in Sessions, NotFinishChk(s) PROVE [P!Next]_(P!vars)
  BY <1>3 DEF NotFinishChk, GetYctNotFinish, NothingToFinish, ReaderFails, ReaderReady, Resend
<1>4. ASSUME NEW s \in Sessions, NEW t \in TopUps, Pay(s, t) \/ PayAnswerLost(s, t)
      PROVE  [P!Next]_(P!vars)
  <2>1. P!Charge(t)
    BY <1>4 DEF Pay, PayAnswerLost, P!Charge
  <2> QED
    BY <2>1 DEF P!Next
<1>5. ASSUME NEW s \in Sessions, LoadDone(s) \/ ReaderSilent(s) \/ LoadThrows(s)
      PROVE  [P!Next]_(P!vars)
  <2>1. UNCHANGED <<account, told>> /\ pc[s] \notin Free
    BY <1>5 DEF LoadDone, ReaderSilent, LoadThrows, At, Free
  <2>2. UNCHANGED loaded \/ (At(s, "load") /\ loaded' = loaded \cup {cur[s]})
    BY <1>5 DEF LoadDone, ReaderSilent, LoadThrows
  <2> QED
    BY <2>1, <2>2, LoadHandsOver, Begun DEF P!Next
<1>6. ASSUME NEW s \in Sessions,
             \/ SetYctYPData(s) \/ LoadNotStarted(s) \/ OtherTradeType(s)
             \/ TransferBalance(s) \/ LoadRefused(s)
             \/ Submitted(s) \/ SubmitFails(s) \/ Mark(s)
      PROVE  [P!Next]_(P!vars)
  BY <1>6 DEF SetYctYPData, LoadNotStarted, OtherTradeType, TransferBalance, LoadRefused,
              Submitted, SubmitFails, Mark
<1>7. ASSUME NEW s \in Sessions, AckTradeAnswered(s) \/ AckTradeFails(s)
      PROVE  [P!Next]_(P!vars)
  <2>1. UNCHANGED <<account, loaded>> /\ At(s, "ack") /\ pc[s] \notin Free
    BY <1>7 DEF AckTradeAnswered, AckTradeFails, At, Free
  <2>2. UNCHANGED told \/ told' = told \cup {cur[s]}
    BY <1>7 DEF AckTradeAnswered, AckTradeFails
  <2> QED
    BY <2>1, <2>2, AckKeeps, Begun DEF P!Next
<1>8. ASSUME NEW s \in Sessions, RevTradeDone(s) \/ RevTradeLost(s)
      PROVE  [P!Next]_(P!vars)
  <2>1. UNCHANGED <<told, loaded>> /\ At(s, "reverse") /\ pc[s] \notin Free
    BY <1>8 DEF RevTradeDone, RevTradeLost, At, Free
  <2>2. WorldOK /\ cur[s] \in TopUps
    BY <2>1, Begun, SessionTypes DEF IInv
  <2>3. UNCHANGED account \/ account' = [account EXCEPT ![cur[s]] = "reversed"]
    BY <1>8, <2>2 DEF RevTradeDone, RevTradeLost, WorldOK
  <2> QED
    BY <2>1, <2>2, <2>3, ReversalPaysBack DEF P!Next
<1>9. ASSUME NEW s \in Sessions, NEW b \in BOOLEAN,
             Settle(s) \/ RevTradeRefused(s) \/ AckFailure(s) \/ Write(s, b)
      PROVE  [P!Next]_(P!vars)
  BY <1>9 DEF Settle, RevTradeRefused, AckFailure, Write
<1>10. ASSUME NEW s \in Sessions, YCT_NormalTrade(s) PROVE [P!Next]_(P!vars)
  BY <1>4, <1>5, <1>6, <1>10 DEF YCT_NormalTrade
<1>11. ASSUME NEW s \in Sessions, AckRevTrade(s) PROVE [P!Next]_(P!vars)
  BY <1>7, <1>8, <1>9, <1>11 DEF AckRevTrade
<1> QED
  BY <1>1, <1>2, <1>3, <1>10, <1>11 DEF Next

(* Four parties, crashes and concurrent sessions together implement         *)
(* Purchase: the amount is loaded only after the debit, the debit is        *)
(* confirmed or reversed and never both, nothing is loaded afterwards.      *)
THEOREM TopUpIsPurchase == Spec => IsPurchase
<1>1. Init => P!Init
  BY DEF Init, P!Init
<1> QED
  BY AlwaysInv, PurchaseStep, <1>1, PTL DEF Spec, IsPurchase, P!Spec

(* What the payment host and the card did to a top-up is final: the money   *)
(* of one that was loaded or confirmed is not touched again, and one that   *)
(* was reversed is neither loaded, confirmed nor debited again.             *)
SettledForGood(t) ==
  /\ t \in told => t \in told' /\ account'[t] = account[t]
  /\ t \in loaded => t \in loaded' /\ account'[t] = account[t]
  /\ account[t] = "reversed" => account'[t] = "reversed" /\ t \notin told' \cup loaded'

(* A step of Purchase undoes no settlement.                                 *)
LEMMA PurchaseSettles ==
  ASSUME IInv, IInv', [P!Next]_(P!vars), NEW t \in TopUps
  PROVE  SettledForGood(t)
<1>1. /\ account \in [TopUps -> {"untouched", "waived", "debited", "reversed"}]
      /\ account[t] = "untouched" => t \notin told /\ t \notin loaded
  BY DEF IInv, TypeInv, TypeOK, Good, Traced
<1>2. /\ account[t] = "reversed" => t \notin told /\ t \notin loaded
      /\ (account[t] = "reversed" => t \notin told /\ t \notin loaded)'
  BY DEF IInv, Good, OneOutcome, NotFailed, NotSucceeded
<1>3. CASE UNCHANGED P!vars
  BY <1>2, <1>3 DEF P!vars, SettledForGood
<1>4. ASSUME NEW p \in TopUps, P!Charge(p) PROVE SettledForGood(t)
  BY <1>1, <1>2, <1>4 DEF P!Charge, SettledForGood
<1>5. ASSUME NEW p \in TopUps, P!HandOver(p) \/ P!Keep(p) PROVE SettledForGood(t)
  BY <1>2, <1>5 DEF P!HandOver, P!Keep, SettledForGood
<1>6. ASSUME NEW p \in TopUps, P!PayBack(p) PROVE SettledForGood(t)
  BY <1>1, <1>2, <1>6 DEF P!PayBack, SettledForGood
<1> QED
  BY <1>3, <1>4, <1>5, <1>6 DEF P!Next

(* No session, however late it comes back to a row and whatever stale copy  *)
(* of it it holds, undoes what was settled with the host or the card.       *)
THEOREM SettlementIsFinal == Spec => [][\A t \in TopUps : SettledForGood(t)]_vars
<1>1. IInv /\ [Next]_vars => [\A t \in TopUps : SettledForGood(t)]_vars
  <2> SUFFICES ASSUME IInv, [Next]_vars, NEW t \in TopUps PROVE SettledForGood(t)
    OBVIOUS
  <2> QED
    BY PurchaseStep, StepInv, PurchaseSettles
<1> QED
  BY AlwaysInv, <1>1, PTL DEF Spec
=============================================================================
