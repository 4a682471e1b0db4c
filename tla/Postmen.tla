------------------------------ MODULE Postmen ------------------------------
(***************************************************************************)
(* Postmen and overdue parcels.  A log-in, by password or by telephone,     *)
(* asks the host which boxes of the postman are overdue; the answer is kept *)
(* three times: as flags of CBox, as a comma-separated list of box numbers  *)
(* in the postman's row, and as Flag='2' of the parcels' rows.  A take-out  *)
(* removes the box from the lists of all postmen as a substring of the      *)
(* text.  At night the monitor thread asks for every stored postman.        *)
(***************************************************************************)
EXTENDS Integers, SequencesExt

CONSTANTS Ids,             \* postmen
          NoId,            \* m_PostLoginID is empty
          BoxCountTotal,   \* boxes are numbered from 1
          BoxName,         \* the number that a box's name reads as; other names are 0
          DepositBoxes,    \* the boxes that parcels are put into
          Mails,           \* bar codes
          NoMail,          \* a box without a parcel in the Package table
          Answers,         \* the host's lists of overdue parcels: sequences of [box, mail]
          Grants,          \* the sets of boxes that the host may open to a postman
          Settings         \* [offLine, onLineToo]: m_iIsLoginInOffLine,
                           \* m_iLoginInOnLineWhileOffLineFail

Box == 1 .. BoxCountTotal

ASSUME PostmenAssumption ==
  /\ NoId \notin Ids /\ NoMail \notin Mails
  /\ BoxCountTotal \in 1 .. 999
  /\ BoxName \in [Box -> Nat]
  /\ DepositBoxes \subseteq Box
  /\ Grants \subseteq SUBSET Box
  /\ Settings \subseteq [offLine : BOOLEAN, onLineToo : BOOLEAN]

ASSUME AnswersAssumption == Answers \subseteq Seq([box : Nat, mail : Mails])

VARIABLES
  setting,               \* the configuration, read at the start
  rows,                  \* the postmen in the postman table
  timeoutBox,            \* HostTimeoutBox: the numbers in the text, in order
  availableBox,          \* HostAvailableBox
  package,               \* the Package table: the parcel in each box
  flag2,                 \* boxes whose rows of it have Flag='2'
  queued,                \* the BoxNo fields of the TransQueue table
  hostTimeout, localPackage, hide,  \* CBox: boxes with the flag set
  m_PostLoginID,
  screen,                \* the Flash movie
  todo,                  \* the postmen the download has not asked for yet
  reported,              \* history: parcels in the boxes that the host called overdue
  disturbed,             \* history: a list could not be updated, or held a number that ends
                         \* with the digits of the box removed
  unsure                 \* history: this log-in by telephone got no list of overdue boxes

table == <<rows, timeoutBox, availableBox>>
parcels == <<package, flag2, queued>>
flags == <<hostTimeout, localPackage, hide>>
history == <<reported, disturbed, unsure>>
vars == <<setting, table, parcels, flags, m_PostLoginID, screen, todo, history>>

Full == {b \in Box : package[b] # NoMail}

Init ==
  /\ setting \in Settings
  /\ rows = {} /\ timeoutBox = [p \in Ids |-> << >>] /\ availableBox = [p \in Ids |-> {}]
  /\ package = [b \in Box |-> NoMail] /\ flag2 = {} /\ queued = {}
  /\ hostTimeout = {} /\ localPackage = {} /\ hide = {}
  /\ m_PostLoginID = NoId /\ screen = "idle" /\ todo = {}
  /\ reported = {} /\ disturbed = FALSE /\ unsure = FALSE

-----------------------------------------------------------------------------
(* The list as text.                                                        *)

MaxDigits == 9                                   \* of the numbers that can run together
Digits(n) ==
  CHOOSE k \in 1 .. MaxDigits : (n < 10^k \/ k = MaxDigits) /\ (n >= 10^(k - 1) \/ k = 1)
Shift(n) == 10^Digits(n)
EndsWith(n, b) == n % Shift(b) = b               \* the digits of b end those of n
Append10(c, n) == c * Shift(n) + n               \* the digits of c, then those of n

(* Replace("b,", "") on the text "n1,n2,...,nk,".  A match ends at a comma, *)
(* so it takes the last digits of a number together with its comma, and     *)
(* what is left of that number runs into the next one.                      *)
Removed_KeepsLast(list, b) ==
  IF list = << >> THEN list
  ELSE Append(SelectSeq(Front(list), LAMBDA n : n # b), Last(list))

Removed(list, b) ==
  LET Take(acc, n) ==
        IF EndsWith(n, b)
        THEN [acc EXCEPT !.carry = IF n = b THEN @ ELSE Append10(@, n \div Shift(b))]
        ELSE [done |-> Append(acc.done, Append10(acc.carry, n)), carry |-> 0]
      text[i \in 0 .. Len(list)] ==
        IF i = 0 THEN [done |-> << >>, carry |-> 0] ELSE Take(text[i - 1], list[i])
      end == text[Len(list)]
  IN  IF end.carry = 0 THEN end.done ELSE Append(end.done, end.carry)

(* UpdateTimeoutBoxToPostman: every postman's list; the result of the       *)
(* UPDATE statements is only logged.                                        *)
Clash(b) == \E p \in rows : \E n \in Range(timeoutBox[p]) : n # b /\ EndsWith(n, b)

UpdateTimeoutBoxToPostman(b) ==
  \/ /\ timeoutBox' = [p \in Ids |-> Removed(timeoutBox[p], b)]
     /\ disturbed' = (disturbed \/ Clash(b))
  \/ /\ \E p \in rows : b \in Range(timeoutBox[p])
     /\ disturbed' = TRUE
     /\ UNCHANGED timeoutBox

-----------------------------------------------------------------------------
(* Log-in.                                                                  *)

DeletePostman(p) ==
  /\ rows' = rows \ {p}
  /\ timeoutBox' = [timeoutBox EXCEPT ![p] = << >>]
  /\ availableBox' = [availableBox EXCEPT ![p] = {}]

(* The INSERT fails when the row is there, and the old row stays.           *)
SavePostman_Omitted(p) == UNCHANGED rows

SavePostman(p) == rows' = rows \cup {p}

(* GZYZGetExpiredItemsResponse: what the Package table does not confirm is  *)
(* left out.                                                                *)
Confirmed_BoxOnly(a) == a.box \in Full

Confirmed(a) == a.box \in Full /\ package[a.box] = a.mail

Expired(answer) ==
  LET known[i \in 0 .. Len(answer)] ==
        IF i = 0 THEN << >>
        ELSE IF Confirmed(answer[i]) THEN Append(known[i - 1], answer[i].box) ELSE known[i - 1]
  IN  known[Len(answer)]

(* SaveTimeoutPackageToDB: the parcels whose boxes carry the flag become    *)
(* overdue, unless the TransQueue table still holds something of the box.   *)
(* The table has the names of boxes and is asked for their numbers.         *)
SaveTimeoutPackageToDB(flagged) ==
  flag2' = flag2 \cup ((flagged \cap localPackage \cap Full) \ queued)

StillFlagged(flagged) == flagged \ (localPackage \cap queued)

(* Transaction 600006 for postman p and what is saved of its answer.        *)
Answered(p, answer) ==
  /\ timeoutBox' = [timeoutBox EXCEPT ![p] = Expired(answer)]
  /\ SaveTimeoutPackageToDB(Range(Expired(answer)))
  /\ reported' = reported \cup {<<a.box, a.mail>> : a \in {c \in Range(answer) : Confirmed(c)}}

Unanswered ==
  /\ SaveTimeoutPackageToDB(hostTimeout)
  /\ UNCHANGED <<timeoutBox, reported>>

(* LoadTimeoutBoxFromPostman and LoadAvailableBoxFromPostman.               *)
LoadTimeoutBoxFromPostman_Added(p) == hostTimeout' = hostTimeout \cup Range(timeoutBox'[p])

LoadTimeoutBoxFromPostman(p) == hostTimeout' = Range(timeoutBox'[p])

LoadAvailableBoxFromPostman(p) == hide' = Box \ (availableBox'[p] \cup Range(timeoutBox'[p]))

LoggedIn(p) ==
  /\ LoadTimeoutBoxFromPostman(p) /\ LoadAvailableBoxFromPostman(p)
  /\ m_PostLoginID' = p /\ screen' = "postman" /\ unsure' = FALSE
  /\ UNCHANGED <<setting, package, queued, localPackage, todo, disturbed>>

(* PostmanLoginState, with the password in the table.                       *)
LoginOffLine(p) ==
  /\ screen = "idle" /\ setting.offLine /\ p \in rows
  /\ UNCHANGED <<table, flag2, reported>>
  /\ LoggedIn(p)

(* Without the table, or after a wrong or unknown password when the host    *)
(* may be asked then; the old row has been deleted in that case.            *)
AsksHost == ~setting.offLine \/ setting.onLineToo

LoginOnLine(p, grant, answer) ==
  /\ screen = "idle" /\ AsksHost
  /\ SavePostman(p)
  /\ availableBox' = [availableBox EXCEPT ![p] = grant]
  /\ Answered(p, answer)
  /\ LoggedIn(p)

LoginNoList(p, grant) ==
  /\ screen = "idle" /\ AsksHost
  /\ SavePostman(p)
  /\ availableBox' = [availableBox EXCEPT ![p] = grant]
  /\ SaveTimeoutPackageToDB(hostTimeout)
  /\ timeoutBox' = IF setting.offLine THEN [timeoutBox EXCEPT ![p] = << >>] ELSE timeoutBox
  /\ LoggedIn(p)
  /\ UNCHANGED reported

LoginRefused(p) ==
  /\ screen = "idle" /\ AsksHost
  /\ IF setting.offLine THEN DeletePostman(p) ELSE UNCHANGED table
  /\ UNCHANGED <<setting, parcels, flags, m_PostLoginID, screen, todo, history>>

(* PostmanPhoneLogin: the host answers with the postman's number and sends  *)
(* a code to the telephone.                                                 *)
PostmanPhoneLogin(p) ==
  /\ screen = "idle"
  /\ SavePostman(p)
  /\ m_PostLoginID' = p /\ screen' = "code"
  /\ UNCHANGED <<setting, timeoutBox, availableBox, parcels, flags, todo, history>>

(* PhoneLoginVerificationCodeState.  The flags are neither cleared nor      *)
(* loaded: they are what the answer, or its absence, left.                  *)
PhoneLogin(p, grant) ==
  /\ screen = "code" /\ p = m_PostLoginID
  /\ SavePostman(p)
  /\ availableBox' = [availableBox EXCEPT ![p] = grant]
  /\ LoadAvailableBoxFromPostman(p)
  /\ screen' = "postman"
  /\ UNCHANGED <<setting, package, queued, localPackage, m_PostLoginID, todo, disturbed>>

PhoneLoginAnswered(p, grant, answer) ==
  /\ Answered(p, answer) /\ PhoneLogin(p, grant)
  /\ hostTimeout' = StillFlagged(Range(Expired(answer)))
  /\ unsure' = FALSE

PhoneLoginNoList(p, grant) ==
  /\ Unanswered /\ PhoneLogin(p, grant)
  /\ hostTimeout' = StillFlagged(hostTimeout)
  /\ unsure' = TRUE

(* ExecFunc_Idle.                                                           *)
Idle ==
  /\ screen \in {"code", "postman"}
  /\ screen' = "idle" /\ m_PostLoginID' = NoId /\ hide' = {} /\ unsure' = FALSE
  /\ UNCHANGED <<setting, table, parcels, hostTimeout, localPackage, todo, reported, disturbed>>

-----------------------------------------------------------------------------
(* Parcels.                                                                 *)

(* ConfirmDepositState, accepted; the host is told at once or later.        *)
Deposit(b, m, later) ==
  /\ screen = "postman" /\ b \notin hide /\ package[b] = NoMail
  /\ \A c \in Box : package[c] # m
  /\ package' = [package EXCEPT ![b] = m]
  /\ flag2' = flag2 \ {b}
  /\ queued' = IF later THEN queued \cup {BoxName[b]} ELSE queued
  /\ localPackage' = localPackage \cup {b} /\ hostTimeout' = hostTimeout \ {b}
  /\ UNCHANGED <<setting, table, hide, m_PostLoginID, screen, todo, history>>

(* OpenDoorByIDState of a take: by the customer, or by the postman when the *)
(* box is offered as overdue.  The statements of UpdateDataToDB may fail.   *)
Offered(b) == b \in (hostTimeout \cap localPackage) \ hide

DoorOpens(b) ==
  /\ b \in Full /\ (screen = "idle" \/ (screen = "postman" /\ Offered(b)))
  /\ localPackage' = localPackage \ {b} /\ hostTimeout' = hostTimeout \ {b}
  /\ UpdateTimeoutBoxToPostman(b)
  /\ UNCHANGED <<setting, rows, availableBox, m_PostLoginID, screen, todo, unsure>>

TakeOut(b, later) ==
  /\ DoorOpens(b)
  /\ package' = [package EXCEPT ![b] = NoMail]
  /\ flag2' = flag2 \ {b} /\ reported' = reported \ {<<b, package[b]>>}
  /\ queued' = IF later THEN queued \cup {BoxName[b]} ELSE queued
  /\ UNCHANGED hide

TakeNotRecorded(b, later) ==
  /\ DoorOpens(b)
  /\ hide' = hide \cup {b} /\ queued' = IF later THEN queued \cup {BoxName[b]} ELSE queued
  /\ UNCHANGED <<package, flag2, reported>>

(* OPENDOOR_MODE_ONCE while recycling, and the door still does not open.    *)
RecycleFails(b) ==
  /\ screen = "postman" /\ Offered(b)
  /\ hostTimeout' = hostTimeout \ {b}
  /\ UNCHANGED <<setting, table, parcels, localPackage, hide, m_PostLoginID, screen, todo, history>>

UpdateLocalPackageStatus ==
  /\ localPackage # Full
  /\ localPackage' = Full
  /\ UNCHANGED <<setting, table, parcels, hostTimeout, hide, m_PostLoginID, screen, todo, history>>

(* TransactionQueue has sent what it held of the box.                       *)
TransactionQueue(b) ==
  /\ screen = "idle" /\ BoxName[b] \in queued
  /\ queued' = queued \ {BoxName[b]}
  /\ UNCHANGED <<setting, table, package, flag2, flags, m_PostLoginID, screen, todo, history>>

-----------------------------------------------------------------------------
(* NetworkMonitor: the download for off-line log-ins.  Transaction returns  *)
(* no positive number, so that a refused account is not deleted.            *)
StartDownload ==
  /\ screen = "idle" /\ setting.offLine /\ rows # {}
  /\ screen' = "pause" /\ todo' = rows
  /\ UNCHANGED <<setting, table, parcels, flags, m_PostLoginID, history>>

Download(p) ==
  /\ screen = "pause" /\ p \in todo
  /\ todo' = todo \ {p} /\ m_PostLoginID' = p
  /\ \/ \E grant \in Grants : availableBox' = [availableBox EXCEPT ![p] = grant]
     \/ UNCHANGED availableBox
  /\ UNCHANGED <<setting, rows, package, queued, localPackage, hide, screen, disturbed, unsure>>

DownloadAnswered(p, answer) ==
  /\ Answered(p, answer) /\ Download(p)
  /\ hostTimeout' = StillFlagged(Range(Expired(answer)))

DownloadNoList(p) ==
  /\ Download(p)
  /\ hostTimeout' = {}
  /\ UNCHANGED <<timeoutBox, flag2, reported>>

EndDownload ==
  /\ screen = "pause" /\ todo = {}
  /\ m_PostLoginID' = NoId /\ screen' = "idle"
  /\ UNCHANGED <<setting, table, parcels, flags, todo, history>>

(* The program starts again: the tables stay, CBox is new.                  *)
Restart ==
  /\ hostTimeout' = {} /\ localPackage' = Full /\ hide' = {}
  /\ m_PostLoginID' = NoId /\ screen' = "idle" /\ todo' = {} /\ unsure' = FALSE
  /\ UNCHANGED <<setting, table, parcels, reported, disturbed>>

-----------------------------------------------------------------------------
Login(p) ==
  \/ LoginOffLine(p) \/ LoginRefused(p) \/ PostmanPhoneLogin(p)
  \/ \E grant \in Grants :
       \/ LoginNoList(p, grant) \/ PhoneLoginNoList(p, grant)
       \/ \E answer \in Answers :
            LoginOnLine(p, grant, answer) \/ PhoneLoginAnswered(p, grant, answer)

Parcel(b) ==
  \/ \E m \in Mails, later \in BOOLEAN : Deposit(b, m, later)
  \/ \E later \in BOOLEAN : TakeOut(b, later) \/ TakeNotRecorded(b, later)
  \/ RecycleFails(b) \/ TransactionQueue(b)

Monitor ==
  \/ StartDownload \/ EndDownload
  \/ \E p \in Ids : \/ DownloadNoList(p)
                   \/ \E answer \in Answers : DownloadAnswered(p, answer)

Next ==
  \/ \E p \in Ids : Login(p)
  \/ \E b \in DepositBoxes : Parcel(b)
  \/ Idle \/ UpdateLocalPackageStatus \/ Monitor \/ Restart

Spec == Init /\ [][Next]_vars

-----------------------------------------------------------------------------
(* The variables stay in their ranges, and whoever is logged in has a row,  *)
(* since the lists are stored by UPDATE statements.                         *)
TypeOK ==
  /\ setting \in Settings
  /\ rows \subseteq Ids
  /\ timeoutBox \in [Ids -> Seq(Nat)] /\ availableBox \in [Ids -> SUBSET Box]
  /\ package \in [Box -> Mails \cup {NoMail}]
  /\ {flag2, localPackage, hide} \subseteq SUBSET Box /\ {queued, hostTimeout} \subseteq SUBSET Nat
  /\ m_PostLoginID \in Ids \cup {NoId}
  /\ screen \in {"idle", "code", "postman", "pause"}
  /\ screen \in {"code", "postman"} => m_PostLoginID \in rows
  /\ todo \subseteq rows
  /\ reported \subseteq Box \X Mails /\ {disturbed, unsure} \subseteq BOOLEAN

(* A parcel that is marked overdue, shown as overdue or listed as overdue   *)
(* is one that the host has called overdue, not a later one in its box.     *)
OverdueWasReported ==
  disturbed \/
  \A b \in Full :
    b \in flag2 \cup hostTimeout \cup UNION {Range(timeoutBox[p]) : p \in rows}
      => <<b, package[b]>> \in reported

(* A postman is offered only overdue boxes of his own list; what an earlier *)
(* postman left in the flags of CBox does not show.                         *)
OwnOverdueOnly ==
  screen = "postman" /\ ~disturbed /\ ~unsure
    => hostTimeout \ hide \subseteq Range(timeoutBox[m_PostLoginID])

(* Taking a parcel out removes its box, and nothing else, from every list,  *)
(* unless an UPDATE failed or a list held a longer number with this ending. *)
Without(list, b) ==
  LET kept[i \in 0 .. Len(list)] ==
        IF i = 0 THEN << >>
        ELSE IF list[i] = b THEN kept[i - 1] ELSE Append(kept[i - 1], list[i])
  IN  kept[Len(list)]

RemovalExact ==
  [][\A b \in Full :
       package'[b] = NoMail /\ ~disturbed' =>
         \A p \in rows : timeoutBox'[p] = Without(timeoutBox[p], b)]_vars
=============================================================================
