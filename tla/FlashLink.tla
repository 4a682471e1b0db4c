----------------------------- MODULE FlashLink -----------------------------
(***************************************************************************)
(* The confirmed message link from the terminal's threads to the Flash     *)
(* user interface.  TRSHOW numbers a message and puts it on                *)
(* g_QueueToFlash; the MessageToFlash thread takes the messages one by one *)
(* and sends each of them until Flash answers ResponseOK with its serial   *)
(* number, or the attempts are used up.  The queue itself is a sequence    *)
(* here: module MessageQueue shows that CQueue behaves like one.           *)
(***************************************************************************)
EXTENDS Naturals, Sequences, FiniteSets

CONSTANTS Threads,       \* threads that call TRSHOW, TRSHOW2 or CLOSEAPP
          MaxMessages,   \* bound on the number of calls
          MaxSerial,     \* the serial number restarts at 1 beyond it, 99999999
          MaxAttempts,   \* sendings of one message, 10
          MaxPolls,      \* looks at g_FlashSerialDone after one sending, 10
          MayHang        \* whether CallFunction may fail to return

ASSUME FlashAssumption ==
  /\ MaxMessages \in Nat
  /\ MaxSerial \in Nat \ {0}
  /\ MaxAttempts \in Nat \ {0}
  /\ MaxPolls \in Nat \ {0}
  /\ MayHang \in BOOLEAN

Empty == 0               \* the empty string in g_FlashSerialDone
Id == 1 .. MaxMessages   \* identifies a call, for the properties only
Serial == 0 .. MaxSerial
Message == [id : Id, kind : {"tran", "close"}, serial : Serial]
NoMessage == [id |-> 0, kind |-> "tran", serial |-> 0]

VARIABLES
  m_iFlashSerial,
  tpc, mine,             \* per thread: place in TRSHOW, the message it builds
  calls,                 \* number of calls so far
  g_QueueToFlash,
  spc, cur,              \* MessageToFlash: its place, the message it sends
  attempt, polls,        \* i and j of OnCompleteTran
  g_FlashSerialDone,
  inFlash,               \* invocations Flash has received and not handled yet
  acks,                  \* ResponseOK commands Flash issued, not delivered yet
  handled,               \* history: messages Flash handled
  confirmed, gaveUp,     \* history: how OnCompleteTran ended for a message
  refused,               \* history: messages AddTail refused
  used, twins            \* history: serial numbers given out; whether one was given out twice

threadVars == <<m_iFlashSerial, tpc, mine, calls>>
senderVars == <<spc, cur, attempt, polls>>
flashVars  == <<inFlash, acks, handled>>
history    == <<confirmed, gaveUp, refused, used, twins>>
vars == <<threadVars, g_QueueToFlash, senderVars, g_FlashSerialDone, flashVars, history>>

Init ==
  /\ m_iFlashSerial = 0
  /\ tpc = [t \in Threads |-> "idle"]
  /\ mine = [t \in Threads |-> NoMessage]
  /\ calls = 0
  /\ g_QueueToFlash = << >>
  /\ spc = "idle" /\ cur = NoMessage /\ attempt = 0 /\ polls = 0
  /\ g_FlashSerialDone = Empty
  /\ inFlash = << >> /\ acks = << >> /\ handled = {}
  /\ confirmed = {} /\ gaveUp = {} /\ refused = {}
  /\ used = {} /\ twins = FALSE

-----------------------------------------------------------------------------
(* TRSHOW and TRSHOW2.  GetFlashSerial changes the counter and then reads   *)
(* it again, without a lock.                                                *)

NextSerial == IF m_iFlashSerial = MaxSerial THEN 1 ELSE m_iFlashSerial + 1

BumpSerial(t) ==
  /\ tpc[t] = "idle" /\ calls < MaxMessages
  /\ calls' = calls + 1
  /\ m_iFlashSerial' = NextSerial
  /\ mine' = [mine EXCEPT ![t] = [id |-> calls + 1, kind |-> "tran", serial |-> 0]]
  /\ tpc' = [tpc EXCEPT ![t] = "read"]
  /\ UNCHANGED <<g_QueueToFlash, senderVars, g_FlashSerialDone, flashVars, history>>

ReadSerial(t) ==
  /\ tpc[t] = "read"
  /\ mine' = [mine EXCEPT ![t].serial = m_iFlashSerial]
  /\ tpc' = [tpc EXCEPT ![t] = "add"]
  /\ used' = used \cup {m_iFlashSerial}
  /\ twins' = (twins \/ m_iFlashSerial \in used)
  /\ UNCHANGED <<m_iFlashSerial, calls, g_QueueToFlash, senderVars,
                 g_FlashSerialDone, flashVars, confirmed, gaveUp, refused>>

(* AddTail; its result is ignored, so a refused message is gone.            *)
TRSHOW(t) ==
  /\ tpc[t] = "add"
  /\ tpc' = [tpc EXCEPT ![t] = "idle"]
  /\ \/ /\ g_QueueToFlash' = Append(g_QueueToFlash, mine[t])
        /\ UNCHANGED refused
     \/ /\ refused' = refused \cup {mine[t].id}
        /\ UNCHANGED g_QueueToFlash
  /\ UNCHANGED <<m_iFlashSerial, mine, calls, senderVars, g_FlashSerialDone,
                 flashVars, confirmed, gaveUp, used, twins>>

(* CLOSEAPP: the command to leave the application takes the same queue, and *)
(* is gone like the others when AddTail refuses it.                         *)
CLOSEAPP(t) ==
  /\ tpc[t] = "idle" /\ calls < MaxMessages
  /\ calls' = calls + 1
  /\ \/ /\ g_QueueToFlash' =
             Append(g_QueueToFlash, [id |-> calls + 1, kind |-> "close", serial |-> 0])
        /\ UNCHANGED refused
     \/ /\ refused' = refused \cup {calls + 1}
        /\ UNCHANGED g_QueueToFlash
  /\ UNCHANGED <<m_iFlashSerial, tpc, mine, senderVars, g_FlashSerialDone,
                 flashVars, confirmed, gaveUp, used, twins>>

-----------------------------------------------------------------------------
(* The MessageToFlash thread.                                               *)

(* GetHead, and OnCompleteTran's choice between its two branches.           *)
GetHead ==
  /\ spc = "idle" /\ g_QueueToFlash # << >>
  /\ g_QueueToFlash' = Tail(g_QueueToFlash)
  /\ cur' = Head(g_QueueToFlash)
  /\ attempt' = 0 /\ polls' = 0
  /\ spc' = IF cur'.kind = "close" THEN "close" ELSE "call"
  /\ UNCHANGED <<threadVars, g_FlashSerialDone, flashVars, history>>

(* The branch for CloseApp, which is not for Flash: CDialog::OnOK ends the  *)
(* application.                                                             *)
CloseApp ==
  /\ spc = "close"
  /\ spc' = "closed"
  /\ UNCHANGED <<threadVars, g_QueueToFlash, cur, attempt, polls, g_FlashSerialDone,
                 flashVars, history>>

(* m_flash.CallFunction returns, throws before or after Flash got the       *)
(* message, or never returns.                                               *)
CallFunction ==
  /\ spc = "call"
  /\ \/ inFlash' = Append(inFlash, cur) \/ UNCHANGED inFlash
  /\ \/ spc' = "poll"
     \/ MayHang /\ spc' = "hung"
  /\ polls' = 0
  /\ UNCHANGED <<threadVars, g_QueueToFlash, cur, attempt, g_FlashSerialDone,
                 acks, handled, history>>

Matches_AnyAnswer == g_FlashSerialDone # Empty

Matches == cur.serial = g_FlashSerialDone

(* One turn of the inner loop, up to the comparison.                        *)
Poll ==
  /\ spc = "poll" /\ polls < MaxPolls
  /\ polls' = polls + 1
  /\ spc' = IF Matches THEN "clear" ELSE "poll"
  /\ UNCHANGED <<threadVars, g_QueueToFlash, cur, attempt, g_FlashSerialDone,
                 flashVars, history>>

(* g_FlashSerialDone.Empty(): an answer that arrived since is lost with it. *)
ClearDone ==
  /\ spc = "clear"
  /\ g_FlashSerialDone' = Empty
  /\ confirmed' = confirmed \cup {cur.id}
  /\ spc' = "idle"
  /\ UNCHANGED <<threadVars, g_QueueToFlash, cur, attempt, polls, flashVars,
                 gaveUp, refused, used, twins>>

NoAnswer_Uncounted ==
  /\ spc = "poll" /\ polls = MaxPolls
  /\ spc' = "call"
  /\ UNCHANGED <<threadVars, g_QueueToFlash, cur, attempt, polls,
                 g_FlashSerialDone, flashVars, history>>

NoAnswer_OnceMore ==
  /\ spc = "poll" /\ polls = MaxPolls
  /\ attempt' = attempt + 1
  /\ \/ /\ attempt' <= MaxAttempts
        /\ spc' = "call"
        /\ UNCHANGED gaveUp
     \/ /\ attempt' > MaxAttempts
        /\ spc' = "idle"
        /\ gaveUp' = gaveUp \cup {cur.id}
  /\ UNCHANGED <<threadVars, g_QueueToFlash, cur, polls, g_FlashSerialDone,
                 flashVars, confirmed, refused, used, twins>>

(* No answer in the inner loop: send again, or leave the outer loop.        *)
NoAnswer ==
  /\ spc = "poll" /\ polls = MaxPolls
  /\ attempt' = attempt + 1
  /\ \/ /\ attempt' < MaxAttempts
        /\ spc' = "call"
        /\ UNCHANGED gaveUp
     \/ /\ attempt' >= MaxAttempts
        /\ spc' = "idle"
        /\ gaveUp' = gaveUp \cup {cur.id}
  /\ UNCHANGED <<threadVars, g_QueueToFlash, cur, polls, g_FlashSerialDone,
                 flashVars, confirmed, refused, used, twins>>

-----------------------------------------------------------------------------
(* The Flash movie (external): it handles the invocations in order and      *)
(* answers each with ResponseOK and the serial number.                      *)
FlashHandles ==
  /\ inFlash # << >>
  /\ inFlash' = Tail(inFlash)
  /\ handled' = handled \cup {Head(inFlash).id}
  /\ acks' = Append(acks, Head(inFlash).serial)
  /\ UNCHANGED <<threadVars, g_QueueToFlash, senderVars, g_FlashSerialDone, history>>

(* The ResponseOK branch of OnFSCommandShockwaveflash1.                     *)
ResponseOK ==
  /\ acks # << >>
  /\ acks' = Tail(acks)
  /\ g_FlashSerialDone' = Head(acks)
  /\ UNCHANGED <<threadVars, g_QueueToFlash, senderVars, inFlash, handled, history>>

-----------------------------------------------------------------------------
ThreadStep(t) == ReadSerial(t) \/ TRSHOW(t)
SenderStep == GetHead \/ CloseApp \/ CallFunction \/ Poll \/ ClearDone \/ NoAnswer

(* Closing the application ends every thread; a hung CallFunction or the    *)
(* end of the calls leaves nothing to do for good.                          *)
Stopped ==
  /\ \/ spc = "closed"
     \/ calls = MaxMessages /\ spc \in {"idle", "hung"}
  /\ UNCHANGED vars

Next ==
  \/ /\ spc # "closed"
     /\ \/ SenderStep \/ FlashHandles \/ ResponseOK
        \/ \E t \in Threads : BumpSerial(t) \/ ThreadStep(t) \/ CLOSEAPP(t)
  \/ Stopped

Spec == Init /\ [][Next]_vars

(* The threads run.  Nothing is assumed of Flash: it may never answer.      *)
FairSpec ==
  /\ Spec
  /\ WF_vars(spc # "closed" /\ SenderStep)
  /\ \A t \in Threads : WF_vars(spc # "closed" /\ ThreadStep(t))

-----------------------------------------------------------------------------
TypeOK ==
  /\ m_iFlashSerial \in Serial
  /\ tpc \in [Threads -> {"idle", "read", "add"}]
  /\ mine \in [Threads -> Message \cup {NoMessage}]
  /\ calls \in 0 .. MaxMessages
  /\ g_QueueToFlash \in Seq(Message)
  /\ spc \in {"idle", "call", "poll", "clear", "hung", "close", "closed"}
  /\ cur \in Message \cup {NoMessage}
  /\ attempt \in 0 .. MaxAttempts /\ polls \in 0 .. MaxPolls
  /\ g_FlashSerialDone \in Serial
  /\ inFlash \in Seq(Message) /\ acks \in Seq(Serial)
  /\ handled \subseteq Id /\ confirmed \subseteq Id
  /\ gaveUp \subseteq Id /\ refused \subseteq Id
  /\ used \subseteq Serial /\ twins \in BOOLEAN

(* OnCompleteTran goes on to the next message "when the confirmation has    *)
(* been received" (change log, 1.0.0.7 item 5): a message it takes for      *)
(* confirmed was handled by Flash, unless GetFlashSerial gave two messages  *)
(* one number.                                                              *)
ConfirmedWasHandled == twins \/ confirmed \subseteq handled

(* Unless CallFunction does not return, every message that TRSHOW started   *)
(* to build is confirmed, given up after the attempts, refused by the       *)
(* queue, or overtaken by the end of the application.                       *)
EveryMessageEnds ==
  \A i \in Id : (calls >= i) ~>
    (i \in confirmed \cup gaveUp \cup refused \/ spc \in {"closed", "hung"})
=============================================================================
