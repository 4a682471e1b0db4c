--------------------------- MODULE FlashLinkProofs ---------------------------
(***************************************************************************)
(* Proofs about FlashLink, for any threads, any number of messages and any  *)
(* limits on the attempts: the types, that a message OnCompleteTran takes   *)
(* for confirmed was handled by Flash, and that no call of TRSHOW is lost   *)
(* or ends twice.                                                           *)
(*                                                                         *)
(* The confirmation compares serial numbers only, and an answer may arrive  *)
(* long after the message it answers was given up.  So the invariant must   *)
(* speak of every number that is still under way, in the queue, at the      *)
(* sender, inside Flash or in an answer, and say that one number stands for *)
(* one message.                                                             *)
(***************************************************************************)
EXTENDS FlashLink, TLAPS

Sending == {"call", "poll", "clear", "hung"}   \* MessageToFlash is at a message

(* What the places of the threads say of their messages.                    *)
PlaceInv ==
  /\ \A t \in Threads : tpc[t] = "read" => m_iFlashSerial # 0
  /\ \A t \in Threads : tpc[t] # "idle" => mine[t] \in Message
  /\ spc \in Sending => cur \in Message
  /\ spc \in {"call", "poll"} => attempt < MaxAttempts
TypeInv == TypeOK /\ PlaceInv

(* The numbered messages that Flash may still have to answer, or that       *)
(* OnCompleteTran may still compare with an answer.                         *)
Live(m) ==
  \/ \E t \in Threads : tpc[t] = "add" /\ m = mine[t]
  \/ m.kind = "tran" /\ \E i \in 1 .. Len(g_QueueToFlash) : m = g_QueueToFlash[i]
  \/ spc \in Sending /\ m = cur
  \/ \E i \in 1 .. Len(inFlash) : m = inFlash[i]

(* The answers that are under way or have arrived.                          *)
Answer(s) == s # Empty /\ (s = g_FlashSerialDone \/ \E i \in 1 .. Len(acks) : s = acks[i])

(* A live message has a number, and no other message has the same one.      *)
NumberInv ==
  /\ \A m \in Message : Live(m) => m.serial \in used /\ m.serial # 0
  /\ \A m, n \in Message : Live(m) /\ Live(n) /\ m.serial = n.serial => m.id = n.id

(* Whatever carries the number of an answer has been handled.               *)
AnswerInv ==
  \A s \in Serial : Answer(s) =>
    s \in used /\ \A m \in Message : Live(m) /\ m.serial = s => m.id \in handled

ConfirmInv == (spc = "clear" => cur.id \in handled) /\ confirmed \subseteq handled

(* All of this as long as GetFlashSerial gave out no number twice.          *)
LinkInv == twins \/ (NumberInv /\ AnswerInv /\ ConfirmInv)
IInv == TypeInv /\ LinkInv
-----------------------------------------------------------------------------
(* The types, one by one.                                                   *)
ThreadOK ==
  /\ m_iFlashSerial \in Serial /\ calls \in 0 .. MaxMessages
  /\ tpc \in [Threads -> {"idle", "read", "add"}]
  /\ mine \in [Threads -> Message \cup {NoMessage}]
SenderOK ==
  /\ spc \in {"idle", "call", "poll", "clear", "hung", "close", "closed"}
  /\ cur \in Message \cup {NoMessage}
  /\ attempt \in 0 .. MaxAttempts /\ polls \in 0 .. MaxPolls
QueuesOK ==
  /\ g_QueueToFlash \in Seq(Message) /\ g_FlashSerialDone \in Serial
  /\ inFlash \in Seq(Message) /\ acks \in Seq(Serial)
HistoryOK ==
  /\ handled \subseteq Id /\ confirmed \subseteq Id
  /\ gaveUp \subseteq Id /\ refused \subseteq Id
  /\ used \subseteq Serial /\ twins \in BOOLEAN

(* TypeOK, in these parts.                                                  *)
LEMMA TypeParts ==
  /\ TypeInv <=> ThreadOK /\ SenderOK /\ QueuesOK /\ HistoryOK /\ PlaceInv
  /\ TypeInv' <=> ThreadOK' /\ SenderOK' /\ QueuesOK' /\ HistoryOK' /\ PlaceInv'
  BY DEF TypeInv, TypeOK, ThreadOK, SenderOK, QueuesOK, HistoryOK

(* The elements of a queue after AddTail and after GetHead.                 *)
LEMMA AppendElements ==
  ASSUME NEW S, NEW q \in Seq(S), NEW e \in S,
         NEW i \in 1 .. Len(Append(q, e))
  PROVE  Append(q, e)[i] = e \/ \E j \in 1 .. Len(q) : Append(q, e)[i] = q[j]
  OBVIOUS

LEMMA TailElements ==
  ASSUME NEW S, NEW q \in Seq(S), q # << >>, NEW i \in 1 .. Len(Tail(q))
  PROVE  \E j \in 1 .. Len(q) : Tail(q)[i] = q[j]
<1>1. i + 1 \in 1 .. Len(q) /\ Tail(q)[i] = q[i + 1]
  OBVIOUS
<1> QED
  BY <1>1

LEMMA HeadElement ==
  ASSUME NEW S, NEW q \in Seq(S), q # << >>
  PROVE  /\ Head(q) \in S /\ Tail(q) \in Seq(S)
         /\ 1 \in 1 .. Len(q) /\ Head(q) = q[1]
  OBVIOUS

LEMMA AppendMessage ==
  ASSUME NEW q \in Seq(Message), NEW e \in Message
  PROVE  Append(q, e) \in Seq(Message)
  OBVIOUS

(* The message of CLOSEAPP.                                                 *)
LEMMA CloseMessage ==
  ASSUME TypeInv, NEW t \in Threads, CLOSEAPP(t)
  PROVE  LET c == [id |-> calls + 1, kind |-> "close", serial |-> 0]
         IN  c \in Message /\ c.kind # "tran"
<1>1. calls + 1 \in Id
  <2>1. calls \in 0 .. MaxMessages /\ calls < MaxMessages
    BY TypeParts DEF ThreadOK, CLOSEAPP
  <2> QED
    BY <2>1, FlashAssumption DEF Id
<1>2. 0 \in Serial
  BY FlashAssumption DEF Serial
<1> QED
  BY <1>1, <1>2 DEF Message

(* TRSHOW and CLOSEAPP number messages within the bounds.                   *)
LEMMA ThreadOKStep ==
  ASSUME TypeInv, [Next]_vars
  PROVE  ThreadOK'
<1> USE TypeParts, FlashAssumption DEF ThreadOK, Serial, Id, Message, NoMessage, threadVars,
   senderVars, flashVars, history
<1>1. ASSUME NEW t \in Threads, BumpSerial(t) PROVE ThreadOK'
  BY <1>1 DEF BumpSerial, NextSerial
<1>2. ASSUME NEW t \in Threads, ReadSerial(t) PROVE ThreadOK'
  <2>1. mine[t] \in Message
    BY <1>2 DEF ReadSerial, PlaceInv
  <2>2. [mine[t] EXCEPT !.serial = m_iFlashSerial] \in Message
    BY <2>1 DEF Message, Serial
  <2>3. mine' = [mine EXCEPT ![t] = [mine[t] EXCEPT !.serial = m_iFlashSerial]]
    BY <1>2 DEF ReadSerial
  <2>4. mine' \in [Threads -> Message \cup {NoMessage}]
    BY <2>2, <2>3
  <2> QED
    BY <1>2, <2>4 DEF ReadSerial
<1>3. ASSUME NEW t \in Threads, TRSHOW(t) PROVE ThreadOK'
  BY <1>3 DEF TRSHOW
<1>4. ASSUME NEW t \in Threads, CLOSEAPP(t) PROVE ThreadOK'
  BY <1>4 DEF CLOSEAPP
<1>5. CASE GetHead
  BY <1>5 DEF GetHead
<1>6. CASE CallFunction
  BY <1>6 DEF CallFunction
<1>7. CASE Poll
  BY <1>7 DEF Poll
<1>8. CASE ClearDone
  BY <1>8 DEF ClearDone
<1>9. CASE NoAnswer
  BY <1>9 DEF NoAnswer
<1>10. CASE FlashHandles
  BY <1>10 DEF FlashHandles
<1>11. CASE ResponseOK
  BY <1>11 DEF ResponseOK
<1>12. CASE UNCHANGED vars
  BY <1>12 DEF vars
<1>13. CASE CloseApp
  BY <1>13 DEF CloseApp
<1> QED
  BY <1>1, <1>2, <1>3, <1>4, <1>5, <1>6, <1>7, <1>8, <1>9, <1>10, <1>11, <1>12, <1>13 DEF Next,
     SenderStep, ThreadStep, Stopped

(* OnCompleteTran stays within its attempts.                                *)
LEMMA SenderOKStep ==
  ASSUME TypeInv, [Next]_vars
  PROVE  SenderOK'
<1> USE TypeParts, FlashAssumption DEF SenderOK, QueuesOK, threadVars, senderVars, flashVars,
   history
<1>1. ASSUME NEW t \in Threads, BumpSerial(t) PROVE SenderOK'
  BY <1>1 DEF BumpSerial
<1>2. ASSUME NEW t \in Threads, ReadSerial(t) PROVE SenderOK'
  BY <1>2 DEF ReadSerial
<1>3. ASSUME NEW t \in Threads, TRSHOW(t) PROVE SenderOK'
  BY <1>3 DEF TRSHOW
<1>4. ASSUME NEW t \in Threads, CLOSEAPP(t) PROVE SenderOK'
  BY <1>4 DEF CLOSEAPP
<1>5. CASE GetHead
  BY <1>5 DEF GetHead
<1>6. CASE CallFunction
  BY <1>6 DEF CallFunction
<1>7. CASE Poll
  BY <1>7 DEF Poll
<1>8. CASE ClearDone
  BY <1>8 DEF ClearDone
<1>9. CASE NoAnswer
  BY <1>9 DEF NoAnswer, PlaceInv
<1>10. CASE FlashHandles
  BY <1>10 DEF FlashHandles
<1>11. CASE ResponseOK
  BY <1>11 DEF ResponseOK
<1>12. CASE UNCHANGED vars
  BY <1>12 DEF vars
<1>13. CASE CloseApp
  BY <1>13 DEF CloseApp
<1> QED
  BY <1>1, <1>2, <1>3, <1>4, <1>5, <1>6, <1>7, <1>8, <1>9, <1>10, <1>11, <1>12, <1>13 DEF Next,
     SenderStep, ThreadStep, Stopped

(* The queues hold messages and serial numbers.                             *)
LEMMA QueuesOKStep ==
  ASSUME TypeInv, [Next]_vars
  PROVE  QueuesOK'
<1> USE TypeParts, FlashAssumption DEF QueuesOK, threadVars, senderVars, flashVars, history
<1>1. ASSUME NEW t \in Threads, BumpSerial(t) PROVE QueuesOK'
  BY <1>1 DEF BumpSerial
<1>2. ASSUME NEW t \in Threads, ReadSerial(t) PROVE QueuesOK'
  BY <1>2 DEF ReadSerial
<1>3. ASSUME NEW t \in Threads, TRSHOW(t) PROVE QueuesOK'
  <2>1. mine[t] \in Message
    BY <1>3 DEF TRSHOW, PlaceInv
  <2>2. Append(g_QueueToFlash, mine[t]) \in Seq(Message)
    BY <2>1, AppendMessage
  <2>3. g_QueueToFlash' \in {Append(g_QueueToFlash, mine[t]), g_QueueToFlash}
        /\ UNCHANGED <<g_FlashSerialDone, inFlash, acks>>
    BY <1>3 DEF TRSHOW
  <2> QED
    BY <2>2, <2>3
<1>4. ASSUME NEW t \in Threads, CLOSEAPP(t) PROVE QueuesOK'
  <2> DEFINE c == [id |-> calls + 1, kind |-> "close", serial |-> 0]
  <2>1. c \in Message
    BY <1>4, CloseMessage
  <2>2. g_QueueToFlash' \in {Append(g_QueueToFlash, c), g_QueueToFlash}
        /\ UNCHANGED <<g_FlashSerialDone, inFlash, acks>>
    BY <1>4 DEF CLOSEAPP
  <2> HIDE DEF c
  <2> QED
    BY <2>1, <2>2, AppendMessage
<1>5. CASE GetHead
  BY <1>5 DEF GetHead
<1>6. CASE CallFunction
  <2>1. cur \in Message
    BY <1>6 DEF CallFunction, PlaceInv, Sending
  <2>2. Append(inFlash, cur) \in Seq(Message)
    BY <2>1, AppendMessage
  <2> QED
    BY <1>6, <2>2 DEF CallFunction
<1>7. CASE Poll
  BY <1>7 DEF Poll
<1>8. CASE ClearDone
  BY <1>8 DEF ClearDone, Empty, Serial
<1>9. CASE NoAnswer
  BY <1>9 DEF NoAnswer
<1>10. CASE FlashHandles
  <2>1. Head(inFlash) \in Message /\ Tail(inFlash) \in Seq(Message)
    BY <1>10, HeadElement DEF FlashHandles
  <2>2. Head(inFlash).serial \in Serial
    BY <2>1 DEF Message
  <2> QED
    BY <1>10, <2>1, <2>2 DEF FlashHandles
<1>11. CASE ResponseOK
  BY <1>11 DEF ResponseOK
<1>12. CASE UNCHANGED vars
  BY <1>12 DEF vars
<1>13. CASE CloseApp
  BY <1>13 DEF CloseApp
<1> QED
  BY <1>1, <1>2, <1>3, <1>4, <1>5, <1>6, <1>7, <1>8, <1>9, <1>10, <1>11, <1>12, <1>13 DEF Next,
     SenderStep, ThreadStep, Stopped

(* The histories speak of calls and serial numbers only.                    *)
LEMMA HistoryOKStep ==
  ASSUME TypeInv, [Next]_vars
  PROVE  HistoryOK'
<1> USE TypeParts, FlashAssumption DEF HistoryOK, threadVars, senderVars, flashVars, history
<1>1. ASSUME NEW t \in Threads, BumpSerial(t) PROVE HistoryOK'
  BY <1>1 DEF BumpSerial
<1>2. ASSUME NEW t \in Threads, ReadSerial(t) PROVE HistoryOK'
  BY <1>2 DEF ReadSerial, ThreadOK
<1>3. ASSUME NEW t \in Threads, TRSHOW(t) PROVE HistoryOK'
  BY <1>3 DEF TRSHOW, PlaceInv, Message
<1>4. ASSUME NEW t \in Threads, CLOSEAPP(t) PROVE HistoryOK'
  <2>1. calls + 1 \in Id
    BY <1>4, CloseMessage DEF Message
  <2> QED
    BY <1>4, <2>1 DEF CLOSEAPP
<1>5. CASE GetHead
  BY <1>5 DEF GetHead
<1>6. CASE CallFunction
  BY <1>6 DEF CallFunction
<1>7. CASE Poll
  BY <1>7 DEF Poll
<1>8. CASE ClearDone
  BY <1>8 DEF ClearDone, PlaceInv, Sending, Message
<1>9. CASE NoAnswer
  BY <1>9 DEF NoAnswer, PlaceInv, Sending, Message
<1>10. CASE FlashHandles
  <2>1. Head(inFlash) \in Message
    BY <1>10, HeadElement DEF FlashHandles, QueuesOK
  <2>2. Head(inFlash).id \in Id
    BY <2>1 DEF Message
  <2> QED
    BY <1>10, <2>2 DEF FlashHandles
<1>11. CASE ResponseOK
  BY <1>11 DEF ResponseOK
<1>12. CASE UNCHANGED vars
  BY <1>12 DEF vars
<1>13. CASE CloseApp
  BY <1>13 DEF CloseApp
<1> QED
  BY <1>1, <1>2, <1>3, <1>4, <1>5, <1>6, <1>7, <1>8, <1>9, <1>10, <1>11, <1>12, <1>13 DEF Next,
     SenderStep, ThreadStep, Stopped

(* A thread and the sender keep the message that their place needs.         *)
LEMMA PlaceInvStep ==
  ASSUME TypeInv, [Next]_vars
  PROVE  PlaceInv'
<1> USE TypeParts, FlashAssumption DEF PlaceInv, threadVars, senderVars, flashVars, history
<1>1. ASSUME NEW t \in Threads, BumpSerial(t) PROVE PlaceInv'
  BY <1>1 DEF BumpSerial, ThreadOK, NextSerial, Message, Serial, Id
<1>2. ASSUME NEW t \in Threads, ReadSerial(t) PROVE PlaceInv'
  BY <1>2 DEF ReadSerial, ThreadOK, Message
<1>3. ASSUME NEW t \in Threads, TRSHOW(t) PROVE PlaceInv'
  BY <1>3 DEF TRSHOW, ThreadOK
<1>4. ASSUME NEW t \in Threads, CLOSEAPP(t) PROVE PlaceInv'
  BY <1>4 DEF CLOSEAPP
<1>5. CASE GetHead
  BY <1>5 DEF GetHead, QueuesOK, Sending
<1>6. CASE CallFunction
  BY <1>6 DEF CallFunction, Sending
<1>7. CASE Poll
  BY <1>7 DEF Poll, Sending
<1>8. CASE ClearDone
  BY <1>8 DEF ClearDone, Sending
<1>9. CASE NoAnswer
  BY <1>9 DEF NoAnswer, Sending, SenderOK
<1>10. CASE FlashHandles
  BY <1>10 DEF FlashHandles
<1>11. CASE ResponseOK
  BY <1>11 DEF ResponseOK
<1>12. CASE UNCHANGED vars
  BY <1>12 DEF vars
<1>13. CASE CloseApp
  BY <1>13 DEF CloseApp, Sending
<1> QED
  BY <1>1, <1>2, <1>3, <1>4, <1>5, <1>6, <1>7, <1>8, <1>9, <1>10, <1>11, <1>12, <1>13 DEF Next,
     SenderStep, ThreadStep, Stopped

(* Every step keeps the types and what the places say of the messages.      *)
LEMMA TypeStep ==
  ASSUME TypeInv, [Next]_vars
  PROVE  TypeInv'
  BY TypeParts, ThreadOKStep, SenderOKStep, QueuesOKStep, HistoryOKStep, PlaceInvStep

-----------------------------------------------------------------------------
(* The message that a thread numbers in this step.                          *)
JustNumbered(m) ==
  \E t \in Threads : ReadSerial(t) /\ m = mine'[t] /\ m.serial = m_iFlashSerial

(* The serial number that Flash answers in this step.                       *)
JustAnswered(s) == FlashHandles /\ s = Head(inFlash).serial

(* A message becomes live when it gets its number, and in no other way.     *)
LEMMA LiveChange ==
  ASSUME TypeInv, [Next]_vars, NEW m \in Message, Live(m)'
  PROVE  Live(m) \/ JustNumbered(m)
<1> USE TypeParts, FlashAssumption DEF QueuesOK, threadVars, senderVars, flashVars, history
<1>1. ASSUME NEW t \in Threads, BumpSerial(t) PROVE Live(m) \/ JustNumbered(m)
  BY <1>1 DEF BumpSerial, Live, ThreadOK
<1>2. ASSUME NEW t \in Threads, ReadSerial(t) PROVE Live(m) \/ JustNumbered(m)
  <2>1. mine[t] \in Message
    BY <1>2 DEF ReadSerial, PlaceInv
  <2>2. /\ mine'[t] = [mine[t] EXCEPT !.serial = m_iFlashSerial]
        /\ \A u \in Threads \ {t} : mine'[u] = mine[u] /\ tpc'[u] = tpc[u]
    BY <1>2 DEF ReadSerial, ThreadOK
  <2>3. mine'[t].serial = m_iFlashSerial
    BY <2>1, <2>2 DEF Message
  <2> QED
    BY <1>2, <2>2, <2>3 DEF ReadSerial, Live, JustNumbered
<1>3. ASSUME NEW t \in Threads, TRSHOW(t) PROVE Live(m) \/ JustNumbered(m)
  <2>1. mine[t] \in Message
    BY <1>3 DEF TRSHOW, PlaceInv
  <2>2. ASSUME NEW i \in 1 .. Len(g_QueueToFlash')
        PROVE  \/ g_QueueToFlash'[i] = mine[t]
               \/ \E j \in 1 .. Len(g_QueueToFlash) : g_QueueToFlash'[i] = g_QueueToFlash[j]
    <3>1. CASE g_QueueToFlash' = Append(g_QueueToFlash, mine[t])
      BY <2>1, <3>1, AppendElements
    <3>2. CASE g_QueueToFlash' = g_QueueToFlash
      BY <3>2
    <3> QED
      BY <1>3, <3>1, <3>2 DEF TRSHOW
  <2>3. \A u \in Threads : tpc'[u] = "add" => tpc[u] = "add" /\ mine'[u] = mine[u]
    BY <1>3 DEF TRSHOW, ThreadOK
  <2>4. UNCHANGED <<spc, cur, inFlash>> /\ tpc[t] = "add"
    BY <1>3 DEF TRSHOW, senderVars, flashVars
  <2> QED
    BY <2>2, <2>3, <2>4 DEF Live
<1>4. ASSUME NEW t \in Threads, CLOSEAPP(t) PROVE Live(m) \/ JustNumbered(m)
  <2> DEFINE c == [id |-> calls + 1, kind |-> "close", serial |-> 0]
  <2>1. c \in Message /\ c.kind # "tran"
    BY <1>4, CloseMessage
  <2>2. g_QueueToFlash' \in {Append(g_QueueToFlash, c), g_QueueToFlash}
    BY <1>4 DEF CLOSEAPP
  <2> HIDE DEF c
  <2>3. \A i \in 1 .. Len(g_QueueToFlash') :
          \/ g_QueueToFlash'[i] = c
          \/ \E j \in 1 .. Len(g_QueueToFlash) : g_QueueToFlash'[i] = g_QueueToFlash[j]
    <3>1. CASE g_QueueToFlash' = Append(g_QueueToFlash, c)
      BY <2>1, <3>1, AppendElements
    <3>2. CASE g_QueueToFlash' = g_QueueToFlash
      BY <3>2
    <3> QED
      BY <2>2, <3>1, <3>2
  <2> QED
    BY <1>4, <2>1, <2>3 DEF CLOSEAPP, Live
<1>5. CASE GetHead
  <2>1. /\ Head(g_QueueToFlash) = g_QueueToFlash[1] /\ 1 \in 1 .. Len(g_QueueToFlash)
        /\ Head(g_QueueToFlash) \in Message
    BY <1>5, HeadElement DEF GetHead
  <2>2. \A i \in 1 .. Len(g_QueueToFlash') :
          \E j \in 1 .. Len(g_QueueToFlash) : g_QueueToFlash'[i] = g_QueueToFlash[j]
    BY <1>5, TailElements DEF GetHead
  <2>3. spc' \in Sending => cur'.kind = "tran"
    BY <1>5, <2>1 DEF GetHead, Message, Sending
  <2> QED
    BY <1>5, <2>1, <2>2, <2>3 DEF GetHead, Live
<1>6. CASE CallFunction
  <2>1. cur \in Message
    BY <1>6 DEF CallFunction, PlaceInv, Sending
  <2>2. \A i \in 1 .. Len(inFlash') :
          inFlash'[i] = cur \/ \E j \in 1 .. Len(inFlash) : inFlash'[i] = inFlash[j]
    <3>1. CASE inFlash' = Append(inFlash, cur)
      BY <2>1, <3>1, AppendElements
    <3>2. CASE inFlash' = inFlash
      BY <3>2
    <3> QED
      BY <1>6, <3>1, <3>2 DEF CallFunction
  <2> QED
    BY <1>6, <2>2 DEF CallFunction, Live, Sending
<1>7. CASE Poll
  BY <1>7 DEF Poll, Live, Sending
<1>8. CASE ClearDone
  BY <1>8 DEF ClearDone, Live, Sending
<1>9. CASE NoAnswer
  BY <1>9 DEF NoAnswer, Live, Sending
<1>10. CASE FlashHandles
  <2>1. \A i \in 1 .. Len(inFlash') : \E j \in 1 .. Len(inFlash) : inFlash'[i] = inFlash[j]
    BY <1>10, TailElements DEF FlashHandles
  <2> QED
    BY <1>10, <2>1 DEF FlashHandles, Live
<1>11. CASE ResponseOK
  BY <1>11 DEF ResponseOK, Live
<1>12. CASE UNCHANGED vars
  BY <1>12 DEF vars, Live
<1>13. CASE CloseApp
  BY <1>13 DEF CloseApp, Live, Sending
<1> QED
  BY <1>1, <1>2, <1>3, <1>4, <1>5, <1>6, <1>7, <1>8, <1>9, <1>10, <1>11, <1>12, <1>13 DEF Next,
     SenderStep, ThreadStep, Stopped

(* An answer comes from a message that Flash handles.                       *)
LEMMA AnswerChange ==
  ASSUME TypeInv, [Next]_vars, NEW s \in Serial, Answer(s)'
  PROVE  Answer(s) \/ JustAnswered(s)
<1> USE TypeParts, FlashAssumption DEF QueuesOK, threadVars, senderVars, flashVars, history
<1>1. ASSUME NEW t \in Threads, BumpSerial(t) PROVE Answer(s) \/ JustAnswered(s)
  BY <1>1 DEF BumpSerial, Answer
<1>2. ASSUME NEW t \in Threads, ReadSerial(t) PROVE Answer(s) \/ JustAnswered(s)
  BY <1>2 DEF ReadSerial, Answer
<1>3. ASSUME NEW t \in Threads, TRSHOW(t) PROVE Answer(s) \/ JustAnswered(s)
  BY <1>3 DEF TRSHOW, Answer
<1>4. ASSUME NEW t \in Threads, CLOSEAPP(t) PROVE Answer(s) \/ JustAnswered(s)
  BY <1>4 DEF CLOSEAPP, Answer
<1>5. CASE GetHead
  BY <1>5 DEF GetHead, Answer
<1>6. CASE CallFunction
  BY <1>6 DEF CallFunction, Answer
<1>7. CASE Poll
  BY <1>7 DEF Poll, Answer
<1>8. CASE ClearDone
  BY <1>8 DEF ClearDone, Answer, Empty
<1>9. CASE NoAnswer
  BY <1>9 DEF NoAnswer, Answer
<1>10. CASE FlashHandles
  <2>1. Head(inFlash) \in Message
    BY <1>10, HeadElement DEF FlashHandles
  <2>2. Head(inFlash).serial \in Serial
    BY <2>1 DEF Message
  <2>3. \A i \in 1 .. Len(acks') :
          acks'[i] = Head(inFlash).serial \/ \E j \in 1 .. Len(acks) : acks'[i] = acks[j]
    BY <1>10, <2>2, AppendElements DEF FlashHandles
  <2> QED
    BY <1>10, <2>3 DEF FlashHandles, Answer, JustAnswered
<1>11. CASE ResponseOK
  <2>1. Head(acks) = acks[1] /\ 1 \in 1 .. Len(acks)
    BY <1>11, HeadElement DEF ResponseOK
  <2>2. \A i \in 1 .. Len(acks') : \E j \in 1 .. Len(acks) : acks'[i] = acks[j]
    BY <1>11, TailElements DEF ResponseOK
  <2> QED
    BY <1>11, <2>1, <2>2 DEF ResponseOK, Answer
<1>12. CASE UNCHANGED vars
  BY <1>12 DEF vars, Answer
<1>13. CASE CloseApp
  BY <1>13 DEF CloseApp, Answer
<1> QED
  BY <1>1, <1>2, <1>3, <1>4, <1>5, <1>6, <1>7, <1>8, <1>9, <1>10, <1>11, <1>12, <1>13 DEF Next,
     SenderStep, ThreadStep, Stopped

(* Nothing is forgotten of what Flash handled and of the numbers in use.     *)
LEMMA HistoryGrows ==
  ASSUME TypeInv, [Next]_vars
  PROVE  handled \subseteq handled' /\ used \subseteq used' /\ (twins => twins')
<1> USE TypeParts, FlashAssumption DEF threadVars, senderVars, flashVars, history
<1>1. ASSUME NEW t \in Threads, BumpSerial(t)
      PROVE  handled \subseteq handled' /\ used \subseteq used' /\ (twins => twins')
  BY <1>1 DEF BumpSerial
<1>2. ASSUME NEW t \in Threads, ReadSerial(t)
      PROVE  handled \subseteq handled' /\ used \subseteq used' /\ (twins => twins')
  BY <1>2 DEF ReadSerial, HistoryOK
<1>3. ASSUME NEW t \in Threads, TRSHOW(t)
      PROVE  handled \subseteq handled' /\ used \subseteq used' /\ (twins => twins')
  BY <1>3 DEF TRSHOW
<1>4. ASSUME NEW t \in Threads, CLOSEAPP(t)
      PROVE  handled \subseteq handled' /\ used \subseteq used' /\ (twins => twins')
  BY <1>4 DEF CLOSEAPP
<1>5. CASE GetHead
  BY <1>5 DEF GetHead
<1>6. CASE CallFunction
  BY <1>6 DEF CallFunction
<1>7. CASE Poll
  BY <1>7 DEF Poll
<1>8. CASE ClearDone
  BY <1>8 DEF ClearDone
<1>9. CASE NoAnswer
  BY <1>9 DEF NoAnswer
<1>10. CASE FlashHandles
  BY <1>10 DEF FlashHandles
<1>11. CASE ResponseOK
  BY <1>11 DEF ResponseOK
<1>12. CASE UNCHANGED vars
  BY <1>12 DEF vars
<1>13. CASE CloseApp
  BY <1>13 DEF CloseApp
<1> QED
  BY <1>1, <1>2, <1>3, <1>4, <1>5, <1>6, <1>7, <1>8, <1>9, <1>10, <1>11, <1>12, <1>13 DEF Next,
     SenderStep, ThreadStep, Stopped

(* The sender confirms a message only after an answer with its number.      *)
LEMMA ConfirmChange ==
  ASSUME TypeInv, [Next]_vars, ~twins, NumberInv, AnswerInv, ConfirmInv
  PROVE  ConfirmInv'
<1> USE TypeParts, FlashAssumption, HistoryGrows DEF ConfirmInv, threadVars, senderVars,
   flashVars, history
<1>1. ASSUME NEW t \in Threads, BumpSerial(t) PROVE ConfirmInv'
  BY <1>1 DEF BumpSerial
<1>2. ASSUME NEW t \in Threads, ReadSerial(t) PROVE ConfirmInv'
  BY <1>2 DEF ReadSerial
<1>3. ASSUME NEW t \in Threads, TRSHOW(t) PROVE ConfirmInv'
  BY <1>3 DEF TRSHOW
<1>4. ASSUME NEW t \in Threads, CLOSEAPP(t) PROVE ConfirmInv'
  BY <1>4 DEF CLOSEAPP
<1>5. CASE GetHead
  BY <1>5 DEF GetHead
<1>6. CASE CallFunction
  BY <1>6 DEF CallFunction
<1>7. CASE Poll
  <2>1. confirmed' = confirmed /\ cur' = cur /\ handled' = handled
    BY <1>7 DEF Poll
  <2>2. ASSUME spc' = "clear" PROVE cur.id \in handled
    <3>1. cur \in Message /\ Live(cur) /\ cur.serial = g_FlashSerialDone
      BY <1>7, <2>2 DEF Poll, Matches, PlaceInv, Sending, Live
    <3>2. cur.serial # Empty
      BY <3>1 DEF NumberInv, Empty
    <3>3. Answer(cur.serial) /\ cur.serial \in Serial
      BY <3>1, <3>2 DEF Answer, QueuesOK
    <3> QED
      BY <3>1, <3>3 DEF AnswerInv
  <2> QED
    BY <2>1, <2>2
<1>8. CASE ClearDone
  BY <1>8 DEF ClearDone
<1>9. CASE NoAnswer
  BY <1>9 DEF NoAnswer
<1>10. CASE FlashHandles
  BY <1>10 DEF FlashHandles
<1>11. CASE ResponseOK
  BY <1>11 DEF ResponseOK
<1>12. CASE UNCHANGED vars
  BY <1>12 DEF vars
<1>13. CASE CloseApp
  <2>1. confirmed' = confirmed /\ cur' = cur /\ handled' = handled
    BY <1>13 DEF CloseApp
  <2>2. ASSUME spc' = "clear" PROVE cur.id \in handled
    <3>1. cur \in Message /\ Live(cur) /\ cur.serial = g_FlashSerialDone
      BY <1>13, <2>2 DEF CloseApp, Matches, PlaceInv, Sending, Live
    <3>2. cur.serial # Empty
      BY <3>1 DEF NumberInv, Empty
    <3>3. Answer(cur.serial) /\ cur.serial \in Serial
      BY <3>1, <3>2 DEF Answer, QueuesOK
    <3> QED
      BY <3>1, <3>3 DEF AnswerInv
  <2> QED
    BY <2>1, <2>2
<1> QED
  BY <1>1, <1>2, <1>3, <1>4, <1>5, <1>6, <1>7, <1>8, <1>9, <1>10, <1>11, <1>12, <1>13 DEF Next,
     SenderStep, ThreadStep, Stopped

(* As long as no number is given out twice, a message that gets its number  *)
(* gets one that nobody has used.                                           *)
LEMMA FreshNumber ==
  ASSUME TypeInv, [Next]_vars, ~twins', NEW m, JustNumbered(m)
  PROVE  /\ m.serial \notin used /\ m.serial \in used' /\ m.serial # 0
         /\ \A n : JustNumbered(n) => n = m
<1>1. PICK t \in Threads : ReadSerial(t) /\ m = mine'[t] /\ m.serial = m_iFlashSerial
  BY DEF JustNumbered
<1>2. m_iFlashSerial \notin used /\ m_iFlashSerial \in used'
  BY <1>1 DEF ReadSerial
<1>3. m_iFlashSerial # 0
  BY <1>1, TypeParts DEF ReadSerial, PlaceInv
<1>4. ASSUME NEW n, JustNumbered(n) PROVE n = m
  <2>1. PICK u \in Threads : ReadSerial(u) /\ n = mine'[u]
    BY <1>4 DEF JustNumbered
  <2>2. tpc[t] = "read" /\ tpc' = [tpc EXCEPT ![t] = "add"]
    BY <1>1 DEF ReadSerial
  <2>3. tpc[u] = "read" /\ tpc' = [tpc EXCEPT ![u] = "add"]
    BY <2>1 DEF ReadSerial
  <2>4. t = u
    BY <2>2, <2>3, TypeParts DEF ThreadOK
  <2> QED
    BY <1>1, <2>1, <2>4
<1> QED
  BY <1>1, <1>2, <1>3, <1>4

(* Live messages keep numbers of their own.                                 *)
LEMMA NumberStep ==
  ASSUME TypeInv, [Next]_vars, ~twins', NumberInv
  PROVE  NumberInv'
<1>1. ASSUME NEW m \in Message, Live(m)'
      PROVE  m.serial \in used' /\ m.serial # 0
  <2>1. CASE Live(m)
    BY <2>1, HistoryGrows DEF NumberInv
  <2>2. CASE JustNumbered(m)
    BY <2>2, FreshNumber
  <2> QED
    BY <1>1, <2>1, <2>2, LiveChange
<1>2. ASSUME NEW m \in Message, NEW n \in Message, Live(m)', Live(n)', m.serial = n.serial
      PROVE  m.id = n.id
  <2>1. CASE Live(m) /\ Live(n)
    BY <1>2, <2>1 DEF NumberInv
  <2>2. CASE JustNumbered(m) /\ JustNumbered(n)
    BY <2>2, FreshNumber
  <2>3. ASSUME NEW a \in Message, NEW b \in Message, Live(a), JustNumbered(b)
        PROVE  a.serial # b.serial
    BY <2>3, FreshNumber DEF NumberInv
  <2> QED
    BY <1>2, <2>1, <2>2, <2>3, LiveChange
<1> QED
  BY <1>1, <1>2 DEF NumberInv

(* An answer stays true of every live message with its number.              *)
LEMMA AnswerStep ==
  ASSUME TypeInv, [Next]_vars, ~twins', NumberInv, AnswerInv
  PROVE  AnswerInv'
<1> SUFFICES ASSUME NEW s \in Serial, Answer(s)'
             PROVE  /\ s \in used'
                    /\ \A m \in Message : Live(m)' /\ m.serial = s => m.id \in handled'
  BY DEF AnswerInv
<1>1. CASE Answer(s)
  <2>1. s \in used /\ \A m \in Message : Live(m) /\ m.serial = s => m.id \in handled
    BY <1>1 DEF AnswerInv
  <2>2. ASSUME NEW m \in Message, Live(m)', m.serial = s PROVE Live(m)
    BY <2>1, <2>2, LiveChange, FreshNumber
  <2> QED
    BY <2>1, <2>2, HistoryGrows
<1>2. CASE JustAnswered(s)
  <2> DEFINE h == Head(inFlash)
  <2>1. h \in Message /\ Live(h) /\ s = h.serial
    BY <1>2, TypeParts, HeadElement DEF JustAnswered, FlashHandles, QueuesOK, Live
  <2>2. h.id \in handled' /\ used' = used
    BY <1>2 DEF JustAnswered, FlashHandles, history
  <2>3. ASSUME NEW m \in Message, Live(m)' PROVE Live(m)
    <3>1. ~JustNumbered(m)
      BY <2>2, FreshNumber
    <3> QED
      BY <2>3, <3>1, LiveChange
  <2> QED
    BY <2>1, <2>2, <2>3 DEF NumberInv
<1> QED
  BY <1>1, <1>2, AnswerChange

(* Every step keeps the numbers, the answers and the confirmations true.    *)
LEMMA LinkStep ==
  ASSUME IInv, [Next]_vars
  PROVE  LinkInv'
<1> SUFFICES ASSUME ~twins' PROVE (NumberInv /\ AnswerInv /\ ConfirmInv)'
  BY DEF LinkInv
<1>1. TypeInv /\ ~twins
  BY HistoryGrows DEF IInv
<1>2. NumberInv /\ AnswerInv /\ ConfirmInv
  BY <1>1 DEF IInv, LinkInv
<1> QED
  BY <1>1, <1>2, NumberStep, AnswerStep, ConfirmChange

(* Nothing is under way at the start.                                       *)
LEMMA InitInv == Init => IInv
<1> SUFFICES ASSUME Init PROVE IInv
  OBVIOUS
<1>1. ThreadOK /\ SenderOK /\ QueuesOK
  BY FlashAssumption DEF Init, ThreadOK, SenderOK, QueuesOK, Serial, Empty
<1>2. HistoryOK
  BY DEF Init, HistoryOK
<1>3. PlaceInv
  BY DEF Init, PlaceInv, Sending
<1>4. \A m : ~Live(m)
  BY DEF Init, Live, Sending
<1>5. \A s : ~Answer(s)
  BY DEF Init, Answer, Empty
<1>6. ConfirmInv
  BY DEF Init, ConfirmInv
<1> QED
  BY <1>1, <1>2, <1>3, <1>4, <1>5, <1>6, TypeParts DEF IInv, LinkInv, NumberInv, AnswerInv

(* The invariant that the theorems below are read off.                      *)
THEOREM AlwaysInv == Spec => []IInv
<1>1. IInv /\ [Next]_vars => IInv'
  BY TypeStep, LinkStep DEF IInv
<1> QED
  BY <1>1, InitInv, PTL DEF Spec

-----------------------------------------------------------------------------
(* The link stays within its types: in particular OnCompleteTran never      *)
(* sends a message more often than its limit.                               *)
THEOREM TypeCorrect == Spec => []TypeOK
<1>1. IInv => TypeOK
  BY DEF IInv, TypeInv
<1> QED
  BY <1>1, AlwaysInv, PTL

(* A message that OnCompleteTran takes for confirmed was handled by Flash,  *)
(* however late the answers arrive and however often messages are sent      *)
(* again, unless GetFlashSerial gave out one number twice.                  *)
THEOREM ConfirmedIsHandled == Spec => []ConfirmedWasHandled
<1>1. IInv => ConfirmedWasHandled
  BY DEF IInv, LinkInv, ConfirmInv, ConfirmedWasHandled
<1> QED
  BY <1>1, AlwaysInv, PTL
-----------------------------------------------------------------------------
(* Where the messages are: a thread builds them, g_QueueToFlash holds them,  *)
(* OnCompleteTran has one in hand (for good when it is CloseApp), and at the *)
(* end each of them is confirmed, given up or refused.                       *)
Ids(q)   == {q[i].id : i \in 1 .. Len(q)}
Building == {mine[t].id : t \in {u \in Threads : tpc[u] # "idle"}}
Waiting  == Ids(g_QueueToFlash)
InHand   == IF spc \in Sending \cup {"close", "closed"} THEN {cur.id} ELSE {}
Ended    == confirmed \cup gaveUp \cup refused
Shown    == handled \cup Ids(inFlash)

(* Every call of TRSHOW and CLOSEAPP is in exactly one of these places.     *)
OnePlaceEach ==
  /\ Building \cup Waiting \cup InHand \cup Ended = 1 .. calls
  /\ Building \cap (Waiting \cup InHand \cup Ended) = {}
  /\ Waiting \cap (InHand \cup Ended) = {}
  /\ InHand \cap Ended = {}
  /\ confirmed \cap (gaveUp \cup refused) = {} /\ gaveUp \cap refused = {}

(* Flash sees no message before OnCompleteTran took it, and none that the   *)
(* queue refused.                                                           *)
ShownWasTaken ==
  /\ Shown \subseteq 1 .. calls
  /\ Shown \cap (Building \cup Waiting \cup refused) = {}

(* No two threads and no two places of the queue have one message.          *)
Distinct(q) == \A i, j \in 1 .. Len(q) : q[i].id = q[j].id => i = j
ThreadsApart ==
  \A t, u \in Threads :
    tpc[t] # "idle" /\ tpc[u] # "idle" /\ mine[t].id = mine[u].id => t = u

AccountInv == OnePlaceEach /\ ShownWasTaken /\ ThreadsApart /\ Distinct(g_QueueToFlash)

(* A call is new: its identifier is in no place yet.                        *)
LEMMA NewCall ==
  ASSUME TypeInv, calls' = calls + 1
  PROVE  /\ 1 .. calls' = (1 .. calls) \cup {calls + 1}
         /\ calls + 1 \notin 1 .. calls
<1>1. calls \in Nat
  BY TypeParts, FlashAssumption DEF ThreadOK
<1> QED
  BY <1>1

(* The messages of a queue after AddTail ...                                *)
LEMMA AppendIds ==
  ASSUME NEW q \in Seq(Message), NEW e \in Message
  PROVE  /\ Ids(Append(q, e)) = Ids(q) \cup {e.id}
         /\ Distinct(q) /\ e.id \notin Ids(q) => Distinct(Append(q, e))
<1> DEFINE r == Append(q, e)
<1>1. /\ \A i \in 1 .. Len(q) : r[i] = q[i]
      /\ r[Len(q) + 1] = e /\ Len(r) = Len(q) + 1 /\ Len(q) \in Nat
  OBVIOUS
<1>2. 1 .. Len(r) = (1 .. Len(q)) \cup {Len(q) + 1}
  BY <1>1
<1> HIDE DEF r
<1>3. Ids(r) = Ids(q) \cup {e.id}
  BY <1>1, <1>2 DEF Ids
<1>4. ASSUME Distinct(q), e.id \notin Ids(q) PROVE Distinct(r)
  <2>1. \A i \in 1 .. Len(q) : q[i].id # e.id
    BY <1>4 DEF Ids
  <2> QED
    BY <1>1, <1>2, <1>4, <2>1 DEF Distinct
<1> QED
  BY <1>3, <1>4 DEF r

(* ... and after GetHead.                                                   *)
LEMMA TailIds ==
  ASSUME NEW q \in Seq(Message), q # << >>
  PROVE  /\ Ids(q) = Ids(Tail(q)) \cup {Head(q).id}
         /\ Distinct(q) => Distinct(Tail(q)) /\ Head(q).id \notin Ids(Tail(q))
<1> DEFINE r == Tail(q)
           h == Head(q)
<1>1. /\ h = q[1] /\ Len(q) \in Nat \ {0} /\ Len(r) = Len(q) - 1
      /\ \A i \in 1 .. Len(r) : r[i] = q[i + 1]
  OBVIOUS
<1> HIDE DEF r, h
<1>2. ASSUME NEW i \in 1 .. Len(q), i # 1 PROVE i - 1 \in 1 .. Len(r) /\ r[i - 1] = q[i]
  <2>1. i - 1 \in 1 .. Len(r) /\ (i - 1) + 1 = i
    BY <1>1, <1>2
  <2> QED
    BY <1>1, <2>1
<1>3. 1 \in 1 .. Len(q) /\ \A i \in 1 .. Len(r) : i + 1 \in 1 .. Len(q) /\ i + 1 # 1
  BY <1>1
<1>4. Ids(q) = Ids(r) \cup {h.id}
  <2>1. ASSUME NEW i \in 1 .. Len(q) PROVE q[i].id \in Ids(r) \cup {h.id}
    BY <1>1, <1>2 DEF Ids
  <2>2. Ids(r) \cup {h.id} \subseteq Ids(q)
    BY <1>1, <1>3 DEF Ids
  <2> QED
    BY <2>1, <2>2 DEF Ids
<1>5. ASSUME Distinct(q) PROVE Distinct(r) /\ h.id \notin Ids(r)
  <2>1. ASSUME NEW i \in 1 .. Len(r), NEW j \in 1 .. Len(r), r[i].id = r[j].id PROVE i = j
    <3>1. i + 1 = j + 1
      BY <1>1, <1>3, <1>5, <2>1 DEF Distinct
    <3> QED
      BY <3>1
  <2>2. ASSUME NEW i \in 1 .. Len(r) PROVE r[i].id # h.id
    BY <1>1, <1>3, <1>5 DEF Distinct
  <2> QED
    BY <2>1, <2>2 DEF Distinct, Ids
<1> QED
  BY <1>4, <1>5 DEF r, h

(* What a step may leave alone.                                             *)
ThreadsStay == UNCHANGED <<calls, tpc, mine>>
EndsStay == UNCHANGED <<confirmed, gaveUp, refused>>

(* The places of the threads do not change with their messages' numbers.    *)
LEMMA ThreadsKeep ==
  ASSUME ThreadsApart,
         \A t \in Threads : /\ tpc'[t] # "idle" <=> tpc[t] # "idle"
                            /\ tpc[t] # "idle" => (mine'[t]).id = mine[t].id
  PROVE  Building' = Building /\ ThreadsApart'
  BY DEF Building, ThreadsApart

(* TRSHOW begins: the thread gets a new call.                               *)
LEMMA BumpAccount ==
  ASSUME TypeInv, AccountInv, NEW t \in Threads, BumpSerial(t)
  PROVE  AccountInv'
<1>1. /\ tpc[t] = "idle" /\ tpc'[t] = "read" /\ (mine'[t]).id = calls + 1
      /\ \A u \in Threads \ {t} : tpc'[u] = tpc[u] /\ mine'[u] = mine[u]
      /\ calls' = calls + 1
  BY TypeParts DEF BumpSerial, ThreadOK
<1>2. /\ Waiting' = Waiting /\ InHand' = InHand /\ Shown' = Shown
      /\ EndsStay /\ g_QueueToFlash' = g_QueueToFlash
  BY DEF BumpSerial, Waiting, InHand, Shown, EndsStay, senderVars, flashVars, history
<1>3. Building' = Building \cup {calls + 1}
  BY <1>1 DEF Building
<1>4. \A u \in Threads : tpc[u] # "idle" => mine[u].id \in 1 .. calls
  BY DEF AccountInv, OnePlaceEach, Building
<1>5. ThreadsApart'
  BY <1>1, <1>4, NewCall DEF AccountInv, ThreadsApart
<1> QED
  BY <1>1, <1>2, <1>3, <1>5, NewCall
     DEF AccountInv, OnePlaceEach, ShownWasTaken, Distinct, Ended, EndsStay

(* CLOSEAPP: a new call, which goes to the queue at once, or is refused.    *)
LEMMA CloseAccount ==
  ASSUME TypeInv, AccountInv, NEW t \in Threads, CLOSEAPP(t)
  PROVE  AccountInv'
<1> DEFINE c == [id |-> calls + 1, kind |-> "close", serial |-> 0]
<1>1. c \in Message /\ c.id = calls + 1
  BY CloseMessage
<1>2. calls' = calls + 1 /\ UNCHANGED <<tpc, mine, confirmed, gaveUp>>
  BY DEF CLOSEAPP
<1>3. /\ Building' = Building /\ InHand' = InHand /\ Shown' = Shown
      /\ (ThreadsApart => ThreadsApart')
  BY DEF CLOSEAPP, Building, InHand, Shown, ThreadsApart, senderVars, flashVars
<1>4. \/ g_QueueToFlash' = Append(g_QueueToFlash, c) /\ refused' = refused
      \/ g_QueueToFlash' = g_QueueToFlash /\ refused' = refused \cup {calls + 1}
  BY DEF CLOSEAPP
<1> HIDE DEF c
<1>5. calls + 1 \notin Waiting /\ g_QueueToFlash \in Seq(Message)
  BY <1>2, NewCall, TypeParts DEF QueuesOK, AccountInv, OnePlaceEach
<1>6. CASE g_QueueToFlash' = Append(g_QueueToFlash, c) /\ refused' = refused
  <2>1. Waiting' = Waiting \cup {calls + 1} /\ Distinct(g_QueueToFlash')
    BY <1>1, <1>5, <1>6, AppendIds DEF AccountInv, Waiting
  <2> QED
    BY <1>2, <1>3, <1>6, <2>1, NewCall
       DEF AccountInv, OnePlaceEach, ShownWasTaken, Distinct, Ended
<1>7. CASE g_QueueToFlash' = g_QueueToFlash /\ refused' = refused \cup {calls + 1}
  <2>1. Waiting' = Waiting /\ Distinct(g_QueueToFlash')
    BY <1>7 DEF AccountInv, Waiting, Distinct
  <2> QED
    BY <1>2, <1>3, <1>7, <2>1, NewCall
       DEF AccountInv, OnePlaceEach, ShownWasTaken, Distinct, Ended
<1> QED
  BY <1>4, <1>6, <1>7

(* TRSHOW ends: the message goes to the queue, or is refused.               *)
LEMMA TrshowAccount ==
  ASSUME TypeInv, AccountInv, NEW t \in Threads, TRSHOW(t)
  PROVE  AccountInv'
<1> DEFINE m == mine[t]
<1>1. m \in Message /\ g_QueueToFlash \in Seq(Message)
  BY TypeParts DEF TRSHOW, PlaceInv, QueuesOK
<1>2. /\ tpc[t] # "idle" /\ tpc'[t] = "idle"
      /\ \A u \in Threads \ {t} : tpc'[u] = tpc[u]
      /\ mine' = mine /\ calls' = calls
  BY TypeParts DEF TRSHOW, ThreadOK
<1>3. /\ InHand' = InHand /\ Shown' = Shown /\ UNCHANGED <<confirmed, gaveUp>>
  BY DEF TRSHOW, InHand, Shown, senderVars, flashVars
<1>4. Building = Building' \cup {m.id} /\ m.id \notin Building'
  BY <1>2 DEF Building, AccountInv, ThreadsApart
<1>5. ThreadsApart'
  BY <1>2 DEF AccountInv, ThreadsApart
<1>6. m.id \notin Waiting
  BY <1>4 DEF AccountInv, OnePlaceEach
<1> HIDE DEF m
<1>7. CASE g_QueueToFlash' = Append(g_QueueToFlash, m) /\ refused' = refused
  <2>1. Waiting' = Waiting \cup {m.id} /\ Distinct(g_QueueToFlash')
    BY <1>1, <1>6, <1>7, AppendIds DEF AccountInv, Waiting
  <2> QED
    BY <1>2, <1>3, <1>4, <1>5, <1>7, <2>1
       DEF AccountInv, OnePlaceEach, ShownWasTaken, Distinct, Ended
<1>8. CASE g_QueueToFlash' = g_QueueToFlash /\ refused' = refused \cup {m.id}
  <2>1. Waiting' = Waiting /\ Distinct(g_QueueToFlash')
    BY <1>8 DEF AccountInv, Waiting, Distinct
  <2> QED
    BY <1>2, <1>3, <1>4, <1>5, <1>8, <2>1
       DEF AccountInv, OnePlaceEach, ShownWasTaken, Distinct, Ended
<1> QED
  BY <1>7, <1>8 DEF TRSHOW, m

(* GetHead: the first message of the queue comes into OnCompleteTran's hand. *)
LEMMA GetHeadAccount ==
  ASSUME TypeInv, AccountInv, GetHead
  PROVE  AccountInv'
<1> DEFINE h == Head(g_QueueToFlash)
<1>1. g_QueueToFlash \in Seq(Message) /\ g_QueueToFlash # << >>
  BY TypeParts DEF GetHead, QueuesOK
<1>2. /\ ThreadsStay /\ EndsStay /\ Shown' = Shown /\ g_QueueToFlash' = Tail(g_QueueToFlash)
      /\ spc = "idle" /\ cur' = h /\ spc' \in {"close", "call"}
  BY DEF GetHead, ThreadsStay, EndsStay, Shown, threadVars, flashVars, history
<1>3. Waiting = Waiting' \cup {h.id} /\ h.id \notin Waiting' /\ Distinct(g_QueueToFlash')
  BY <1>1, <1>2, TailIds DEF AccountInv, Waiting
<1>4. InHand = {} /\ InHand' = {h.id}
  BY <1>2 DEF InHand, Sending
<1>5. Building' = Building /\ ThreadsApart'
  BY <1>2, ThreadsKeep DEF ThreadsStay, AccountInv
<1> HIDE DEF h
<1> QED
  BY <1>2, <1>3, <1>4, <1>5
     DEF AccountInv, OnePlaceEach, ShownWasTaken, Distinct, Ended, ThreadsStay, EndsStay

(* A step that leaves the threads and the queue alone, and shows Flash no   *)
(* more than the message in hand, keeps the account if the message in hand  *)
(* stays there or comes to its end.                                         *)
LEMMA SenderAccount ==
  ASSUME AccountInv, ThreadsStay, g_QueueToFlash' = g_QueueToFlash, refused' = refused,
         Shown' \subseteq Shown \cup InHand,
         \/ InHand' = InHand /\ confirmed' = confirmed /\ gaveUp' = gaveUp
         \/ InHand' = {} /\ confirmed' = confirmed \cup InHand /\ gaveUp' = gaveUp
         \/ InHand' = {} /\ gaveUp' = gaveUp \cup InHand /\ confirmed' = confirmed
  PROVE  AccountInv'
<1>1. Building' = Building /\ ThreadsApart'
  BY ThreadsKeep DEF ThreadsStay, AccountInv
<1>2. Waiting' = Waiting /\ Distinct(g_QueueToFlash')
  BY DEF Waiting, AccountInv
<1>3. ShownWasTaken'
  BY <1>1, <1>2 DEF AccountInv, ShownWasTaken, OnePlaceEach, Ended, ThreadsStay
<1>4. OnePlaceEach'
  BY <1>1, <1>2 DEF AccountInv, OnePlaceEach, Ended, ThreadsStay
<1> QED
  BY <1>1, <1>2, <1>3, <1>4 DEF AccountInv, Distinct

(* Every step keeps the account.                                            *)
LEMMA AccountStep ==
  ASSUME TypeInv, AccountInv, [Next]_vars
  PROVE  AccountInv'
<1>1. ASSUME NEW t \in Threads, ReadSerial(t) PROVE AccountInv'
  <2>1. mine[t] \in Message
    BY <1>1, TypeParts DEF ReadSerial, PlaceInv
  <2>2. /\ mine'[t] = [mine[t] EXCEPT !.serial = m_iFlashSerial]
        /\ \A u \in Threads \ {t} : mine'[u] = mine[u] /\ tpc'[u] = tpc[u]
        /\ tpc[t] = "read" /\ tpc'[t] = "add"
    BY <1>1, TypeParts DEF ReadSerial, ThreadOK
  <2>3. (mine'[t]).id = mine[t].id
    BY <2>1, <2>2 DEF Message
  <2>4. Building' = Building /\ ThreadsApart'
    BY <2>2, <2>3, ThreadsKeep DEF AccountInv
  <2>5. /\ Waiting' = Waiting /\ InHand' = InHand /\ Shown' = Shown /\ calls' = calls
        /\ EndsStay /\ g_QueueToFlash' = g_QueueToFlash
    BY <1>1 DEF ReadSerial, Waiting, InHand, Shown, EndsStay, senderVars, flashVars
  <2> QED
    BY <2>4, <2>5 DEF AccountInv, OnePlaceEach, ShownWasTaken, Distinct, Ended, EndsStay
<1>2. CASE CallFunction
  <2>1. cur \in Message /\ inFlash \in Seq(Message)
    BY <1>2, TypeParts DEF CallFunction, PlaceInv, Sending, QueuesOK
  <2>2. /\ ThreadsStay /\ EndsStay /\ g_QueueToFlash' = g_QueueToFlash /\ handled' = handled
        /\ spc \in Sending /\ spc' \in Sending /\ cur' = cur
        /\ inFlash' = Append(inFlash, cur) \/ inFlash' = inFlash
    BY <1>2 DEF CallFunction, ThreadsStay, EndsStay, Sending, threadVars, history
  <2>3. InHand = {cur.id} /\ InHand' = InHand
    BY <2>2 DEF InHand
  <2>4. Ids(inFlash') \subseteq Ids(inFlash) \cup {cur.id}
    BY <2>1, <2>2, AppendIds
  <2>5. Shown' \subseteq Shown \cup InHand
    BY <2>2, <2>3, <2>4 DEF Shown
  <2> QED
    BY <2>2, <2>3, <2>5, SenderAccount DEF EndsStay
<1>3. CASE Poll
  <2>1. /\ ThreadsStay /\ EndsStay /\ g_QueueToFlash' = g_QueueToFlash /\ Shown' = Shown
        /\ spc \in Sending /\ spc' \in Sending /\ cur' = cur
    BY <1>3 DEF Poll, ThreadsStay, EndsStay, Sending, Shown, threadVars, flashVars, history
  <2> QED
    BY <2>1, SenderAccount DEF EndsStay, InHand
<1>4. CASE ClearDone
  <2>1. /\ ThreadsStay /\ g_QueueToFlash' = g_QueueToFlash /\ Shown' = Shown
        /\ gaveUp' = gaveUp /\ refused' = refused /\ confirmed' = confirmed \cup {cur.id}
        /\ spc = "clear" /\ spc' = "idle"
    BY <1>4 DEF ClearDone, ThreadsStay, Shown, threadVars, flashVars
  <2>2. InHand = {cur.id} /\ InHand' = {}
    BY <2>1 DEF InHand, Sending
  <2> QED
    BY <2>1, <2>2, SenderAccount
<1>5. CASE NoAnswer
  <2>1. /\ ThreadsStay /\ g_QueueToFlash' = g_QueueToFlash /\ Shown' = Shown
        /\ confirmed' = confirmed /\ refused' = refused /\ spc = "poll" /\ cur' = cur
        /\ \/ spc' = "call" /\ gaveUp' = gaveUp
           \/ spc' = "idle" /\ gaveUp' = gaveUp \cup {cur.id}
    BY <1>5 DEF NoAnswer, ThreadsStay, Shown, threadVars, flashVars
  <2>2. InHand = {cur.id} /\ InHand' = IF spc' = "call" THEN {cur.id} ELSE {}
    BY <2>1 DEF InHand, Sending
  <2> QED
    BY <2>1, <2>2, SenderAccount
<1>6. CASE FlashHandles
  <2>1. inFlash \in Seq(Message) /\ inFlash # << >>
    BY <1>6, TypeParts DEF FlashHandles, QueuesOK
  <2>2. /\ ThreadsStay /\ EndsStay /\ g_QueueToFlash' = g_QueueToFlash /\ InHand' = InHand
        /\ inFlash' = Tail(inFlash) /\ handled' = handled \cup {Head(inFlash).id}
    BY <1>6 DEF FlashHandles, ThreadsStay, EndsStay, InHand, threadVars, senderVars, history
  <2>3. Shown' = Shown
    BY <2>1, <2>2, TailIds DEF Shown
  <2> QED
    BY <2>2, <2>3, SenderAccount DEF EndsStay
<1>7. CASE ResponseOK \/ UNCHANGED vars
  <2>1. /\ ThreadsStay /\ EndsStay /\ g_QueueToFlash' = g_QueueToFlash /\ InHand' = InHand
        /\ Shown' = Shown
    BY <1>7 DEF ResponseOK, vars, ThreadsStay, EndsStay, InHand, Shown, threadVars,
       senderVars, flashVars, history
  <2> QED
    BY <2>1, SenderAccount DEF EndsStay
<1>8. CASE CloseApp
  <2>1. /\ ThreadsStay /\ EndsStay /\ g_QueueToFlash' = g_QueueToFlash /\ Shown' = Shown
        /\ spc = "close" /\ spc' = "closed" /\ cur' = cur
    BY <1>8 DEF CloseApp, ThreadsStay, EndsStay, Shown, threadVars, flashVars, history
  <2> QED
    BY <2>1, SenderAccount DEF EndsStay, InHand
<1> QED
  BY <1>1, <1>2, <1>3, <1>4, <1>5, <1>6, <1>7, <1>8, BumpAccount, CloseAccount, TrshowAccount,
     GetHeadAccount DEF Next, SenderStep, ThreadStep, Stopped

(* No call is lost and none ends twice: whatever the threads, the attempts  *)
(* and the late answers do, each call of TRSHOW and CLOSEAPP is being       *)
(* built, waiting, in OnCompleteTran's hand, confirmed, given up or         *)
(* refused, and only one of these.                                          *)
THEOREM CallsAccountedFor == Spec => [](OnePlaceEach /\ ShownWasTaken)
<1>1. Init => AccountInv
  <2> SUFFICES ASSUME Init PROVE AccountInv
    OBVIOUS
  <2>1. Ids(g_QueueToFlash) = {} /\ Ids(inFlash) = {} /\ Distinct(g_QueueToFlash)
    BY DEF Init, Ids, Distinct
  <2>2. Building = {} /\ ThreadsApart
    BY DEF Init, Building, ThreadsApart
  <2>3. InHand = {} /\ Ended = {} /\ Shown = {} /\ Waiting = {}
    BY <2>1 DEF Init, InHand, Sending, Ended, Shown, Waiting
  <2>4. 1 .. calls = {}
    BY DEF Init
  <2> QED
    BY <2>1, <2>2, <2>3, <2>4 DEF AccountInv, OnePlaceEach, ShownWasTaken, Ended
<1>2. IInv /\ AccountInv /\ [Next]_vars => AccountInv'
  BY AccountStep DEF IInv
<1>3. AccountInv => OnePlaceEach /\ ShownWasTaken
  BY DEF AccountInv
<1> QED
  BY <1>1, <1>2, <1>3, AlwaysInv, PTL DEF Spec
=============================================================================
