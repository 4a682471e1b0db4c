---------------------------- MODULE MessageQueue ----------------------------
(***************************************************************************)
(* CQueue (Queue.cpp): the linked-list queue between the terminal's        *)
(* threads.  AddTail runs in any number of producer threads and GetHead in *)
(* one consumer thread (g_QueueToFlash, g_QueueFromFlash and g_QueueLog    *)
(* each have exactly one).  Every access to a shared field that another    *)
(* thread can observe is a step of its own, because the length test of     *)
(* AddTail and the emptiness test of GetHead run without a lock and        *)
(* GetHead takes the tail lock only when the queue is short.               *)
(***************************************************************************)
EXTENDS Integers, Sequences, FiniteSets

CONSTANTS Producers,     \* threads that call AddTail
          Consumer,      \* the thread that calls GetHead
          Data,          \* message contents
          NoData,        \* the content of a node nobody filled in yet
          MaxQueueSize,  \* MAX_QUEUE_SIZE, 1000 in the code
          ShortQueue,    \* GetHead also takes the tail lock up to this length, 3
          ResetAt,       \* AddTail restarts the counters beyond this, 1000000
          Modulus,       \* the counters are unsigned int: 2^32
          MaxCalls       \* bound on the number of AddTail calls

ASSUME QueueAssumption ==
  /\ IsFiniteSet(Producers)
  /\ Consumer \notin Producers
  /\ NoData \notin Data
  /\ MaxQueueSize \in Nat \ {0}
  /\ ShortQueue \in Nat \ {0}
  /\ ResetAt \in Nat \ {0}
  /\ MaxCalls \in Nat
  /\ Modulus \in Nat /\ Modulus > MaxCalls

Null     == 0            \* a null pointer
Garbage  == -1           \* a next field that was not written yet
Unread   == -1           \* a counter the length test has not read yet
Free     == "free"       \* an unowned mutex
ASSUME FreeAssumption == Free \notin Producers \cup {Consumer}

Node == 1 .. MaxCalls    \* heap addresses; a fresh one per call of AddTail

VARIABLES
  pHead, pTail,          \* the list
  next, value,           \* fields of the nodes
  m_iRecvNum, m_iProcessNum,
  tailLock, headLock,    \* owner of m_QueueTailLock, m_QueueHeadLock
  ppc, node, arg, snap,  \* per producer: place in AddTail, its node, its message, counters read
  cpc,                   \* the consumer's place in GetHead
  allocated,             \* number of nodes allocated so far
  linked, taken,         \* history: nodes in the order of insertion, how many were removed
  got                    \* history: the messages GetHead returned

listVars == <<pHead, pTail, next, value, linked, taken, got>>
prodVars == <<ppc, node, arg, snap, allocated>>
vars == <<listVars, prodVars, m_iRecvNum, m_iProcessNum, tailLock, headLock, cpc>>

(* Unsigned subtraction of two counters.                                    *)
Minus(a, b) == IF a >= b THEN a - b ELSE a - b + Modulus

CQueue ==
  /\ pHead = Null /\ pTail = Null
  /\ m_iProcessNum = 0 /\ m_iRecvNum = 0

Init ==
  /\ CQueue
  /\ next = [n \in Node |-> Garbage]
  /\ value = [n \in Node |-> NoData]
  /\ tailLock = Free /\ headLock = Free
  /\ ppc = [p \in Producers |-> "idle"]
  /\ node = [p \in Producers |-> Null]
  /\ arg = [p \in Producers |-> NoData]
  /\ snap = [p \in Producers |-> [recv |-> Unread, proc |-> Unread]]
  /\ cpc = "idle"
  /\ allocated = 0 /\ linked = << >> /\ taken = 0 /\ got = << >>

-----------------------------------------------------------------------------
(* AddTail, one producer.                                                   *)

(* Queue *p = new Queue.                                                    *)
AddTail(p, d) ==
  /\ ppc[p] = "idle"
  /\ allocated < MaxCalls
  /\ allocated' = allocated + 1
  /\ node' = [node EXCEPT ![p] = allocated + 1]
  /\ arg' = [arg EXCEPT ![p] = d]
  /\ snap' = [snap EXCEPT ![p] = [recv |-> Unread, proc |-> Unread]]
  /\ ppc' = [ppc EXCEPT ![p] = "length"]
  /\ UNCHANGED <<listVars, m_iRecvNum, m_iProcessNum, tailLock, headLock, cpc>>

(* The operands of the length test: two unlocked reads of volatile fields,  *)
(* in an order the language leaves open.                                    *)
ReadRecvNum(p) ==
  /\ ppc[p] = "length" /\ snap[p].recv = Unread
  /\ snap' = [snap EXCEPT ![p].recv = m_iRecvNum]
  /\ UNCHANGED <<listVars, ppc, node, arg, allocated, m_iRecvNum, m_iProcessNum,
                 tailLock, headLock, cpc>>

ReadProcessNum(p) ==
  /\ ppc[p] = "length" /\ snap[p].proc = Unread
  /\ snap' = [snap EXCEPT ![p].proc = m_iProcessNum]
  /\ UNCHANGED <<listVars, ppc, node, arg, allocated, m_iRecvNum, m_iProcessNum,
                 tailLock, headLock, cpc>>

TooLong_Exclusive(p) == Minus(snap[p].recv, snap[p].proc) > MaxQueueSize

TooLong(p) == Minus(snap[p].recv, snap[p].proc) >= MaxQueueSize

TestLength(p) ==
  /\ ppc[p] = "length" /\ snap[p].recv # Unread /\ snap[p].proc # Unread
  /\ ppc' = [ppc EXCEPT ![p] = IF TooLong(p) THEN "refused" ELSE "lock"]
  /\ UNCHANGED <<listVars, node, arg, snap, allocated, m_iRecvNum, m_iProcessNum,
                 tailLock, headLock, cpc>>

(* return FALSE; the node allocated for the message is not freed.           *)
ReturnFalse(p) ==
  /\ ppc[p] = "refused"
  /\ ppc' = [ppc EXCEPT ![p] = "idle"]
  /\ UNCHANGED <<listVars, node, arg, snap, allocated, m_iRecvNum, m_iProcessNum,
                 tailLock, headLock, cpc>>

LockTail(p) ==
  /\ ppc[p] = "lock" /\ tailLock = Free
  /\ tailLock' = p
  /\ ppc' = [ppc EXCEPT ![p] = "count"]
  /\ UNCHANGED <<listVars, node, arg, snap, allocated, m_iRecvNum, m_iProcessNum,
                 headLock, cpc>>

CountReceived(p) ==
  /\ ppc[p] = "count"
  /\ m_iRecvNum' = m_iRecvNum + 1
  /\ ppc' = [ppc EXCEPT ![p] = "branch"]
  /\ UNCHANGED <<listVars, node, arg, snap, allocated, m_iProcessNum,
                 tailLock, headLock, cpc>>

(* if(NULL == pHead), and the first half of the counter reset.              *)
TestHead(p) ==
  /\ ppc[p] = "branch"
  /\ \/ /\ pHead # Null
        /\ ppc' = [ppc EXCEPT ![p] = "link"]
        /\ UNCHANGED m_iRecvNum
     \/ /\ pHead = Null /\ m_iRecvNum <= ResetAt
        /\ ppc' = [ppc EXCEPT ![p] = "first"]
        /\ UNCHANGED m_iRecvNum
     \/ /\ pHead = Null /\ m_iRecvNum > ResetAt
        /\ ppc' = [ppc EXCEPT ![p] = "reset"]
        /\ m_iRecvNum' = 1
  /\ UNCHANGED <<listVars, node, arg, snap, allocated, m_iProcessNum,
                 tailLock, headLock, cpc>>

ResetProcessNum_Forgotten(p) ==
  /\ ppc[p] = "reset"
  /\ ppc' = [ppc EXCEPT ![p] = "first"]
  /\ UNCHANGED <<listVars, node, arg, snap, allocated, m_iRecvNum, m_iProcessNum,
                 tailLock, headLock, cpc>>

ResetProcessNum(p) ==
  /\ ppc[p] = "reset"
  /\ m_iProcessNum' = 0
  /\ ppc' = [ppc EXCEPT ![p] = "first"]
  /\ UNCHANGED <<listVars, node, arg, snap, allocated, m_iRecvNum,
                 tailLock, headLock, cpc>>

(* The node becomes the whole list.                                         *)
LinkFirst(p) ==
  /\ ppc[p] = "first"
  /\ value' = [value EXCEPT ![node[p]] = arg[p]]
  /\ next' = [next EXCEPT ![node[p]] = Null]
  /\ pTail' = node[p] /\ pHead' = node[p]
  /\ linked' = Append(linked, node[p])
  /\ ppc' = [ppc EXCEPT ![p] = "unlock"]
  /\ UNCHANGED <<taken, got, node, arg, snap, allocated, m_iRecvNum, m_iProcessNum,
                 tailLock, headLock, cpc>>

(* pTail->next = p, while p->next is still uninitialised.                   *)
LinkNext(p) ==
  /\ ppc[p] = "link"
  /\ next' = [next EXCEPT ![pTail] = node[p]]
  /\ ppc' = [ppc EXCEPT ![p] = "fill"]
  /\ UNCHANGED <<pHead, pTail, value, linked, taken, got, node, arg, snap, allocated,
                 m_iRecvNum, m_iProcessNum, tailLock, headLock, cpc>>

FillNode_NoContent(p) ==
  /\ ppc[p] = "fill"
  /\ next' = [next EXCEPT ![node[p]] = Null]
  /\ pTail' = node[p]
  /\ linked' = Append(linked, node[p])
  /\ ppc' = [ppc EXCEPT ![p] = "unlock"]
  /\ UNCHANGED <<pHead, value, taken, got, node, arg, snap, allocated, m_iRecvNum,
                 m_iProcessNum, tailLock, headLock, cpc>>

FillNode_KeepTail(p) ==
  /\ ppc[p] = "fill"
  /\ value' = [value EXCEPT ![node[p]] = arg[p]]
  /\ next' = [next EXCEPT ![node[p]] = Null]
  /\ linked' = Append(linked, node[p])
  /\ ppc' = [ppc EXCEPT ![p] = "unlock"]
  /\ UNCHANGED <<pHead, pTail, taken, got, node, arg, snap, allocated, m_iRecvNum,
                 m_iProcessNum, tailLock, headLock, cpc>>

FillNode(p) ==
  /\ ppc[p] = "fill"
  /\ value' = [value EXCEPT ![node[p]] = arg[p]]
  /\ next' = [next EXCEPT ![node[p]] = Null]
  /\ pTail' = node[p]
  /\ linked' = Append(linked, node[p])
  /\ ppc' = [ppc EXCEPT ![p] = "unlock"]
  /\ UNCHANGED <<pHead, taken, got, node, arg, snap, allocated, m_iRecvNum,
                 m_iProcessNum, tailLock, headLock, cpc>>

UnlockTail(p) ==
  /\ ppc[p] = "unlock"
  /\ tailLock' = Free
  /\ ppc' = [ppc EXCEPT ![p] = "idle"]
  /\ UNCHANGED <<listVars, node, arg, snap, allocated, m_iRecvNum, m_iProcessNum,
                 headLock, cpc>>

-----------------------------------------------------------------------------
(* GetHead, the consumer.                                                   *)

IsEmpty_SingleNode == pHead = pTail

(* IsEmpty, and GetHead's own unlocked test: an empty queue returns 0.      *)
IsEmpty == pHead = Null

TestEmpty ==
  /\ cpc = "idle"
  /\ cpc' = IF IsEmpty THEN "idle" ELSE "head"
  /\ UNCHANGED <<listVars, prodVars, m_iRecvNum, m_iProcessNum, tailLock, headLock>>

LockHead ==
  /\ cpc = "head" /\ headLock = Free
  /\ headLock' = Consumer
  /\ cpc' = "count"
  /\ UNCHANGED <<listVars, prodVars, m_iRecvNum, m_iProcessNum, tailLock>>

CountProcessed ==
  /\ cpc = "count"
  /\ m_iProcessNum' = m_iProcessNum + 1
  /\ cpc' = "decide"
  /\ UNCHANGED <<listVars, prodVars, m_iRecvNum, tailLock, headLock>>

IsShort_ZeroOnly == Minus(m_iRecvNum, m_iProcessNum) <= 0

IsShort == Minus(m_iRecvNum, m_iProcessNum) <= ShortQueue

DecideTailLock ==
  /\ cpc = "decide"
  /\ cpc' = IF IsShort THEN "tail" ELSE "take"
  /\ UNCHANGED <<listVars, prodVars, m_iRecvNum, m_iProcessNum, tailLock, headLock>>

LockTailToo ==
  /\ cpc = "tail" /\ tailLock = Free
  /\ tailLock' = Consumer
  /\ cpc' = "take"
  /\ UNCHANGED <<listVars, prodVars, m_iRecvNum, m_iProcessNum, headLock>>

(* Copy the head, advance pHead, delete the node.                           *)
Take ==
  /\ cpc = "take"
  /\ got' = Append(got, value[pHead])
  /\ pHead' = next[pHead]
  /\ taken' = taken + 1
  /\ cpc' = "release"
  /\ UNCHANGED <<pTail, next, value, linked, prodVars, m_iRecvNum, m_iProcessNum,
                 tailLock, headLock>>

Release ==
  /\ cpc = "release"
  /\ tailLock' = IF tailLock = Consumer THEN Free ELSE tailLock
  /\ headLock' = Free
  /\ cpc' = "idle"
  /\ UNCHANGED <<listVars, prodVars, m_iRecvNum, m_iProcessNum>>

-----------------------------------------------------------------------------
ProducerStep(p) ==
  \/ ReadRecvNum(p) \/ ReadProcessNum(p) \/ TestLength(p) \/ ReturnFalse(p)
  \/ LockTail(p) \/ CountReceived(p) \/ TestHead(p) \/ ResetProcessNum(p)
  \/ LinkFirst(p) \/ LinkNext(p) \/ FillNode(p) \/ UnlockTail(p)

ConsumerStep ==
  \/ TestEmpty \/ LockHead \/ CountProcessed \/ DecideTailLock
  \/ LockTailToo \/ Take \/ Release

Next ==
  \/ ConsumerStep
  \/ \E p \in Producers : ProducerStep(p) \/ \E d \in Data : AddTail(p, d)

Spec == Init /\ [][Next]_vars

(* The thread that called AddTail or GetHead keeps running; nobody has to   *)
(* start another AddTail.                                                   *)
FairSpec ==
  /\ Spec
  /\ WF_vars(ConsumerStep)
  /\ \A p \in Producers : WF_vars(ProducerStep(p))
-----------------------------------------------------------------------------
(* Properties.                                                              *)

PlacesInAddTail ==
  {"idle", "length", "refused", "lock", "count", "branch", "reset", "first",
   "link", "fill", "unlock"}
PlacesInGetHead == {"idle", "head", "count", "decide", "tail", "take", "release"}
InTailSection == {"count", "branch", "reset", "first", "link", "fill", "unlock"}

(* Every variable stays in its range: in particular pHead never takes an    *)
(* uninitialised next field, and every node in the list carries a message.  *)
TypeOK ==
  /\ pHead \in Node \cup {Null} /\ pTail \in Node \cup {Null}
  /\ next \in [Node -> Node \cup {Null, Garbage}]
  /\ value \in [Node -> Data \cup {NoData}]
  /\ m_iRecvNum \in Nat /\ m_iProcessNum \in Nat
  /\ tailLock \in Producers \cup {Consumer, Free}
  /\ headLock \in {Consumer, Free}
  /\ ppc \in [Producers -> PlacesInAddTail]
  /\ node \in [Producers -> Node \cup {Null}]
  /\ arg \in [Producers -> Data \cup {NoData}]
  /\ snap \in [Producers -> [recv : Nat \cup {Unread}, proc : Nat \cup {Unread}]]
  /\ cpc \in PlacesInGetHead
  /\ allocated \in 0 .. MaxCalls
  /\ linked \in Seq(Node)
  /\ \A i \in 1 .. Len(linked) : value[linked[i]] \in Data
  /\ taken \in Nat
  /\ got \in Seq(Data)

(* The nodes of the list: inserted and not yet deleted by GetHead.          *)
Live(n) == \E i \in taken + 1 .. Len(linked) : linked[i] = n

(* GetHead never follows a null, uninitialised or freed pointer, and the    *)
(* "pTail->next = p" of AddTail never writes to a node that GetHead has     *)
(* deleted.  This is what the tail lock in a short queue is for.            *)
NoBadPointer ==
  /\ cpc = "take" => Live(pHead) /\ next[pHead] # Garbage
  /\ \A p \in Producers : ppc[p] = "link" => Live(pTail)

(* The subtraction of GetHead's length test never wraps below zero: a       *)
(* wrapped length would look long and skip the tail lock.                   *)
LengthTestSound == cpc = "decide" => m_iRecvNum >= m_iProcessNum

(* MAX_QUEUE_SIZE is tested without a lock, so it can be exceeded, but by   *)
(* no more than one message per thread that calls AddTail.                  *)
BoundedOvershoot ==
  Len(linked) - taken <= MaxQueueSize + Cardinality(Producers)

(* The queue hands out exactly the accepted messages, in their order.       *)
Fifo == INSTANCE FifoQueue
          WITH Data <- Data,
               sent <- [i \in 1 .. Len(linked) |-> value[linked[i]]],
               received <- got
FifoSpec == Fifo!Spec

(* Every message that AddTail accepted is eventually returned by GetHead.   *)
Delivered ==
  \A n \in 1 .. MaxCalls : (Len(linked) >= n) ~> (taken >= n)
=============================================================================
