------------------------- MODULE MessageQueueProofs -------------------------
(***************************************************************************)
(* Proofs about CQueue for any number of producers, any bound on the       *)
(* calls, and any positive threshold of GetHead's length test.             *)
(***************************************************************************)
EXTENDS MessageQueue, FiniteSetTheorems, TLAPS

Size == Len(linked) - taken

(* AddTail has counted its message and not yet inserted it.                 *)
Counted(p) == ppc[p] \in {"branch", "reset", "first", "link", "fill"}
InFlight == IF \E p \in Producers : Counted(p) THEN 1 ELSE 0
(* GetHead has counted its message and not yet removed it.                  *)
OutFlight == IF cpc \in {"decide", "tail", "take"} THEN 1 ELSE 0

LockInv ==
  /\ \A p \in Producers : ppc[p] \in InTailSection <=> tailLock = p
  /\ tailLock = Consumer => cpc \in {"take", "release"}

CountInv ==
  /\ (\A p \in Producers : ppc[p] # "reset")
        => m_iRecvNum - m_iProcessNum = Size + InFlight - OutFlight
  /\ \A p \in Producers : ppc[p] = "reset" => m_iRecvNum = 1

(* The fields pHead, pTail and next describe the nodes inserted and not     *)
(* yet removed.                                                             *)
ShapeInv ==
  /\ taken <= Len(linked)
  /\ pHead = IF taken < Len(linked) THEN linked[taken + 1] ELSE Null
  /\ taken < Len(linked) => pTail = linked[Len(linked)]
  /\ \A i \in taken + 1 .. Len(linked) - 1 : next[linked[i]] = linked[i + 1]
  /\ taken < Len(linked) /\ (\A p \in Producers : ppc[p] # "fill")
        => next[linked[Len(linked)]] = Null
  /\ \A p \in Producers : taken < Len(linked) /\ ppc[p] = "fill"
        => next[linked[Len(linked)]] = node[p]

PlaceInv ==
  /\ \A p \in Producers : ppc[p] \in {"reset", "first"} => taken = Len(linked)
  /\ \A p \in Producers : ppc[p] \in {"link", "fill"} => taken < Len(linked)
  /\ cpc \in {"head", "count", "decide", "tail", "take"} => taken < Len(linked)
  /\ cpc = "take" /\ tailLock # Consumer => taken + 1 < Len(linked)

(* A node being inserted belongs to one producer and is not in the list.    *)
Busy(p) == ppc[p] \in PlacesInAddTail \ {"idle", "refused", "unlock"}
FreshInv ==
  /\ \A i \in 1 .. Len(linked) : linked[i] <= allocated
  /\ \A i, j \in 1 .. Len(linked) : linked[i] = linked[j] => i = j
  /\ \A p \in Producers : Busy(p) =>
       /\ node[p] \in 1 .. allocated
       /\ arg[p] \in Data
       /\ \A i \in 1 .. Len(linked) : linked[i] # node[p]
       /\ \A q \in Producers : Busy(q) /\ node[q] = node[p] => p = q

HistoryInv ==
  /\ Len(got) = taken
  /\ \A i \in 1 .. taken : got[i] = value[linked[i]]

IInv == TypeOK /\ LockInv /\ CountInv /\ ShapeInv /\ PlaceInv /\ FreshInv /\ HistoryInv

(* The inductive invariant holds initially.                                 *)
LEMMA InitInv == Init => IInv
  BY QueueAssumption, FreeAssumption
  DEF Init, CQueue, IInv, TypeOK, LockInv, CountInv, ShapeInv, PlaceInv, FreshInv, HistoryInv,
      Size, InFlight, OutFlight, Counted, Busy, Node, Null, Unread, Garbage, Free,
      PlacesInAddTail, PlacesInGetHead, InTailSection

(* At most one producer is in the section that the tail lock protects.       *)
LEMMA TailSectionExclusive ==
  ASSUME IInv, NEW p \in Producers, NEW q \in Producers,
         ppc[p] \in InTailSection, ppc[q] \in InTailSection
  PROVE  p = q
BY DEF IInv, LockInv

(* What inserting a node changes in the list.                                *)
Inserted(p) ==
  /\ node[p] \in Node /\ node[p] <= allocated /\ arg[p] \in Data
  /\ linked' \in Seq(Node) /\ Len(linked') = Len(linked) + 1
  /\ linked'[Len(linked) + 1] = node[p]
  /\ value'[node[p]] = arg[p] /\ next'[node[p]] = Null
  /\ \A i \in 1 .. Len(linked) :
       /\ linked'[i] = linked[i] /\ linked[i] \in Node /\ linked[i] # node[p]
       /\ value'[linked[i]] = value[linked[i]]
       /\ next'[linked[i]] = next[linked[i]]
  /\ \A q \in Producers : ~Counted(q)' /\ ppc[q] # "reset"

LEMMA InsertFacts ==
  ASSUME IInv, NEW p \in Producers, LinkFirst(p) \/ FillNode(p)
  PROVE  Inserted(p)
<1>1. /\ ppc[p] \in {"first", "fill"} /\ linked' = Append(linked, node[p])
      /\ value' = [value EXCEPT ![node[p]] = arg[p]]
      /\ next' = [next EXCEPT ![node[p]] = Null]
      /\ ppc' = [ppc EXCEPT ![p] = "unlock"]
  BY DEF LinkFirst, FillNode
<1>2. Busy(p)
  BY <1>1 DEF Busy, PlacesInAddTail
<1>3. /\ node[p] \in 1 .. allocated /\ arg[p] \in Data
      /\ \A i \in 1 .. Len(linked) : linked[i] # node[p]
  BY <1>2 DEF IInv, FreshInv
<1>4. node[p] \in Node /\ node[p] <= allocated
  BY <1>3, QueueAssumption DEF IInv, TypeOK, Node
<1>5. /\ linked' \in Seq(Node) /\ Len(linked') = Len(linked) + 1
      /\ linked'[Len(linked) + 1] = node[p]
      /\ \A i \in 1 .. Len(linked) : linked'[i] = linked[i] /\ linked[i] \in Node
  BY <1>1, <1>4 DEF IInv, TypeOK
<1>6. \A q \in Producers \ {p} : ~Counted(q)
  BY <1>1, TailSectionExclusive DEF Counted, InTailSection
<1>7. \A q \in Producers : ~Counted(q)' /\ ppc[q] # "reset"
  BY <1>1, <1>6 DEF Counted, IInv, TypeOK
<1>8. value'[node[p]] = arg[p] /\ next'[node[p]] = Null
  BY <1>1, <1>4 DEF IInv, TypeOK
<1>9. \A i \in 1 .. Len(linked) : value'[linked[i]] = value[linked[i]]
                                  /\ next'[linked[i]] = next[linked[i]]
  BY <1>1, <1>3, <1>5 DEF IInv, TypeOK
<1>. QED
  BY <1>3, <1>4, <1>5, <1>7, <1>8, <1>9 DEF Inserted

(* What GetHead removes.                                                     *)
LEMMA TakeFacts ==
  ASSUME IInv, cpc = "take"
  PROVE  /\ taken < Len(linked)
         /\ pHead = linked[taken + 1] /\ pHead \in Node /\ value[pHead] \in Data
         /\ next[pHead] = IF taken + 1 < Len(linked) THEN linked[taken + 2] ELSE Null
         /\ \A p \in Producers :
              /\ ppc[p] \notin {"reset", "first"}
              /\ ppc[p] \in {"link", "fill"} => taken + 1 < Len(linked)
<1> USE DEF IInv
<1>1. taken < Len(linked)
  BY DEF PlaceInv
<1>2. taken + 1 \in 1 .. Len(linked) /\ linked[taken + 1] \in Node
  BY <1>1 DEF TypeOK
<1>3. pHead = linked[taken + 1] /\ pHead \in Node /\ value[pHead] \in Data
  BY <1>1, <1>2 DEF ShapeInv, TypeOK
<1>4. \A p \in Producers :
         /\ ppc[p] \notin {"reset", "first"}
         /\ ppc[p] \in {"link", "fill"} => taken + 1 < Len(linked)
  BY <1>1, QueueAssumption DEF PlaceInv, LockInv, InTailSection
<1>5. CASE taken + 1 < Len(linked)
  <2>1. taken + 1 \in taken + 1 .. Len(linked) - 1
    BY <1>5 DEF TypeOK
  <2>2. next[linked[taken + 1]] = linked[taken + 1 + 1]
    BY <2>1 DEF ShapeInv
  <2>. QED  BY <2>2, <1>1, <1>3, <1>4, <1>5 DEF TypeOK
<1>6. CASE ~(taken + 1 < Len(linked))
  <2>1. Len(linked) = taken + 1
    BY <1>1, <1>6 DEF TypeOK
  <2>2. \A p \in Producers : ppc[p] # "fill"
    BY <1>4, <1>6
  <2>. QED  BY <2>1, <2>2, <1>1, <1>3, <1>4 DEF ShapeInv
<1>. QED  BY <1>1, <1>3, <1>4, <1>5, <1>6

(* Each step of AddTail preserves the inductive invariant.                   *)
LEMMA AddTailInv ==
  ASSUME IInv, NEW p \in Producers, NEW d \in Data, AddTail(p, d)
  PROVE  IInv'
<1> USE QueueAssumption, FreeAssumption DEF IInv, AddTail, listVars, prodVars
<1>1. TypeOK'  BY DEF TypeOK, PlacesInAddTail, PlacesInGetHead, Node, Null, Unread, Garbage
<1>2. LockInv'  BY DEF LockInv, InTailSection, TypeOK, PlacesInAddTail, Free
<1>3. CountInv'  BY DEF CountInv, Size, InFlight, OutFlight, Counted, TypeOK
<1>4. ShapeInv'  BY DEF ShapeInv, TypeOK, Node, Null
<1>5. PlaceInv'  BY DEF PlaceInv, TypeOK
<1>6. FreshInv'  BY SMTT(30) DEF FreshInv, Busy, TypeOK, Node, PlacesInAddTail
<1>7. HistoryInv'  BY DEF HistoryInv, TypeOK, Node
<1>. QED  BY <1>1, <1>2, <1>3, <1>4, <1>5, <1>6, <1>7

LEMMA ReadRecvNumInv ==
  ASSUME IInv, NEW p \in Producers, ReadRecvNum(p)
  PROVE  IInv'
<1> USE QueueAssumption, FreeAssumption DEF IInv, ReadRecvNum, listVars, prodVars
<1>1. TypeOK'
  <2>1. snap[p] \in [recv : Nat \cup {Unread}, proc : Nat \cup {Unread}]
    BY DEF TypeOK
  <2>2. [snap[p] EXCEPT !.recv = m_iRecvNum] \in [recv : Nat \cup {Unread}, proc : Nat \cup {Unread}]
    BY <2>1 DEF TypeOK
  <2>3. snap' \in [Producers -> [recv : Nat \cup {Unread}, proc : Nat \cup {Unread}]]
    BY <2>2 DEF TypeOK
  <2>. QED  BY <2>3 DEF TypeOK
<1>2. LockInv'  BY DEF LockInv, InTailSection, TypeOK, PlacesInAddTail, Free
<1>3. CountInv'  BY DEF CountInv, Size, InFlight, OutFlight, Counted, TypeOK
<1>4. ShapeInv'  BY DEF ShapeInv, TypeOK, Node, Null
<1>5. PlaceInv'  BY DEF PlaceInv, TypeOK
<1>6. FreshInv'  BY SMTT(30) DEF FreshInv, Busy, TypeOK, Node, PlacesInAddTail
<1>7. HistoryInv'  BY DEF HistoryInv, TypeOK, Node
<1>. QED  BY <1>1, <1>2, <1>3, <1>4, <1>5, <1>6, <1>7

LEMMA ReadProcessNumInv ==
  ASSUME IInv, NEW p \in Producers, ReadProcessNum(p)
  PROVE  IInv'
<1> USE QueueAssumption, FreeAssumption DEF IInv, ReadProcessNum, listVars, prodVars
<1>1. TypeOK'
  <2>1. snap[p] \in [recv : Nat \cup {Unread}, proc : Nat \cup {Unread}]
    BY DEF TypeOK
  <2>2. [snap[p] EXCEPT !.proc = m_iProcessNum] \in [recv : Nat \cup {Unread}, proc : Nat \cup {Unread}]
    BY <2>1 DEF TypeOK
  <2>3. snap' \in [Producers -> [recv : Nat \cup {Unread}, proc : Nat \cup {Unread}]]
    BY <2>2 DEF TypeOK
  <2>. QED  BY <2>3 DEF TypeOK
<1>2. LockInv'  BY DEF LockInv, InTailSection, TypeOK, PlacesInAddTail, Free
<1>3. CountInv'  BY DEF CountInv, Size, InFlight, OutFlight, Counted, TypeOK
<1>4. ShapeInv'  BY DEF ShapeInv, TypeOK, Node, Null
<1>5. PlaceInv'  BY DEF PlaceInv, TypeOK
<1>6. FreshInv'  BY SMTT(30) DEF FreshInv, Busy, TypeOK, Node, PlacesInAddTail
<1>7. HistoryInv'  BY DEF HistoryInv, TypeOK, Node
<1>. QED  BY <1>1, <1>2, <1>3, <1>4, <1>5, <1>6, <1>7

LEMMA TestLengthInv ==
  ASSUME IInv, NEW p \in Producers, TestLength(p)
  PROVE  IInv'
<1> USE QueueAssumption, FreeAssumption DEF IInv, TestLength, listVars, prodVars
<1>1. TypeOK'  BY DEF TypeOK, PlacesInAddTail, PlacesInGetHead, Node, Null, Unread, Garbage
<1>2. LockInv'  BY DEF LockInv, InTailSection, TypeOK, PlacesInAddTail, Free
<1>3. CountInv'  BY DEF CountInv, Size, InFlight, OutFlight, Counted, TypeOK
<1>4. ShapeInv'  BY DEF ShapeInv, TypeOK, Node, Null
<1>5. PlaceInv'  BY DEF PlaceInv, TypeOK
<1>6. FreshInv'  BY DEF FreshInv, Busy, TypeOK, Node, PlacesInAddTail
<1>7. HistoryInv'  BY DEF HistoryInv, TypeOK, Node
<1>. QED  BY <1>1, <1>2, <1>3, <1>4, <1>5, <1>6, <1>7

LEMMA ReturnFalseInv ==
  ASSUME IInv, NEW p \in Producers, ReturnFalse(p)
  PROVE  IInv'
<1> USE QueueAssumption, FreeAssumption DEF IInv, ReturnFalse, listVars, prodVars
<1>1. TypeOK'  BY DEF TypeOK, PlacesInAddTail, PlacesInGetHead, Node, Null, Unread, Garbage
<1>2. LockInv'  BY DEF LockInv, InTailSection, TypeOK, PlacesInAddTail, Free
<1>3. CountInv'  BY DEF CountInv, Size, InFlight, OutFlight, Counted, TypeOK
<1>4. ShapeInv'  BY DEF ShapeInv, TypeOK, Node, Null
<1>5. PlaceInv'  BY DEF PlaceInv, TypeOK
<1>6. FreshInv'  BY DEF FreshInv, Busy, TypeOK, Node, PlacesInAddTail
<1>7. HistoryInv'  BY DEF HistoryInv, TypeOK, Node
<1>. QED  BY <1>1, <1>2, <1>3, <1>4, <1>5, <1>6, <1>7

LEMMA LockTailInv ==
  ASSUME IInv, NEW p \in Producers, LockTail(p)
  PROVE  IInv'
<1> USE QueueAssumption, FreeAssumption DEF IInv, LockTail, listVars, prodVars
<1>1. TypeOK'  BY DEF TypeOK, PlacesInAddTail, PlacesInGetHead, Node, Null, Unread, Garbage
<1>2. LockInv'  BY DEF LockInv, InTailSection, TypeOK, PlacesInAddTail, Free
<1>3. CountInv'  BY DEF CountInv, Size, InFlight, OutFlight, Counted, TypeOK
<1>4. ShapeInv'  BY DEF ShapeInv, TypeOK, Node, Null
<1>5. PlaceInv'  BY DEF PlaceInv, TypeOK
<1>6. FreshInv'  BY DEF FreshInv, Busy, TypeOK, Node, PlacesInAddTail
<1>7. HistoryInv'  BY DEF HistoryInv, TypeOK, Node
<1>. QED  BY <1>1, <1>2, <1>3, <1>4, <1>5, <1>6, <1>7

LEMMA CountReceivedInv ==
  ASSUME IInv, NEW p \in Producers, CountReceived(p)
  PROVE  IInv'
<1> USE QueueAssumption, FreeAssumption DEF IInv, CountReceived, listVars, prodVars
<1>1. TypeOK'  BY DEF TypeOK, PlacesInAddTail, PlacesInGetHead, Node, Null, Unread, Garbage
<1>2. LockInv'  BY DEF LockInv, InTailSection, TypeOK, PlacesInAddTail, Free
<1>3. CountInv'
  <2>1. \A q \in Producers : ~Counted(q)
    BY DEF LockInv, InTailSection, Counted
  <2>2. Counted(p)'
    BY DEF Counted, TypeOK
  <2>3. InFlight = 0 /\ InFlight' = 1
    BY <2>1, <2>2 DEF InFlight
  <2>4. \A q \in Producers : ppc[q] # "reset" /\ ppc'[q] # "reset"
    BY <2>1 DEF Counted, TypeOK
  <2>. QED  BY <2>3, <2>4 DEF CountInv, Size, OutFlight, TypeOK
<1>4. ShapeInv'  BY DEF ShapeInv, TypeOK, Node, Null
<1>5. PlaceInv'  BY DEF PlaceInv, TypeOK
<1>6. FreshInv'  BY DEF FreshInv, Busy, TypeOK, Node, PlacesInAddTail
<1>7. HistoryInv'  BY DEF HistoryInv, TypeOK, Node
<1>. QED  BY <1>1, <1>2, <1>3, <1>4, <1>5, <1>6, <1>7

LEMMA TestHeadInv ==
  ASSUME IInv, NEW p \in Producers, TestHead(p)
  PROVE  IInv'
<1> USE QueueAssumption, FreeAssumption DEF IInv, TestHead, listVars, prodVars
<1>1. TypeOK'
  <2>1. \E place \in {"link", "first", "reset"} : ppc' = [ppc EXCEPT ![p] = place]
    OBVIOUS
  <2>2. ppc' \in [Producers -> PlacesInAddTail]
    BY <2>1 DEF TypeOK, PlacesInAddTail
  <2>3. m_iRecvNum' \in Nat
    BY DEF TypeOK
  <2>. QED  BY <2>2, <2>3 DEF TypeOK
<1>2. LockInv'  BY DEF LockInv, InTailSection, TypeOK, PlacesInAddTail, Free
<1>3. CountInv'
  <2>1. \A q \in Producers \ {p} : ~Counted(q)
    BY TailSectionExclusive DEF InTailSection, Counted
  <2>2. Counted(p) /\ Counted(p)'
    BY DEF Counted, TypeOK
  <2>3. InFlight = 1 /\ InFlight' = 1
    BY <2>2 DEF InFlight
  <2>4. \A q \in Producers : ppc[q] # "reset"
    BY <2>1 DEF Counted
  <2>5. ppc'[p] # "reset" => UNCHANGED m_iRecvNum
    BY DEF TypeOK
  <2>6. \A q \in Producers : ppc'[q] = "reset" => m_iRecvNum' = 1
    BY <2>4 DEF TypeOK
  <2>. QED  BY <2>3, <2>4, <2>5, <2>6 DEF CountInv, Size, OutFlight
<1>4. ShapeInv'  BY SMTT(30) DEF ShapeInv, TypeOK, Node, Null
<1>5. PlaceInv'
  <2>1. \A q \in Producers \ {p} : ppc'[q] = ppc[q]
    BY DEF TypeOK
  <2>2. ppc'[p] = IF pHead # Null THEN "link" ELSE ppc'[p]
    BY DEF TypeOK
  <2>3. pHead = Null => taken = Len(linked) /\ ppc'[p] \in {"first", "reset"}
    BY DEF ShapeInv, TypeOK, Node, Null
  <2>4. pHead # Null => taken < Len(linked)
    BY DEF ShapeInv, TypeOK
  <2>. QED  BY <2>1, <2>2, <2>3, <2>4 DEF PlaceInv
<1>6. FreshInv'
  <2>1. \A q \in Producers : Busy(q)' => Busy(q)
    BY DEF TypeOK, Busy, PlacesInAddTail
  <2>. QED  BY <2>1 DEF FreshInv
<1>7. HistoryInv'  BY DEF HistoryInv, TypeOK, Node
<1>. QED  BY <1>1, <1>2, <1>3, <1>4, <1>5, <1>6, <1>7

LEMMA ResetProcessNumInv ==
  ASSUME IInv, NEW p \in Producers, ResetProcessNum(p)
  PROVE  IInv'
<1> USE QueueAssumption, FreeAssumption DEF IInv, ResetProcessNum, listVars, prodVars
<1>1. TypeOK'  BY DEF TypeOK, PlacesInAddTail, PlacesInGetHead, Node, Null, Unread, Garbage
<1>2. LockInv'  BY DEF LockInv, InTailSection, TypeOK, PlacesInAddTail, Free
<1>3. CountInv'
  <2>1. \A q \in Producers \ {p} : ~Counted(q)
    BY TailSectionExclusive DEF InTailSection, Counted
  <2>2. Counted(p)' /\ m_iRecvNum' = 1 /\ m_iProcessNum' = 0
    BY DEF Counted, TypeOK, CountInv
  <2>3. InFlight' = 1
    BY <2>2 DEF InFlight
  <2>4. Size' = 0 /\ OutFlight' = 0
    BY DEF Size, OutFlight, PlaceInv, TypeOK
  <2>5. \A q \in Producers : ppc'[q] # "reset"
    BY <2>1 DEF Counted, TypeOK
  <2>. QED  BY <2>2, <2>3, <2>4, <2>5 DEF CountInv
<1>4. ShapeInv'  BY DEF ShapeInv, TypeOK, Node, Null
<1>5. PlaceInv'  BY DEF PlaceInv, TypeOK
<1>6. FreshInv'  BY DEF FreshInv, Busy, TypeOK, Node, PlacesInAddTail
<1>7. HistoryInv'  BY DEF HistoryInv, TypeOK, Node
<1>. QED  BY <1>1, <1>2, <1>3, <1>4, <1>5, <1>6, <1>7

LEMMA LinkFirstInv ==
  ASSUME IInv, NEW p \in Producers, LinkFirst(p)
  PROVE  IInv'
<1> USE QueueAssumption, FreeAssumption DEF IInv, LinkFirst, listVars, prodVars
<1>0. Inserted(p)  BY InsertFacts
<1>1. TypeOK'
  <2>1. linked' \in Seq(Node) /\ \A i \in 1 .. Len(linked') : value'[linked'[i]] \in Data
    BY <1>0 DEF Inserted, TypeOK
  <2>. QED  BY <2>1, <1>0 DEF Inserted, TypeOK, PlacesInAddTail
<1>2. LockInv'  BY DEF LockInv, InTailSection, TypeOK, PlacesInAddTail, Free
<1>3. CountInv'
  <2>1. InFlight = 1
    BY DEF InFlight, Counted
  <2>2. \A q \in Producers : ~Counted(q)'
    BY <1>0 DEF Inserted
  <2>3. InFlight' = 0
    BY <2>2 DEF InFlight
  <2>4. \A q \in Producers : ppc[q] # "reset" /\ ppc'[q] # "reset"
    BY <2>2, <1>0 DEF Inserted, Counted
  <2>5. Size' = Size + 1
    BY <1>0 DEF Inserted, Size, TypeOK
  <2>. QED  BY <2>1, <2>3, <2>4, <2>5, SMTT(30) DEF CountInv, OutFlight, Size, TypeOK
<1>4. ShapeInv'
  <2>1. taken = Len(linked)
    BY DEF PlaceInv
  <2>2. \A q \in Producers : ppc'[q] # "fill"
    BY <1>0 DEF Inserted, Counted, TypeOK
  <2>3. Len(linked') = taken' + 1 /\ linked'[taken' + 1] = node[p] /\ next'[node[p]] = Null
    BY <2>1, <1>0 DEF Inserted, TypeOK
  <2>. QED  BY <2>2, <2>3 DEF ShapeInv, TypeOK
<1>5. PlaceInv'
  <2>1. taken = Len(linked) /\ Len(linked') = taken + 1
    BY <1>0 DEF Inserted, PlaceInv
  <2>2. \A q \in Producers : ~Counted(q)'
    BY <1>0 DEF Inserted, Counted, TypeOK
  <2>. QED  BY <2>1, <2>2 DEF PlaceInv, TypeOK, Counted
<1>6. FreshInv'
  <2>1. \A q \in Producers : Busy(q)' => Busy(q) /\ q # p
    BY DEF Busy, TypeOK, PlacesInAddTail
  <2>2. Busy(p)
    BY DEF Busy, PlacesInAddTail
  <2>3. \A q \in Producers : Busy(q)' => node[q] # node[p]
    BY <2>1, <2>2 DEF FreshInv
  <2>4. \A i \in 1 .. Len(linked') : linked'[i] <= allocated
    BY <1>0 DEF Inserted, FreshInv, TypeOK
  <2>5. \A i, j \in 1 .. Len(linked') : linked'[i] = linked'[j] => i = j
    BY <1>0 DEF Inserted, FreshInv, TypeOK
  <2>6. \A q \in Producers : Busy(q)' => \A i \in 1 .. Len(linked') : linked'[i] # node[q]
    BY <2>1, <2>3, <1>0 DEF Inserted, FreshInv, TypeOK
  <2>. QED  BY <2>1, <2>4, <2>5, <2>6 DEF FreshInv
<1>7. HistoryInv'
  <2>1. \A i \in 1 .. taken : i \in 1 .. Len(linked)
    BY DEF ShapeInv, TypeOK
  <2>. QED  BY <2>1, <1>0 DEF Inserted, HistoryInv
<1>. QED  BY <1>1, <1>2, <1>3, <1>4, <1>5, <1>6, <1>7

LEMMA LinkNextInv ==
  ASSUME IInv, NEW p \in Producers, LinkNext(p)
  PROVE  IInv'
<1> USE QueueAssumption, FreeAssumption DEF IInv, LinkNext, listVars, prodVars
<1>1. TypeOK'  BY DEF TypeOK, PlacesInAddTail, PlacesInGetHead, Node, Null, Unread, Garbage
<1>2. LockInv'  BY DEF LockInv, InTailSection, TypeOK, PlacesInAddTail, Free
<1>3. CountInv'  BY DEF CountInv, Size, InFlight, OutFlight, Counted, TypeOK
<1>4. ShapeInv'
  <2>1. taken < Len(linked) /\ pTail = linked[Len(linked)] /\ pTail \in Node
    BY DEF PlaceInv, ShapeInv, TypeOK
  <2>2. \A q \in Producers : ppc'[q] = "fill" => q = p
    BY TailSectionExclusive DEF InTailSection, TypeOK
  <2>3. \A i \in taken + 1 .. Len(linked) - 1 : linked[i] \in Node /\ linked[i] # pTail
    <3> SUFFICES ASSUME NEW i \in taken + 1 .. Len(linked) - 1
                 PROVE  linked[i] \in Node /\ linked[i] # pTail
      OBVIOUS
    <3>1. i \in 1 .. Len(linked) /\ Len(linked) \in 1 .. Len(linked) /\ i # Len(linked)
      BY DEF TypeOK
    <3>. QED  BY <3>1, <2>1 DEF FreshInv, TypeOK
  <2>4. next'[linked[Len(linked)]] = node[p] /\ ppc'[p] = "fill"
    BY <2>1 DEF TypeOK
  <2>5. \A i \in taken + 1 .. Len(linked) - 1 : next'[linked[i]] = linked[i + 1]
    BY <2>3 DEF TypeOK, ShapeInv
  <2>. QED  BY <2>1, <2>2, <2>4, <2>5 DEF ShapeInv
<1>5. PlaceInv'  BY DEF PlaceInv, TypeOK
<1>6. FreshInv'  BY DEF FreshInv, Busy, TypeOK, Node, PlacesInAddTail
<1>7. HistoryInv'  BY DEF HistoryInv, TypeOK, Node
<1>. QED  BY <1>1, <1>2, <1>3, <1>4, <1>5, <1>6, <1>7

LEMMA FillNodeInv ==
  ASSUME IInv, NEW p \in Producers, FillNode(p)
  PROVE  IInv'
<1> USE QueueAssumption, FreeAssumption DEF IInv, FillNode, listVars, prodVars
<1>0. Inserted(p)  BY InsertFacts
<1>1. TypeOK'
  <2>1. linked' \in Seq(Node) /\ \A i \in 1 .. Len(linked') : value'[linked'[i]] \in Data
    BY <1>0 DEF Inserted, TypeOK
  <2>. QED  BY <2>1, <1>0 DEF Inserted, TypeOK, PlacesInAddTail
<1>2. LockInv'  BY DEF LockInv, InTailSection, TypeOK, PlacesInAddTail, Free
<1>3. CountInv'
  <2>1. InFlight = 1
    BY DEF InFlight, Counted
  <2>2. \A q \in Producers : ~Counted(q)'
    BY <1>0 DEF Inserted
  <2>3. InFlight' = 0
    BY <2>2 DEF InFlight
  <2>4. \A q \in Producers : ppc[q] # "reset" /\ ppc'[q] # "reset"
    BY <2>2, <1>0 DEF Inserted, Counted
  <2>5. Size' = Size + 1
    BY <1>0 DEF Inserted, Size, TypeOK
  <2>. QED  BY <2>1, <2>3, <2>4, <2>5, SMTT(30) DEF CountInv, OutFlight, Size, TypeOK
<1>4. ShapeInv'
  <2>1. taken < Len(linked)
    BY DEF PlaceInv
  <2>2. \A q \in Producers : ppc'[q] # "fill"
    BY <1>0 DEF Inserted, Counted, TypeOK
  <2>3. next[linked[Len(linked)]] = node[p]
    BY <2>1 DEF ShapeInv
  <2>4. \A i \in taken' + 1 .. Len(linked') - 1 : next'[linked'[i]] = linked'[i + 1]
    <3> SUFFICES ASSUME NEW i \in taken + 1 .. Len(linked)
                 PROVE  next'[linked'[i]] = linked'[i + 1]
      BY <1>0 DEF Inserted, TypeOK
    <3>1. CASE i = Len(linked)
      BY <3>1, <2>1, <2>3, <1>0 DEF Inserted, TypeOK
    <3>2. CASE i # Len(linked)
      BY <3>2, <2>1, <1>0 DEF Inserted, TypeOK, ShapeInv
    <3>. QED  BY <3>1, <3>2
  <2>5. pHead' = linked'[taken' + 1] /\ taken' < Len(linked')
    BY <2>1, <1>0 DEF Inserted, ShapeInv, TypeOK
  <2>6. next'[linked'[Len(linked')]] = Null /\ pTail' = linked'[Len(linked')]
    BY <1>0 DEF Inserted, TypeOK
  <2>7. \A q \in Producers : ppc'[q] # "fill"
    BY <2>2
  <2>8. taken' \in Nat /\ Len(linked') \in Nat
    BY <1>0 DEF Inserted, TypeOK
  <2>9. /\ taken' <= Len(linked')
        /\ pHead' = IF taken' < Len(linked') THEN linked'[taken' + 1] ELSE Null
    BY <2>5, <2>8
  <2>. QED  BY <2>4, <2>6, <2>7, <2>9, Zenon DEF ShapeInv
<1>5. PlaceInv'
  <2>1. \A q \in Producers : ~Counted(q)'
    BY <1>0 DEF Inserted, Counted, TypeOK
  <2>. QED  BY <2>1, <1>0 DEF Inserted, PlaceInv, TypeOK, Counted
<1>6. FreshInv'
  <2>1. \A q \in Producers : Busy(q)' => Busy(q) /\ q # p
    BY DEF Busy, TypeOK, PlacesInAddTail
  <2>2. Busy(p)
    BY DEF Busy, PlacesInAddTail
  <2>3. \A q \in Producers : Busy(q)' => node[q] # node[p]
    BY <2>1, <2>2 DEF FreshInv
  <2>4. \A i \in 1 .. Len(linked') : linked'[i] <= allocated
    BY <1>0 DEF Inserted, FreshInv, TypeOK
  <2>5. \A i, j \in 1 .. Len(linked') : linked'[i] = linked'[j] => i = j
    BY <1>0 DEF Inserted, FreshInv, TypeOK
  <2>6. \A q \in Producers : Busy(q)' => \A i \in 1 .. Len(linked') : linked'[i] # node[q]
    BY <2>1, <2>3, <1>0 DEF Inserted, FreshInv, TypeOK
  <2>. QED  BY <2>1, <2>4, <2>5, <2>6 DEF FreshInv
<1>7. HistoryInv'
  <2>1. \A i \in 1 .. taken : i \in 1 .. Len(linked)
    BY DEF ShapeInv, TypeOK
  <2>. QED  BY <2>1, <1>0 DEF Inserted, HistoryInv
<1>. QED  BY <1>1, <1>2, <1>3, <1>4, <1>5, <1>6, <1>7

LEMMA UnlockTailInv ==
  ASSUME IInv, NEW p \in Producers, UnlockTail(p)
  PROVE  IInv'
<1> USE QueueAssumption, FreeAssumption DEF IInv, UnlockTail, listVars, prodVars
<1>1. TypeOK'  BY DEF TypeOK, PlacesInAddTail, PlacesInGetHead, Node, Null, Unread, Garbage
<1>2. LockInv'  BY DEF LockInv, InTailSection, TypeOK, PlacesInAddTail, Free
<1>3. CountInv'  BY DEF CountInv, Size, InFlight, OutFlight, Counted, TypeOK
<1>4. ShapeInv'  BY DEF ShapeInv, TypeOK, Node, Null
<1>5. PlaceInv'  BY DEF PlaceInv, LockInv, InTailSection, TypeOK
<1>6. FreshInv'  BY DEF FreshInv, Busy, TypeOK, Node, PlacesInAddTail
<1>7. HistoryInv'  BY DEF HistoryInv, TypeOK, Node
<1>. QED  BY <1>1, <1>2, <1>3, <1>4, <1>5, <1>6, <1>7

(* Each step of GetHead preserves the inductive invariant.                   *)
LEMMA TestEmptyInv ==
  ASSUME IInv, TestEmpty
  PROVE  IInv'
<1> USE QueueAssumption, FreeAssumption DEF IInv, TestEmpty, listVars, prodVars
<1>1. TypeOK'  BY DEF TypeOK, PlacesInAddTail, PlacesInGetHead, Node, Null, Unread, Garbage
<1>2. LockInv'  BY DEF LockInv, InTailSection, TypeOK, PlacesInAddTail, Free
<1>3. CountInv'  BY DEF CountInv, Size, InFlight, OutFlight, Counted, TypeOK
<1>4. ShapeInv'  BY DEF ShapeInv, TypeOK, Node, Null
<1>5. PlaceInv'  BY DEF PlaceInv, ShapeInv, IsEmpty, TypeOK
<1>6. FreshInv'  BY DEF FreshInv, Busy, TypeOK, Node, PlacesInAddTail
<1>7. HistoryInv'  BY DEF HistoryInv, TypeOK, Node
<1>. QED  BY <1>1, <1>2, <1>3, <1>4, <1>5, <1>6, <1>7

LEMMA LockHeadInv ==
  ASSUME IInv, LockHead
  PROVE  IInv'
<1> USE QueueAssumption, FreeAssumption DEF IInv, LockHead, listVars, prodVars
<1>1. TypeOK'  BY DEF TypeOK, PlacesInAddTail, PlacesInGetHead, Node, Null, Unread, Garbage
<1>2. LockInv'  BY DEF LockInv, InTailSection, TypeOK, PlacesInAddTail, Free
<1>3. CountInv'  BY DEF CountInv, Size, InFlight, OutFlight, Counted, TypeOK
<1>4. ShapeInv'  BY DEF ShapeInv, TypeOK, Node, Null
<1>5. PlaceInv'  BY DEF PlaceInv, TypeOK
<1>6. FreshInv'  BY DEF FreshInv, Busy, TypeOK, Node, PlacesInAddTail
<1>7. HistoryInv'  BY DEF HistoryInv, TypeOK, Node
<1>. QED  BY <1>1, <1>2, <1>3, <1>4, <1>5, <1>6, <1>7

LEMMA CountProcessedInv ==
  ASSUME IInv, CountProcessed
  PROVE  IInv'
<1> USE QueueAssumption, FreeAssumption DEF IInv, CountProcessed, listVars, prodVars
<1>1. TypeOK'  BY DEF TypeOK, PlacesInAddTail, PlacesInGetHead, Node, Null, Unread, Garbage
<1>2. LockInv'  BY DEF LockInv, InTailSection, TypeOK, PlacesInAddTail, Free
<1>3. CountInv'
  <2>1. OutFlight = 0 /\ OutFlight' = 1 /\ Size' = Size /\ InFlight' = InFlight
    BY DEF OutFlight, Size, InFlight, Counted
  <2>2. InFlight \in {0, 1} /\ Size \in Int
    BY DEF InFlight, Size, TypeOK
  <2>. QED  BY <2>1, <2>2 DEF CountInv, TypeOK
<1>4. ShapeInv'  BY DEF ShapeInv, TypeOK, Node, Null
<1>5. PlaceInv'  BY DEF PlaceInv, TypeOK
<1>6. FreshInv'  BY DEF FreshInv, Busy, TypeOK, Node, PlacesInAddTail
<1>7. HistoryInv'  BY DEF HistoryInv, TypeOK, Node
<1>. QED  BY <1>1, <1>2, <1>3, <1>4, <1>5, <1>6, <1>7

LEMMA DecideTailLockInv ==
  ASSUME IInv, DecideTailLock
  PROVE  IInv'
<1> USE QueueAssumption, FreeAssumption DEF IInv, DecideTailLock, listVars, prodVars
<1>1. TypeOK'  BY DEF TypeOK, PlacesInAddTail, PlacesInGetHead, Node, Null, Unread, Garbage
<1>2. LockInv'  BY DEF LockInv, InTailSection, TypeOK, PlacesInAddTail, Free
<1>3. CountInv'  BY DEF CountInv, Size, InFlight, OutFlight, Counted, TypeOK
<1>4. ShapeInv'  BY DEF ShapeInv, TypeOK, Node, Null
<1>5. PlaceInv'
  <2>1. taken < Len(linked) /\ tailLock # Consumer /\ \A q \in Producers : ppc[q] # "reset"
    BY DEF PlaceInv, LockInv
  <2>2. m_iRecvNum - m_iProcessNum = Size + InFlight - 1
    BY <2>1 DEF CountInv, OutFlight
  <2>3. InFlight \in {0, 1} /\ Size \in Nat /\ Size >= 1
    BY <2>1 DEF InFlight, Size, TypeOK
  <2>4. ~IsShort => Size >= 2
    BY <2>2, <2>3 DEF IsShort, Minus, TypeOK
  <2>. QED  BY <2>1, <2>4 DEF PlaceInv, Size, TypeOK
<1>6. FreshInv'  BY DEF FreshInv, Busy, TypeOK, Node, PlacesInAddTail
<1>7. HistoryInv'  BY DEF HistoryInv, TypeOK, Node
<1>. QED  BY <1>1, <1>2, <1>3, <1>4, <1>5, <1>6, <1>7

LEMMA LockTailTooInv ==
  ASSUME IInv, LockTailToo
  PROVE  IInv'
<1> USE QueueAssumption, FreeAssumption DEF IInv, LockTailToo, listVars, prodVars
<1>1. TypeOK'  BY DEF TypeOK, PlacesInAddTail, PlacesInGetHead, Node, Null, Unread, Garbage
<1>2. LockInv'  BY DEF LockInv, InTailSection, TypeOK, PlacesInAddTail, Free
<1>3. CountInv'  BY DEF CountInv, Size, InFlight, OutFlight, Counted, TypeOK
<1>4. ShapeInv'  BY DEF ShapeInv, TypeOK, Node, Null
<1>5. PlaceInv'  BY DEF PlaceInv, TypeOK
<1>6. FreshInv'  BY DEF FreshInv, Busy, TypeOK, Node, PlacesInAddTail
<1>7. HistoryInv'  BY DEF HistoryInv, TypeOK, Node
<1>. QED  BY <1>1, <1>2, <1>3, <1>4, <1>5, <1>6, <1>7

LEMMA TakeInv ==
  ASSUME IInv, Take
  PROVE  IInv'
<1> USE QueueAssumption, FreeAssumption DEF IInv, Take, listVars, prodVars
<1>1. TypeOK'
  <2>1. pHead' \in Node \cup {Null}
    BY TakeFacts DEF TypeOK
  <2>2. got' \in Seq(Data) /\ taken' \in Nat
    BY TakeFacts DEF TypeOK
  <2>. QED  BY <2>1, <2>2 DEF TypeOK, PlacesInGetHead
<1>2. LockInv'  BY DEF LockInv, InTailSection, TypeOK, PlacesInAddTail, Free
<1>3. CountInv'  BY DEF CountInv, Size, InFlight, OutFlight, Counted, TypeOK
<1>4. ShapeInv'
  <2>1. pHead' = IF taken' < Len(linked) THEN linked[taken' + 1] ELSE Null
    BY TakeFacts DEF TypeOK
  <2>. QED  BY <2>1, TakeFacts DEF ShapeInv, TypeOK
<1>5. PlaceInv'  BY TakeFacts DEF PlaceInv, TypeOK
<1>6. FreshInv'  BY DEF FreshInv, Busy, TypeOK, Node, PlacesInAddTail
<1>7. HistoryInv'
  <2>1. /\ Len(got') = Len(got) + 1 /\ got'[Len(got) + 1] = value[pHead]
        /\ \A i \in 1 .. Len(got) : got'[i] = got[i]
    BY TakeFacts DEF TypeOK
  <2>. QED  BY <2>1, TakeFacts DEF HistoryInv, TypeOK
<1>. QED  BY <1>1, <1>2, <1>3, <1>4, <1>5, <1>6, <1>7

LEMMA ReleaseInv ==
  ASSUME IInv, Release
  PROVE  IInv'
<1> USE QueueAssumption, FreeAssumption DEF IInv, Release, listVars, prodVars
<1>1. TypeOK'  BY DEF TypeOK, PlacesInAddTail, PlacesInGetHead, Node, Null, Unread, Garbage
<1>2. LockInv'  BY DEF LockInv, InTailSection, TypeOK, PlacesInAddTail, Free
<1>3. CountInv'  BY DEF CountInv, Size, InFlight, OutFlight, Counted, TypeOK
<1>4. ShapeInv'  BY DEF ShapeInv, TypeOK, Node, Null
<1>5. PlaceInv'  BY DEF PlaceInv, TypeOK
<1>6. FreshInv'  BY DEF FreshInv, Busy, TypeOK, Node, PlacesInAddTail
<1>7. HistoryInv'  BY DEF HistoryInv, TypeOK, Node
<1>. QED  BY <1>1, <1>2, <1>3, <1>4, <1>5, <1>6, <1>7

(* Every step of the specification preserves the inductive invariant.        *)
LEMMA NextInv == IInv /\ [Next]_vars => IInv'
<1> SUFFICES ASSUME IInv, [Next]_vars  PROVE IInv'
  OBVIOUS
<1>1. ASSUME NEW p \in Producers, NEW d \in Data, AddTail(p, d)  PROVE IInv'
  BY <1>1, AddTailInv
<1>2. ASSUME NEW p \in Producers, ProducerStep(p)  PROVE IInv'
  BY <1>2, ReadRecvNumInv, ReadProcessNumInv, TestLengthInv, ReturnFalseInv, LockTailInv,
     CountReceivedInv, TestHeadInv, ResetProcessNumInv, LinkFirstInv, LinkNextInv, FillNodeInv,
     UnlockTailInv
  DEF ProducerStep
<1>3. CASE ConsumerStep
  BY <1>3, TestEmptyInv, LockHeadInv, CountProcessedInv, DecideTailLockInv, LockTailTooInv,
     TakeInv, ReleaseInv
  DEF ConsumerStep
<1>4. CASE UNCHANGED vars
  BY <1>4 DEF vars, listVars, prodVars, IInv, TypeOK, LockInv, CountInv, ShapeInv, PlaceInv,
     FreshInv, HistoryInv, Size, InFlight, OutFlight, Counted, Busy
<1>. QED  BY <1>1, <1>2, <1>3, <1>4 DEF Next

LEMMA Invariance == Spec => []IInv
  BY InitInv, NextInv, PTL DEF Spec

(* The variables of CQueue keep their types in every execution of any number *)
(* of AddTail threads with one GetHead thread; pHead is never garbage.       *)
THEOREM TypeCorrect == Spec => []TypeOK
<1>1. IInv => TypeOK
  BY DEF IInv
<1>. QED  BY <1>1, Invariance, PTL

(* GetHead never follows a bad pointer and AddTail never writes to a freed   *)
(* node, although GetHead takes the tail lock only for short queues.         *)
THEOREM PointerSafety == Spec => []NoBadPointer
<1>1. IInv => NoBadPointer
  <2> SUFFICES ASSUME IInv  PROVE NoBadPointer
    OBVIOUS
  <2>1. ASSUME cpc = "take"  PROVE Live(pHead) /\ next[pHead] # Garbage
    <3>1. /\ taken < Len(linked) /\ pHead = linked[taken + 1]
          /\ next[pHead] = IF taken + 1 < Len(linked) THEN linked[taken + 2] ELSE Null
      BY <2>1, TakeFacts
    <3>2. taken + 1 \in taken + 1 .. Len(linked)
      BY <3>1 DEF IInv, TypeOK
    <3>3. taken + 1 < Len(linked) => linked[taken + 2] \in Node
      BY DEF IInv, TypeOK
    <3>. QED  BY <3>1, <3>2, <3>3, QueueAssumption DEF Live, Node, Null, Garbage
  <2>2. ASSUME NEW p \in Producers, ppc[p] = "link"  PROVE Live(pTail)
    <3>1. taken < Len(linked) /\ pTail = linked[Len(linked)]
      BY <2>2 DEF IInv, PlaceInv, ShapeInv
    <3>2. Len(linked) \in taken + 1 .. Len(linked)
      BY <3>1 DEF IInv, TypeOK
    <3>. QED  BY <3>1, <3>2 DEF Live
  <2>. QED  BY <2>1, <2>2 DEF NoBadPointer
<1>. QED  BY <1>1, Invariance, PTL

(* The unsigned subtraction in GetHead never wraps.                          *)
THEOREM LengthTest == Spec => []LengthTestSound
<1>1. IInv => LengthTestSound
  <2> SUFFICES ASSUME IInv, cpc = "decide"  PROVE m_iRecvNum >= m_iProcessNum
    BY DEF LengthTestSound
  <2>1. taken < Len(linked) /\ \A q \in Producers : ppc[q] # "reset"
    BY DEF IInv, PlaceInv
  <2>2. m_iRecvNum - m_iProcessNum = Size + InFlight - 1
    BY <2>1 DEF IInv, CountInv, OutFlight
  <2>3. InFlight \in {0, 1} /\ Size \in Nat /\ Size >= 1
    BY <2>1 DEF IInv, InFlight, Size, TypeOK
  <2>. QED  BY <2>2, <2>3 DEF IInv, TypeOK
<1>. QED  BY <1>1, Invariance, PTL

(* CQueue implements the FIFO queue its users rely on: no accepted message   *)
(* is lost, repeated, reordered or altered.                                  *)
Sent == [i \in 1 .. Len(linked) |-> value[linked[i]]]

LEMMA InsertIsPut ==
  ASSUME IInv, NEW p \in Producers, LinkFirst(p) \/ FillNode(p)
  PROVE  Fifo!Next
<1>1. Inserted(p)
  BY InsertFacts
<1>2. Sent \in Seq(Data) /\ Len(Sent) = Len(linked)
  BY DEF Sent, IInv, TypeOK
<1>3. Sent' = [i \in 1 .. Len(linked) + 1 |-> IF i <= Len(linked) THEN Sent[i] ELSE arg[p]]
  BY <1>1 DEF Sent, Inserted, IInv, TypeOK
<1>4. Sent' = Append(Sent, arg[p])
  BY <1>2, <1>3
<1>5. got' = got
  BY DEF LinkFirst, FillNode
<1>6. Fifo!Put(arg[p])
  BY <1>4, <1>5 DEF Fifo!Put, Sent
<1>7. arg[p] \in Data
  BY <1>1 DEF Inserted
<1>. QED  BY <1>6, <1>7 DEF Fifo!Next, Fifo!Put

LEMMA TakeIsGet ==
  ASSUME IInv, Take
  PROVE  Fifo!Get
<1>1. taken < Len(linked) /\ pHead = linked[taken + 1]
  BY TakeFacts DEF Take
<1>2. Sent \in Seq(Data) /\ Len(Sent) = Len(linked) /\ Len(got) = taken
  BY DEF Sent, IInv, TypeOK, HistoryInv
<1>3. Sent[taken + 1] = value[pHead]
  BY <1>1 DEF Sent, IInv, TypeOK
<1>4. got' = Append(got, Sent[Len(got) + 1]) /\ Sent' = Sent
  BY <1>2, <1>3 DEF Take, Sent
<1>. QED  BY <1>1, <1>2, <1>4 DEF Fifo!Get, Sent

THEOREM Refinement == Spec => FifoSpec
<1>1. Init => Fifo!Init
  BY DEF Init, Fifo!Init
<1>2. IInv /\ [Next]_vars => [Fifo!Next]_<<Sent, got>>
  <2> SUFFICES ASSUME IInv, [Next]_vars  PROVE Fifo!Next \/ UNCHANGED <<Sent, got>>
    OBVIOUS
  <2>1. ASSUME NEW p \in Producers, LinkFirst(p) \/ FillNode(p)  PROVE Fifo!Next
    BY <2>1, InsertIsPut
  <2>2. CASE Take
    BY <2>2, TakeIsGet DEF Fifo!Next
  <2>3. ASSUME NEW p \in Producers, ProducerStep(p), ~(LinkFirst(p) \/ FillNode(p))
        PROVE  UNCHANGED <<linked, value, got>>
    BY <2>3 DEF ProducerStep, ReadRecvNum, ReadProcessNum, TestLength, ReturnFalse, LockTail,
       CountReceived, TestHead, ResetProcessNum, LinkNext, UnlockTail, listVars
  <2>4. ASSUME ConsumerStep, ~Take  PROVE UNCHANGED <<linked, value, got>>
    BY <2>4 DEF ConsumerStep, TestEmpty, LockHead, CountProcessed, DecideTailLock, LockTailToo,
       Release, listVars
  <2>5. ASSUME NEW p \in Producers, NEW d \in Data, AddTail(p, d)
        PROVE  UNCHANGED <<linked, value, got>>
    BY <2>5 DEF AddTail, listVars
  <2>6. CASE UNCHANGED vars
    BY <2>6 DEF vars, listVars, Sent
  <2>7. UNCHANGED <<linked, value, got>> => UNCHANGED <<Sent, got>>
    BY DEF Sent
  <2>. QED  BY <2>1, <2>2, <2>3, <2>4, <2>5, <2>6, <2>7 DEF Next
<1>. QED  BY <1>1, <1>2, Invariance, PTL DEF Spec, FifoSpec, Fifo!Spec, Sent

(* m_QueueTailLock keeps the list whole: two threads are never between the  *)
(* lock and the unlock of AddTail, and none is there while GetHead, having  *)
(* found the queue short, holds the lock.                                   *)
TailSectionAlone ==
  /\ \A p, q \in Producers : ppc[p] \in InTailSection /\ ppc[q] \in InTailSection => p = q
  /\ tailLock = Consumer => \A p \in Producers : ppc[p] \notin InTailSection

(* AddTail and a GetHead of a short queue exclude one another.              *)
THEOREM TailLockExcludes == Spec => []TailSectionAlone
<1>1. IInv => TailSectionAlone
  <2>1. ASSUME IInv, tailLock = Consumer, NEW p \in Producers PROVE ppc[p] \notin InTailSection
    BY <2>1, QueueAssumption DEF IInv, LockInv
  <2> QED
    BY <2>1, TailSectionExclusive DEF TailSectionAlone
<1>. QED  BY <1>1, Invariance, PTL

-----------------------------------------------------------------------------
(* BoundedOvershoot.  A thread between its length test and its count will   *)
(* insert a message.  One that has read m_iRecvNum at v or less may still   *)
(* find the queue short when m_iProcessNum reaches v - MAX_QUEUE_SIZE + 1,  *)
(* and one whose m_iProcessNum dates from before a reset may always.        *)
Granted(p) == ppc[p] \in {"lock", "count"}
MayPass(v) ==
  {p \in Producers :
     \/ Granted(p)
     \/ /\ ppc[p] = "length"
        /\ \/ snap[p].recv # Unread /\ snap[p].recv <= v
           \/ snap[p].proc > m_iProcessNum}

(* The messages counted, and those that may be inserted while the consumer  *)
(* has taken no more than v - MAX_QUEUE_SIZE + 1, exceed v by less than one *)
(* per thread.                                                              *)
OvershootInv ==
  \A v \in Nat : v >= m_iProcessNum + MaxQueueSize - 1 =>
    m_iRecvNum + Cardinality(MayPass(v)) <= v + Cardinality(Producers)

(* The numbers of threads that may pass.                                    *)
LEMMA Counting ==
  /\ Cardinality(Producers) \in Nat
  /\ \A S \in SUBSET Producers :
       /\ IsFiniteSet(S) /\ Cardinality(S) \in Nat /\ Cardinality(S) <= Cardinality(Producers)
       /\ \A R \in SUBSET S : Cardinality(R) <= Cardinality(S)
       /\ \A p \in S : Cardinality(S \ {p}) = Cardinality(S) - 1
       /\ \A p \in Producers \ S : Cardinality(S) + 1 <= Cardinality(Producers)
<1>1. IsFiniteSet(Producers) /\ Cardinality(Producers) \in Nat
  BY QueueAssumption, FS_CardinalityType
<1> SUFFICES ASSUME NEW S \in SUBSET Producers
             PROVE  /\ IsFiniteSet(S) /\ Cardinality(S) \in Nat
                    /\ Cardinality(S) <= Cardinality(Producers)
                    /\ \A R \in SUBSET S : Cardinality(R) <= Cardinality(S)
                    /\ \A p \in S : Cardinality(S \ {p}) = Cardinality(S) - 1
                    /\ \A p \in Producers \ S : Cardinality(S) + 1 <= Cardinality(Producers)
  BY <1>1
<1>2. IsFiniteSet(S) /\ Cardinality(S) \in Nat /\ Cardinality(S) <= Cardinality(Producers)
  BY <1>1, FS_Subset, FS_CardinalityType
<1>3. \A R \in SUBSET S : Cardinality(R) <= Cardinality(S)
  BY <1>2, FS_Subset
<1>4. \A p \in S : Cardinality(S \ {p}) = Cardinality(S) - 1
  BY <1>2, FS_RemoveElement
<1>5. ASSUME NEW p \in Producers \ S PROVE Cardinality(S) + 1 <= Cardinality(Producers)
  <2>1. S \subseteq Producers \ {p}
    OBVIOUS
  <2>2. IsFiniteSet(Producers \ {p}) /\ Cardinality(Producers \ {p}) = Cardinality(Producers) - 1
    BY <1>1, FS_RemoveElement
  <2>3. Cardinality(S) <= Cardinality(Producers \ {p})
    BY <2>1, <2>2, FS_Subset
  <2> QED
    BY <1>1, <1>2, <2>2, <2>3
<1> QED
  BY <1>2, <1>3, <1>4, <1>5

(* Steps after which nobody new may pass.                                   *)
LEMMA NobodyNew ==
  ASSUME IInv, IInv', OvershootInv, m_iRecvNum' = m_iRecvNum, m_iProcessNum' >= m_iProcessNum,
         \A v \in Nat : v >= m_iProcessNum' + MaxQueueSize - 1 => MayPass(v)' \subseteq MayPass(v)
  PROVE  OvershootInv'
<1> SUFFICES ASSUME NEW v \in Nat, v >= m_iProcessNum' + MaxQueueSize - 1
             PROVE  m_iRecvNum' + Cardinality(MayPass(v)') <= v + Cardinality(Producers)
  BY DEF OvershootInv
<1>1. /\ m_iRecvNum \in Nat /\ m_iProcessNum \in Nat /\ m_iProcessNum' \in Nat
      /\ MaxQueueSize \in Nat
  BY QueueAssumption DEF IInv, TypeOK
<1>2. m_iRecvNum + Cardinality(MayPass(v)) <= v + Cardinality(Producers)
  <2>1. \A a, b, c \in Nat : b >= a /\ v >= b + c - 1 => v >= a + c - 1
    OBVIOUS
  <2>2. v >= m_iProcessNum + MaxQueueSize - 1
    BY <1>1, <2>1, Zenon
  <2> QED
    BY <2>2 DEF OvershootInv
<1>3. MayPass(v) \in SUBSET Producers /\ MayPass(v)' \in SUBSET MayPass(v)
  BY DEF MayPass
<1>4. /\ Cardinality(MayPass(v)') <= Cardinality(MayPass(v)) /\ Cardinality(Producers) \in Nat
      /\ Cardinality(MayPass(v)) \in Nat /\ Cardinality(MayPass(v)') \in Nat
  BY <1>3, Counting
<1> QED
  BY <1>1, <1>2, <1>4

(* Steps that leave the list nearly empty: one message is counted, and its  *)
(* thread does not pass the test any more.                                  *)
LEMMA OneCounted ==
  ASSUME IInv', m_iRecvNum' = 1, NEW p \in Producers, ppc'[p] \notin {"length", "lock", "count"}
  PROVE  OvershootInv'
<1> SUFFICES ASSUME NEW v \in Nat
             PROVE  1 + Cardinality(MayPass(v)') <= v + Cardinality(Producers)
  BY DEF OvershootInv
<1>1. MayPass(v)' \in SUBSET Producers /\ p \in Producers \ MayPass(v)'
  BY DEF MayPass, Granted
<1>2. Cardinality(MayPass(v)') \in Nat /\ Cardinality(MayPass(v)') + 1 <= Cardinality(Producers)
  BY <1>1, Counting
<1> QED
  BY <1>2, Counting

(* Reading m_iRecvNum counts a thread only from the number it has read on.  *)
LEMMA ReadRecvNumOvershoot ==
  ASSUME IInv, OvershootInv, NEW p \in Producers, ReadRecvNum(p)
  PROVE  OvershootInv'
<1> SUFFICES ASSUME NEW v \in Nat, v >= m_iProcessNum + MaxQueueSize - 1
             PROVE  m_iRecvNum + Cardinality(MayPass(v)') <= v + Cardinality(Producers)
  BY DEF OvershootInv, ReadRecvNum
<1>1. m_iRecvNum \in Nat /\ MayPass(v) \in SUBSET Producers /\ MayPass(v)' \in SUBSET Producers
  BY DEF IInv, TypeOK, MayPass
<1>2. CASE m_iRecvNum <= v
  <2>1. /\ Cardinality(MayPass(v)') \in Nat /\ Cardinality(Producers) \in Nat
        /\ Cardinality(MayPass(v)') <= Cardinality(Producers)
    BY <1>1, Counting
  <2> QED
    BY <1>1, <1>2, <2>1
<1>3. CASE m_iRecvNum > v
  <2>1. ASSUME NEW q \in MayPass(v)' PROVE q \in MayPass(v)
    <3>1. CASE q = p
      <4>1. ppc'[p] = "length" /\ (snap'[p]).recv = m_iRecvNum /\ (snap'[p]).proc = snap[p].proc
        BY DEF ReadRecvNum, IInv, TypeOK
      <4> QED
        BY <1>1, <1>3, <2>1, <3>1, <4>1 DEF MayPass, Granted, ReadRecvNum
    <3>2. CASE q # p
      <4>1. q \in Producers /\ snap'[q] = snap[q]
        BY <2>1, <3>2 DEF ReadRecvNum, IInv, TypeOK, MayPass
      <4> QED
        BY <2>1, <4>1 DEF MayPass, Granted, ReadRecvNum
    <3> QED
      BY <3>1, <3>2
  <2>2. Cardinality(MayPass(v)') <= Cardinality(MayPass(v))
    BY <1>1, <2>1, Counting
  <2>3. m_iRecvNum + Cardinality(MayPass(v)) <= v + Cardinality(Producers)
    BY DEF OvershootInv
  <2>4. /\ Cardinality(MayPass(v)') \in Nat /\ Cardinality(MayPass(v)) \in Nat
        /\ Cardinality(Producers) \in Nat
    BY <1>1, Counting
  <2> QED
    BY <1>1, <2>2, <2>3, <2>4
<1> QED
  BY <1>1, <1>2, <1>3

(* Who finds the queue short was already among those who may pass.          *)
LEMMA TestLengthOvershoot ==
  ASSUME IInv, IInv', OvershootInv, NEW p \in Producers, TestLength(p)
  PROVE  OvershootInv'
<1>1. ASSUME NEW v \in Nat, v >= m_iProcessNum + MaxQueueSize - 1, NEW q \in MayPass(v)'
      PROVE  q \in MayPass(v)
  <2>1. q \in Producers /\ snap' = snap /\ m_iProcessNum' = m_iProcessNum
    BY <1>1 DEF MayPass, TestLength
  <2>2. CASE q # p
    <3>1. ppc'[q] = ppc[q]
      BY <2>1, <2>2 DEF TestLength, IInv, TypeOK
    <3> QED
      BY <1>1, <2>1, <3>1 DEF MayPass, Granted
  <2>3. CASE q = p
    <3>1. ppc'[p] \in {"refused", "lock"} /\ (ppc'[p] = "lock" => ~TooLong(p))
      BY DEF TestLength, IInv, TypeOK
    <3>2. ~TooLong(p)
      BY <1>1, <2>3, <3>1 DEF MayPass, Granted
    <3>3. /\ ppc[p] = "length" /\ snap[p].recv \in Nat /\ snap[p].proc \in Nat
          /\ snap[p].recv # Unread /\ m_iProcessNum \in Nat
      BY DEF TestLength, IInv, TypeOK
    <3>4. snap[p].proc > m_iProcessNum \/ snap[p].recv <= v
      <4>1. Minus(snap[p].recv, snap[p].proc) < MaxQueueSize
        BY <3>2, <3>3, QueueAssumption DEF TooLong, Minus
      <4> QED
        BY <1>1, <3>3, <4>1, QueueAssumption DEF Minus
    <3> QED
      BY <2>3, <3>3, <3>4 DEF MayPass
  <2> QED
    BY <2>2, <2>3
<1>2. m_iRecvNum' = m_iRecvNum /\ m_iProcessNum' = m_iProcessNum /\ m_iProcessNum \in Nat
  BY DEF TestLength, IInv, TypeOK
<1> QED
  BY <1>1, <1>2, NobodyNew

(* Counting a message makes its thread one that does not pass again.        *)
LEMMA CountReceivedOvershoot ==
  ASSUME IInv, OvershootInv, NEW p \in Producers, CountReceived(p)
  PROVE  OvershootInv'
<1> SUFFICES ASSUME NEW v \in Nat, v >= m_iProcessNum + MaxQueueSize - 1
             PROVE  m_iRecvNum + 1 + Cardinality(MayPass(v)') <= v + Cardinality(Producers)
  BY DEF OvershootInv, CountReceived
<1>1. m_iRecvNum \in Nat /\ MayPass(v) \in SUBSET Producers /\ p \in MayPass(v)
  BY DEF IInv, TypeOK, MayPass, Granted, CountReceived
<1>2. MayPass(v)' = MayPass(v) \ {p}
  <2>1. /\ ppc'[p] = "branch" /\ \A q \in Producers : q # p => ppc'[q] = ppc[q]
        /\ snap' = snap /\ m_iProcessNum' = m_iProcessNum
    BY DEF CountReceived, IInv, TypeOK
  <2> QED
    BY <2>1 DEF MayPass, Granted
<1>3. /\ Cardinality(MayPass(v)') = Cardinality(MayPass(v)) - 1
      /\ Cardinality(MayPass(v)) \in Nat /\ Cardinality(Producers) \in Nat
  BY <1>1, <1>2, Counting
<1>4. m_iRecvNum + Cardinality(MayPass(v)) <= v + Cardinality(Producers)
  BY DEF OvershootInv
<1> QED
  BY <1>1, <1>3, <1>4

(* Steps that change neither counter and no thread that may pass.           *)
LEMMA OtherOvershoot ==
  ASSUME IInv, IInv', OvershootInv, UNCHANGED m_iRecvNum, UNCHANGED m_iProcessNum,
         NEW p \in Producers, \A q \in Producers \ {p} : ppc'[q] = ppc[q] /\ snap'[q] = snap[q],
         \A v \in Nat : v >= m_iProcessNum + MaxQueueSize - 1
                          => (p \in MayPass(v)' => p \in MayPass(v))
  PROVE  OvershootInv'
<1>1. ASSUME NEW v \in Nat, v >= m_iProcessNum + MaxQueueSize - 1, NEW q \in MayPass(v)'
      PROVE  q \in MayPass(v)
  <2>1. CASE q = p
    BY <1>1, <2>1
  <2>2. CASE q # p
    BY <1>1, <2>2 DEF MayPass, Granted
  <2> QED
    BY <2>1, <2>2
<1>2. m_iProcessNum \in Nat
  BY DEF IInv, TypeOK
<1> QED
  BY <1>1, <1>2, NobodyNew

(* Every step of a producer keeps the bound.                                *)
LEMMA ProducerOvershoot ==
  ASSUME IInv, IInv', OvershootInv, NEW p \in Producers,
         ProducerStep(p) \/ \E d \in Data : AddTail(p, d)
  PROVE  OvershootInv'
<1> DEFINE Done == OvershootInv'
<1>1. ASSUME UNCHANGED <<m_iRecvNum, m_iProcessNum, snap>>, NEW to,
             ppc' = [ppc EXCEPT ![p] = to],
             to \notin {"length", "lock", "count"} \/ ppc[p] = "lock"
      PROVE  Done
  <2>1. \A q \in Producers \ {p} : ppc'[q] = ppc[q] /\ snap'[q] = snap[q]
    BY <1>1 DEF IInv, TypeOK
  <2>2. ppc'[p] = to
    BY <1>1 DEF IInv, TypeOK
  <2>3. \A v \in Nat : p \in MayPass(v)' => p \in MayPass(v)
    <3>1. CASE ppc[p] = "lock"
      BY <3>1 DEF MayPass, Granted
    <3>2. CASE to \notin {"length", "lock", "count"}
      BY <2>2, <3>2 DEF MayPass, Granted
    <3> QED
      BY <1>1, <3>1, <3>2
  <2> QED
    BY <1>1, <2>1, <2>3, OtherOvershoot
<1>2. ASSUME NEW d \in Data, AddTail(p, d) PROVE Done
  <2>1. \A q \in Producers \ {p} : ppc'[q] = ppc[q] /\ snap'[q] = snap[q]
    BY <1>2 DEF AddTail, IInv, TypeOK
  <2>2. /\ ppc'[p] = "length" /\ (snap'[p]).recv = Unread /\ (snap'[p]).proc = Unread
        /\ UNCHANGED <<m_iRecvNum, m_iProcessNum>> /\ m_iProcessNum \in Nat
    BY <1>2 DEF AddTail, IInv, TypeOK
  <2>3. \A v \in Nat : p \notin MayPass(v)'
    BY <2>2 DEF MayPass, Granted, Unread
  <2> QED
    BY <2>1, <2>2, <2>3, OtherOvershoot
<1>3. CASE ReadProcessNum(p)
  <2>1. \A q \in Producers \ {p} : ppc'[q] = ppc[q] /\ snap'[q] = snap[q]
    BY <1>3 DEF ReadProcessNum, IInv, TypeOK
  <2>2. /\ ppc[p] = "length" /\ ppc'[p] = "length" /\ (snap'[p]).recv = snap[p].recv
        /\ (snap'[p]).proc = m_iProcessNum
        /\ UNCHANGED <<m_iRecvNum, m_iProcessNum>> /\ m_iProcessNum \in Nat
    BY <1>3 DEF ReadProcessNum, IInv, TypeOK
  <2>3. \A v \in Nat : p \in MayPass(v)' => p \in MayPass(v)
    BY <2>2 DEF MayPass, Granted
  <2> QED
    BY <2>1, <2>2, <2>3, OtherOvershoot
<1>4. CASE TestHead(p)
  <2>1. CASE m_iRecvNum' = 1 /\ ppc' = [ppc EXCEPT ![p] = "reset"]
    <3>1. ppc'[p] = "reset"
      BY <2>1 DEF IInv, TypeOK
    <3> QED
      BY <2>1, <3>1, OneCounted
  <2>2. CASE UNCHANGED m_iRecvNum /\ \E to \in {"link", "first"} : ppc' = [ppc EXCEPT ![p] = to]
    BY <1>1, <1>4, <2>2 DEF TestHead
  <2> QED
    BY <1>4, <2>1, <2>2 DEF TestHead
<1>5. CASE ResetProcessNum(p)
  <2>1. m_iRecvNum' = 1 /\ ppc'[p] = "first"
    BY <1>5 DEF ResetProcessNum, IInv, CountInv, TypeOK
  <2> QED
    BY <2>1, OneCounted
<1>6. CASE LockTail(p)
  BY <1>1, <1>6 DEF LockTail
<1>7. CASE ReturnFalse(p)
  BY <1>1, <1>7 DEF ReturnFalse
<1>8. CASE LinkFirst(p) \/ LinkNext(p) \/ FillNode(p) \/ UnlockTail(p)
  BY <1>1, <1>8 DEF LinkFirst, LinkNext, FillNode, UnlockTail
<1> HIDE DEF Done
<1>9. ReadRecvNum(p) \/ TestLength(p) \/ CountReceived(p) => Done
  BY ReadRecvNumOvershoot, TestLengthOvershoot, CountReceivedOvershoot DEF Done
<1> QED
  BY <1>2, <1>3, <1>4, <1>5, <1>6, <1>7, <1>8, <1>9, Zenon DEF ProducerStep, Done

(* Every step of the consumer keeps it, since m_iProcessNum only grows.     *)
LEMMA ConsumerOvershoot ==
  ASSUME IInv, IInv', OvershootInv, ConsumerStep
  PROVE  OvershootInv'
<1>1. /\ UNCHANGED <<ppc, snap, m_iRecvNum>> /\ m_iProcessNum \in Nat /\ m_iProcessNum' \in Nat
      /\ m_iProcessNum' >= m_iProcessNum
  BY DEF ConsumerStep, TestEmpty, LockHead, CountProcessed, DecideTailLock, LockTailToo, Take,
    Release, prodVars, IInv, TypeOK
<1>2. ASSUME NEW v \in Nat, NEW q \in MayPass(v)' PROVE q \in MayPass(v)
  <2>1. q \in Producers /\ snap[q].proc \in Nat \cup {Unread}
    BY <1>2 DEF MayPass, IInv, TypeOK
  <2> QED
    BY <1>1, <1>2, <2>1 DEF MayPass, Granted, Unread
<1> QED
  BY <1>1, <1>2, NobodyNew

(* MAX_QUEUE_SIZE is exceeded by at most one message per producer, however  *)
(* stale the counters that the length tests have read and through every     *)
(* restart of the counters.                                                 *)
THEOREM Overshoot == Spec => []BoundedOvershoot
<1>1. Init => OvershootInv
  <2> SUFFICES ASSUME Init, NEW v \in Nat
               PROVE  0 + Cardinality(MayPass(v)) <= v + Cardinality(Producers)
    BY DEF OvershootInv, Init, CQueue
  <2>1. MayPass(v) = {}
    BY DEF MayPass, Granted, Init
  <2> QED
    BY <2>1, Counting, FS_EmptySet
<1>2. IInv /\ IInv' /\ OvershootInv /\ [Next]_vars => OvershootInv'
  <2> SUFFICES ASSUME IInv, IInv', OvershootInv, [Next]_vars PROVE OvershootInv'
    OBVIOUS
  <2>1. CASE UNCHANGED vars
    BY <2>1 DEF vars, prodVars, OvershootInv, MayPass, Granted
  <2> QED
    BY <2>1, ProducerOvershoot, ConsumerOvershoot, Zenon DEF Next
<1>3. IInv /\ OvershootInv => BoundedOvershoot
  <2> SUFFICES ASSUME IInv, OvershootInv PROVE BoundedOvershoot
    OBVIOUS
  <2>1. CASE \E p \in Producers : ppc[p] = "reset"
    <3>1. taken = Len(linked)
      BY <2>1 DEF IInv, PlaceInv
    <3> QED
      BY <3>1, Counting, QueueAssumption DEF BoundedOvershoot, IInv, TypeOK
  <2>2. CASE \A p \in Producers : ppc[p] # "reset"
    <3> DEFINE v == m_iProcessNum + MaxQueueSize - 1
    <3>1. v \in Nat /\ m_iRecvNum \in Nat /\ m_iProcessNum \in Nat
      BY QueueAssumption DEF IInv, TypeOK
    <3>2. m_iRecvNum + Cardinality(MayPass(v)) <= v + Cardinality(Producers)
      BY <3>1 DEF OvershootInv
    <3>3. Cardinality(MayPass(v)) \in Nat /\ Cardinality(Producers) \in Nat
      BY Counting DEF MayPass
    <3>4. m_iRecvNum - m_iProcessNum = Size + InFlight - OutFlight
      BY <2>2 DEF IInv, CountInv
    <3>5. InFlight \in {0, 1} /\ OutFlight \in {0, 1} /\ Size \in Int
      BY DEF InFlight, OutFlight, Size, IInv, TypeOK
    <3> QED
      BY <3>1, <3>2, <3>3, <3>4, <3>5, QueueAssumption DEF BoundedOvershoot, Size
  <2> QED
    BY <2>1, <2>2
<1> QED
  BY <1>1, <1>2, <1>3, Invariance, PTL DEF Spec
=============================================================================
