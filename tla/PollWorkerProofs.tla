-------------------------- MODULE PollWorkerProofs --------------------------
(***************************************************************************)
(* Proofs about PollWorker, for any set of kinds and any bounds, and any    *)
(* scheduling of the threads.  What the flags exclude is proved for every   *)
(* kind that had no race; the race itself, two threads between their test   *)
(* and their flag, is recorded by the history variable raced.               *)
(***************************************************************************)
EXTENDS PollWorker, TLAPS

(* A thread that passed its test and has not ended.                         *)
Inside(k, i) == pc[k][i] \in {"set", "loop", "work", "leave"}

(* Of a kind without a race at most one thread is past its test.            *)
InsideAlone ==
  \A k \in Kinds \ raced : \A i, j \in Instance : Inside(k, i) /\ Inside(k, j) => i = j

(* Its polling thread owns the flag of the kind.                            *)
PollingFlagged ==
  \A k \in Kinds \ raced : \A i \in Instance : Polls(k, i) => running[k]

(* While OpenDoorState moves on, the door-closing threads that have neither *)
(* ended nor been refused are those that had not set their flag before.     *)
OpeningSeesAll ==
  cpc = "open" /\ "CloseDoor" \notin raced =>
    \A i \in Instance : Unborn("CloseDoor", i) \/ Polls("CloseDoor", i) => i \in missed

(* OpenDoorState runs only where there is a door-closing thread.            *)
OpeningKind == cpc # "ready" => "CloseDoor" \in Kinds

(* A thread that was not begun yet is nowhere.                              *)
NotBegun ==
  \A k \in Kinds, i \in Instance : i > started[k] => At(k, i, "none")

(* The bounded counters of OpenDoorState have room while it is inside.      *)
RoomLeft ==
  /\ cpc = "wait" => waits < MaxWaits
  /\ cpc # "ready" => opens < MaxOpens

TypeInv == TypeOK /\ RoomLeft
IInv ==
  /\ TypeInv /\ OpeningKind /\ NotBegun
  /\ InsideAlone /\ PollingFlagged /\ OpeningSeesAll

-----------------------------------------------------------------------------
LEMMA TypeStep == TypeInv /\ [Next]_vars => TypeInv'
<1> SUFFICES ASSUME TypeInv, [Next]_vars PROVE TypeInv'
  OBVIOUS
<1> USE DEF TypeInv, TypeOK, RoomLeft
<1>1. CASE UNCHANGED vars
  BY <1>1 DEF vars, history
<1>2. ASSUME NEW k \in Kinds, NEW i \in Instance, Worker(k, i) PROVE TypeInv'
  <2>1. ASSUME NEW p \in Places, Go(k, i, p) PROVE pc' \in [Kinds -> [Instance -> Places]]
    BY <2>1 DEF Go
  <2>2. pc' \in [Kinds -> [Instance -> Places]]
    BY <1>2, <2>1 DEF Worker, TestRunning, Refuse, SetRunning, TestStop, Work,
                      ClearRunning, Places
  <2>3. running' \in [Kinds -> BOOLEAN]
    BY <1>2 DEF Worker, TestRunning, Refuse, SetRunning, TestStop, Work, ClearRunning
  <2>4. UNCHANGED <<cancel, m_iState, started, cpc, waits, opens, missed>>
    BY <1>2 DEF Worker, TestRunning, Refuse, SetRunning, TestStop, Work, ClearRunning, history
  <2>5. raced' \subseteq Kinds
    BY <1>2 DEF Worker, TestRunning, Refuse, SetRunning, TestStop, Work, ClearRunning, history
  <2> QED
    BY <2>2, <2>3, <2>4, <2>5
<1>3. ASSUME NEW k \in Kinds, Begin(k)
      PROVE /\ started' \in [Kinds -> 0 .. MaxStarts]
            /\ pc' \in [Kinds -> [Instance -> Places]]
  BY <1>3, WorkerAssumption DEF Begin, Go, Places, Instance
<1>4. ASSUME NEW k \in Kinds, StartWorker(k) PROVE TypeInv'
  BY <1>3, <1>4 DEF StartWorker, history
<1>5. CASE StartBarCode
  <2>1. cancel' \in [Kinds -> BOOLEAN]
    BY <1>5 DEF StartBarCode
  <2>2. Begin("BarCode") /\ "BarCode" \in Kinds
    BY <1>5 DEF StartBarCode, Begin
  <2>3. UNCHANGED <<running, m_iState, cpc, waits, opens, raced, missed>>
    BY <1>5 DEF StartBarCode, history
  <2> QED
    BY <1>3, <2>1, <2>2, <2>3
<1>6. ASSUME NEW k \in Kinds, CancelWorker(k) PROVE TypeInv'
  BY <1>6 DEF CancelWorker, history
<1>7. CASE Timeout
  <2>1. cancel' \in [Kinds -> BOOLEAN]
    BY <1>7 DEF Timeout
  <2> QED
    BY <1>7, <2>1 DEF Timeout, history
<1>8. ASSUME NEW s \in States, SetState(s) PROVE TypeInv'
  BY <1>8 DEF SetState, history
<1>9. CASE OpenDoorState
  <2>1. cancel' \in [Kinds -> BOOLEAN]
    BY <1>9 DEF OpenDoorState
  <2>2. /\ cpc' \in {"ready", "wait", "open"} /\ waits' \in 0 .. MaxWaits
        /\ cpc' = "wait" => waits' < MaxWaits
        /\ opens < MaxOpens
    BY <1>9, WorkerAssumption DEF OpenDoorState
  <2>3. UNCHANGED <<running, m_iState, started, pc, opens, raced>> /\ missed' \subseteq Instance
    BY <1>9 DEF OpenDoorState
  <2> QED
    BY <2>1, <2>2, <2>3
<1>10. CASE WaitForWorker
  <2>1. /\ cpc' \in {"ready", "wait", "open"} /\ waits' \in 0 .. MaxWaits
        /\ cpc' = "wait" => waits' < MaxWaits
    <3>1. waits' = waits + 1 /\ waits < MaxWaits
      BY <1>10 DEF WaitForWorker
    <3>2. waits' >= MaxWaits \/ waits' < MaxWaits
      BY <3>1, WorkerAssumption
    <3>4. CASE ~running["CloseDoor"]
      BY <1>10, <3>1, <3>4, WorkerAssumption DEF WaitForWorker
    <3>5. CASE running["CloseDoor"]
      BY <1>10, <3>1, <3>2, <3>5, WorkerAssumption DEF WaitForWorker
    <3> QED
      BY <3>4, <3>5
  <2>2. /\ UNCHANGED <<running, cancel, m_iState, started, pc, opens, raced>>
        /\ opens < MaxOpens /\ missed' \subseteq Instance
    BY <1>10 DEF WaitForWorker
  <2> QED
    BY <2>1, <2>2
<1>11. CASE OpenDoor
  BY <1>11, WorkerAssumption DEF OpenDoor
<1> QED
  BY <1>1, <1>2, <1>4, <1>5, <1>6, <1>7, <1>8, <1>9, <1>10, <1>11
  DEF Next, Command, Opening

LEMMA TypeInit == Init => TypeInv
  BY WorkerAssumption DEF Init, TypeInv, TypeOK, RoomLeft, States, Places

(* Every step keeps the variables of the polling threads and of the command *)
(* thread in their ranges: in particular the wait of OpenDoorState is       *)
(* bounded.                                                                 *)
THEOREM TypeCorrect == Spec => []TypeOK
<1>1. TypeInv => TypeOK
  BY DEF TypeInv
<1> QED
  BY TypeInit, TypeStep, <1>1, PTL DEF Spec

-----------------------------------------------------------------------------
(* What the assignment of a place does to the other places.                 *)
LEMMA GoMoves ==
  ASSUME TypeOK, NEW k \in Kinds, NEW i \in Instance, NEW p, Go(k, i, p)
  PROVE  /\ pc'[k][i] = p
         /\ \A l \in Kinds, j \in Instance : (l # k \/ j # i) => pc'[l][j] = pc[l][j]
  BY DEF TypeOK, Go

(* One step of a polling thread keeps the invariant.                        *)
LEMMA WorkerStep ==
  ASSUME IInv, NEW k \in Kinds, NEW i \in Instance, Worker(k, i), TypeInv'
  PROVE  IInv'
<1> USE DEF IInv
<1>a. /\ pc \in [Kinds -> [Instance -> Places]] /\ pc' \in [Kinds -> [Instance -> Places]]
      /\ running \in [Kinds -> BOOLEAN] /\ running' \in [Kinds -> BOOLEAN] /\ TypeOK
  BY DEF TypeInv, TypeOK
<1>b. UNCHANGED <<started, cpc, missed>> /\ raced \subseteq raced'
  BY DEF Worker, TestRunning, Refuse, SetRunning, TestStop, Work, ClearRunning, history
<1>c. pc[k][i] # "none"
  BY DEF Worker, TestRunning, Refuse, SetRunning, TestStop, Work, ClearRunning, At
<1>d. \A l \in Kinds, j \in Instance : (l # k \/ j # i) => pc'[l][j] = pc[l][j]
  BY <1>a, GoMoves DEF Worker, TestRunning, Refuse, SetRunning, TestStop, Work, ClearRunning
<1>e. NotBegun' /\ OpeningKind'
  BY <1>a, <1>b, <1>c, <1>d DEF NotBegun, OpeningKind, At
(* It is enough to look at the places and flags one by one.                 *)
<1> DEFINE In(p)  == p \in {"set", "loop", "work", "leave"}
           Pol(p) == p \in {"loop", "work", "leave"}
           A == \A l \in Kinds \ raced' : \A j, m \in Instance :
                  In(pc'[l][j]) /\ In(pc'[l][m]) => j = m
           F == \A l \in Kinds \ raced' : \A j \in Instance : Pol(pc'[l][j]) => running'[l]
           O == \A j \in Instance :
                  (pc'["CloseDoor"][j] \in {"test", "set"} \/ Pol(pc'["CloseDoor"][j])) =>
                     (pc["CloseDoor"][j] \in {"test", "set"} \/ Pol(pc["CloseDoor"][j]))
<1>f. ASSUME A, F, "CloseDoor" \in Kinds => O PROVE IInv'
  <2>1. InsideAlone' /\ PollingFlagged'
    BY <1>f DEF InsideAlone, PollingFlagged, Inside, Polls
  <2>2. OpeningSeesAll'
    <3> SUFFICES ASSUME cpc' = "open", "CloseDoor" \notin raced', NEW j \in Instance,
                        Unborn("CloseDoor", j)' \/ Polls("CloseDoor", j)'
                 PROVE  j \in missed'
      BY DEF OpeningSeesAll
    <3>1. cpc = "open" /\ "CloseDoor" \notin raced /\ "CloseDoor" \in Kinds
      BY <1>b DEF OpeningKind
    <3>2. Unborn("CloseDoor", j) \/ Polls("CloseDoor", j)
      BY <1>f, <3>1 DEF Unborn, Polls
    <3> QED
      BY <1>b, <3>1, <3>2 DEF OpeningSeesAll
  <2> QED
    BY <1>e, <2>1, <2>2
<1>o. /\ \A l \in Kinds \ raced : \A j, m \in Instance : In(pc[l][j]) /\ In(pc[l][m]) => j = m
      /\ \A l \in Kinds \ raced : \A j \in Instance : Pol(pc[l][j]) => running[l]
  BY DEF InsideAlone, PollingFlagged, Inside, Polls
<1> HIDE DEF IInv
(* A thread that passes its test finds the flag clear, so that nobody       *)
(* polls; and without a race nobody stands before the flag.                 *)
<1>1. CASE TestRunning(k, i)
  <2>1. pc[k][i] = "test" /\ running' = running
    BY <1>1 DEF TestRunning, At
  <2>2. CASE running[k]
    <3>1. pc'[k][i] = "refused" /\ raced' = raced
      BY <1>1, <1>a, <2>2, GoMoves DEF TestRunning
    <3>2. A /\ F
      BY <1>d, <1>o, <2>1, <3>1
    <3>3. "CloseDoor" \in Kinds => O
      BY <1>d, <2>1, <3>1
    <3> QED
      BY <1>f, <3>2, <3>3
  <2>3. CASE ~running[k]
    <3>1. /\ pc'[k][i] = "set"
          /\ \A j \in Instance : pc[k][j] = "set" => k \in raced'
      BY <1>1, <1>a, <2>3, GoMoves DEF TestRunning, At
    <3>2. k \notin raced' => \A j \in Instance : ~In(pc[k][j])
      BY <1>b, <1>o, <2>3, <3>1
    <3>3. A
      BY <1>b, <1>d, <1>o, <3>2
    <3>4. F
      BY <1>b, <1>d, <1>o, <2>1, <3>1
    <3>5. "CloseDoor" \in Kinds => O
      BY <1>d, <2>1, <3>1
    <3> QED
      BY <1>f, <3>3, <3>4, <3>5
  <2> QED
    BY <2>2, <2>3
<1>2. CASE Refuse(k, i)
  <2>1. pc[k][i] = "refused" /\ running' = running /\ pc'[k][i] = "ended" /\ raced' = raced
    BY <1>2, <1>a, GoMoves DEF Refuse, At, history
  <2>2. A /\ F
    BY <1>d, <1>o, <2>1
  <2>3. "CloseDoor" \in Kinds => O
    BY <1>d, <2>1
  <2> QED
    BY <1>f, <2>2, <2>3
<1>3. CASE SetRunning(k, i)
  <2>1. /\ pc[k][i] = "set" /\ running' = [running EXCEPT ![k] = TRUE]
        /\ pc'[k][i] \in {"loop", "leave"} /\ raced' = raced
    BY <1>3, <1>a, GoMoves DEF SetRunning, At, history
  <2>2. running'[k] = TRUE /\ \A l \in Kinds : l # k => running'[l] = running[l]
    BY <1>a, <2>1
  <2>3. A
    BY <1>d, <1>o, <2>1
  <2>4. F
    BY <1>d, <1>o, <2>1, <2>2
  <2>5. "CloseDoor" \in Kinds => O
    BY <1>d, <2>1
  <2> QED
    BY <1>f, <2>3, <2>4, <2>5
<1>4. CASE TestStop(k, i) \/ Work(k, i)
  <2>1. /\ pc[k][i] \in {"loop", "work"} /\ running' = running
        /\ pc'[k][i] \in {"loop", "work", "leave"} /\ raced' = raced
    BY <1>4, <1>a, GoMoves DEF TestStop, Work, At, history
  <2>2. A /\ F
    BY <1>d, <1>o, <2>1
  <2>3. "CloseDoor" \in Kinds => O
    BY <1>d, <2>1
  <2> QED
    BY <1>f, <2>2, <2>3
(* The thread that clears the flag was the only one past its test.          *)
<1>5. CASE ClearRunning(k, i)
  <2>1. /\ pc[k][i] = "leave" /\ running' = [running EXCEPT ![k] = FALSE]
        /\ pc'[k][i] = "ended" /\ raced' = raced
    BY <1>5, <1>a, GoMoves DEF ClearRunning, At, history
  <2>2. k \notin raced => \A j \in Instance : In(pc[k][j]) => j = i
    BY <1>o, <2>1
  <2>3. running'[k] = FALSE /\ \A l \in Kinds : l # k => running'[l] = running[l]
    BY <1>a, <2>1
  <2>4. A
    BY <1>d, <1>o, <2>1
  <2>5. F
    BY <1>d, <1>o, <2>1, <2>2, <2>3
  <2>6. "CloseDoor" \in Kinds => O
    BY <1>d, <2>1
  <2> QED
    BY <1>f, <2>4, <2>5, <2>6
<1> QED
  BY <1>1, <1>2, <1>3, <1>4, <1>5 DEF Worker

(* Beginning a thread: it stands before its test.                           *)
LEMMA BeginStep ==
  ASSUME IInv, NEW k \in Kinds, Begin(k), TypeInv', UNCHANGED <<running, cpc, history>>,
         cpc = "ready"
  PROVE  IInv'
<1> USE DEF IInv, TypeInv, TypeOK
<1> DEFINE n == started[k] + 1
<1>1. n \in Instance /\ Go(k, n, "test")
  BY WorkerAssumption DEF Begin, Instance
<1>2. /\ pc'[k][n] = "test"
      /\ \A l \in Kinds, j \in Instance : (l # k \/ j # n) => pc'[l][j] = pc[l][j]
  BY <1>1, GoMoves
<1>3. started' = [started EXCEPT ![k] = n] /\ raced' = raced
  BY DEF Begin, history
<1>4. NotBegun'
  BY <1>1, <1>2, <1>3 DEF NotBegun, At, Instance
<1>5. OpeningSeesAll' /\ OpeningKind'
  BY DEF OpeningSeesAll, OpeningKind
<1>6. \A l \in Kinds, j \in Instance :
        /\ Inside(l, j)' => Inside(l, j)
        /\ Polls(l, j)' => Polls(l, j)
  BY <1>1, <1>2 DEF Inside, Polls
<1>7. PollingFlagged' /\ InsideAlone'
  BY <1>3, <1>6 DEF PollingFlagged, InsideAlone
<1> QED
  BY <1>4, <1>5, <1>7

LEMMA SafetyStep == IInv /\ [Next]_vars => IInv'
<1> SUFFICES ASSUME IInv, [Next]_vars PROVE IInv'
  OBVIOUS
<1>t. TypeInv'
  BY TypeStep DEF IInv
(* Steps that leave the threads and their flags alone.                      *)
<1>q. ASSUME UNCHANGED <<running, started, pc, raced>>, OpeningSeesAll', OpeningKind' PROVE IInv'
  BY <1>t, <1>q DEF IInv, InsideAlone, PollingFlagged, NotBegun, Inside, At, Polls
(* When OpenDoorState turns to another box the flag is clear, so that every *)
(* door-closing thread still to come is missed.                             *)
<1>m. ASSUME "CloseDoor" \in Kinds, UNCHANGED <<running, started, pc, raced>>,
             ~running["CloseDoor"], missed' = {i \in Instance : Unborn("CloseDoor", i)}
      PROVE  IInv'
  <2>1. "CloseDoor" \notin raced => \A i \in Instance : ~Polls("CloseDoor", i)
    BY <1>m DEF IInv, PollingFlagged
  <2>2. OpeningSeesAll' /\ OpeningKind'
    BY <1>m, <2>1 DEF OpeningSeesAll, OpeningKind, Unborn, Polls
  <2> QED
    BY <1>m, <1>q, <2>2
<1>1. CASE UNCHANGED vars
  <2>1. OpeningSeesAll' /\ OpeningKind'
    BY <1>1 DEF IInv, OpeningSeesAll, OpeningKind, vars, history, Unborn, Polls
  <2> QED
    BY <1>1, <1>q, <2>1 DEF vars, history
<1>2. ASSUME NEW k \in Kinds, NEW i \in Instance, Worker(k, i) PROVE IInv'
  BY <1>2, <1>t, WorkerStep
<1>3. ASSUME NEW k \in Kinds, StartWorker(k) PROVE IInv'
  BY <1>3, <1>t, BeginStep DEF StartWorker, TakesCommand
<1>4. CASE StartBarCode
  <2>1. /\ Begin("BarCode") /\ "BarCode" \in Kinds /\ cpc = "ready"
        /\ UNCHANGED <<running, cpc, history>>
    BY <1>4 DEF StartBarCode, Begin, TakesCommand
  <2> QED
    BY <2>1, <1>t, BeginStep
<1>5. CASE Timeout \/ (\E k \in Kinds : CancelWorker(k)) \/ (\E s \in States : SetState(s))
  <2>1. UNCHANGED <<running, started, pc, cpc, raced, missed>>
    BY <1>5 DEF Timeout, CancelWorker, SetState, history
  <2>2. OpeningSeesAll' /\ OpeningKind'
    BY <2>1 DEF IInv, OpeningSeesAll, OpeningKind, Unborn, Polls
  <2> QED
    BY <1>q, <2>1, <2>2
<1>6. CASE OpenDoorState
  <2>1. UNCHANGED <<running, started, pc, raced>> /\ "CloseDoor" \in Kinds
    BY <1>6 DEF OpenDoorState
  <2>2. CASE running["CloseDoor"]
    <3>1. cpc' = "wait"
      BY <1>6, <2>2 DEF OpenDoorState
    <3>2. OpeningSeesAll' /\ OpeningKind'
      BY <2>1, <3>1 DEF OpeningSeesAll, OpeningKind
    <3> QED
      BY <1>q, <2>1, <3>2
  <2>3. CASE ~running["CloseDoor"]
    BY <1>6, <1>m, <2>1, <2>3 DEF OpenDoorState
  <2> QED
    BY <2>2, <2>3
<1>7. CASE WaitForWorker
  <2>1. UNCHANGED <<running, started, pc, raced>> /\ "CloseDoor" \in Kinds
    BY <1>7 DEF WaitForWorker, IInv, OpeningKind
  <2>2. CASE running["CloseDoor"]
    <3>1. cpc' # "open"
      BY <1>7, <2>2 DEF WaitForWorker
    <3>2. OpeningSeesAll' /\ OpeningKind'
      BY <2>1, <3>1 DEF OpeningSeesAll, OpeningKind
    <3> QED
      BY <1>q, <2>1, <3>2
  <2>3. CASE ~running["CloseDoor"]
    BY <1>7, <1>m, <2>1, <2>3 DEF WaitForWorker
  <2> QED
    BY <2>2, <2>3
<1>8. CASE OpenDoor
  <2>1. UNCHANGED <<running, started, pc, raced>> /\ cpc' = "ready"
    BY <1>8 DEF OpenDoor
  <2>2. OpeningSeesAll' /\ OpeningKind'
    BY <2>1 DEF OpeningSeesAll, OpeningKind
  <2> QED
    BY <1>q, <2>1, <2>2
<1> QED
  BY <1>1, <1>2, <1>3, <1>4, <1>5, <1>6, <1>7, <1>8 DEF Next, Command, Opening

LEMMA SafetyInit == Init => IInv
<1> SUFFICES ASSUME Init PROVE IInv
  OBVIOUS
<1>1. \A k \in Kinds, i \in Instance : pc[k][i] = "none"
  BY DEF Init
<1>2. cpc = "ready"
  BY DEF Init
<1>3. NotBegun /\ InsideAlone /\ PollingFlagged
  BY <1>1 DEF InsideAlone, PollingFlagged, NotBegun, At, Inside, Polls
<1>4. OpeningSeesAll /\ OpeningKind
  BY <1>2 DEF OpeningSeesAll, OpeningKind
<1> QED
  BY TypeInit, <1>3, <1>4 DEF IInv

(* However the threads are scheduled, two threads of a kind poll one device *)
(* only after two of them stood between the test of the running flag and    *)
(* its setting.                                                             *)
THEOREM NeverTwice == Spec => []NoDoubleRun
<1>1. IInv => NoDoubleRun
  BY DEF IInv, InsideAlone, NoDoubleRun, Inside, Polls
<1> QED
  BY SafetyInit, SafetyStep, <1>1, PTL DEF Spec

(* However the threads are scheduled, OpenDoorState turns to another box    *)
(* after the last door-closing thread is gone, but for threads that had not *)
(* set their flag when it looked and for a kind with a race.                *)
THEOREM OpensAlone == Spec => []NoWorkerWhileOpening
<1>1. IInv => NoWorkerWhileOpening
  BY DEF IInv, OpeningSeesAll, NoWorkerWhileOpening
<1> QED
  BY SafetyInit, SafetyStep, <1>1, PTL DEF Spec
=============================================================================
