----------------------------- MODULE PollWorker -----------------------------
(***************************************************************************)
(* The life of the polling threads of CTranProDlg: the bar code reader, the *)
(* ID card reader, the IC card reader, the door-closing thread and the      *)
(* open-door check.  The command thread (MessageFromFlash) begins a thread  *)
(* for every start command; the thread ends at once when the running flag   *)
(* of its kind is set, else it sets the flag, polls its device until the    *)
(* cancel flag or the terminal's state stops it, and clears the flag.  The  *)
(* flags are plain variables: testing and setting them are separate steps.  *)
(***************************************************************************)
EXTENDS Naturals, FiniteSets

CONSTANTS Kinds,         \* the polling threads of this instance
          MaxStarts,     \* bound on the threads begun per kind
          MaxWaits,      \* 500 ms waits of OpenDoorState, 10
          MaxOpens       \* bound on the doors opened

AllKinds == {"BarCode", "IDCard", "ICCard", "CloseDoor", "CheckOpenDoor"}

ASSUME WorkerAssumption ==
  /\ Kinds \subseteq AllKinds
  /\ MaxStarts \in Nat /\ MaxWaits \in Nat \ {0} /\ MaxOpens \in Nat

States == {"IDLE", "MAINMENU", "BUSY", "MAINTENANCE", "PAUSE"}
Instance == 1 .. MaxStarts

VARIABLES
  running,               \* per kind: m_bIsBarcodeOpening, m_bIsRunningReadIDCard, ...
  cancel,                \* per kind: m_bIsCancelBarCode, m_bIsCancelReadIDCard, ...
  m_iState,
  started,               \* per kind: number of threads begun
  pc,                    \* per kind and thread: its place
  cpc, waits,            \* the command thread: ready or waiting in OpenDoorState
  opens,                 \* number of doors OpenDoorState went on to open
  raced,                 \* history: the kinds of which a thread passed its test
                         \* while another was between its test and its flag
  missed                 \* history: the door-closing threads that had not set
                         \* their flag when OpenDoorState found it clear

history == <<raced, missed>>
vars == <<running, cancel, m_iState, started, pc, cpc, waits, opens, history>>

Init ==
  /\ running = [k \in Kinds |-> FALSE]
  /\ cancel = [k \in Kinds |-> FALSE]
  /\ m_iState = "BUSY"
  /\ started = [k \in Kinds |-> 0]
  /\ pc = [k \in Kinds |-> [i \in Instance |-> "none"]]
  /\ cpc = "ready" /\ waits = 0 /\ opens = 0
  /\ raced = {} /\ missed = {}

At(k, i, place) == pc[k][i] = place
Go(k, i, place) == pc' = [pc EXCEPT ![k][i] = place]

-----------------------------------------------------------------------------
(* The polling threads.                                                     *)

TestRunning_Unguarded(k, i) ==
  /\ At(k, i, "test")
  /\ Go(k, i, "set")
  /\ raced' = raced \cup {l \in {k} : \E j \in Instance : At(l, j, "set")}
  /\ UNCHANGED <<running, cancel, m_iState, started, cpc, waits, opens, missed>>

(* if(m_bIsRunning...): a second thread of the kind ends here, if it finds  *)
(* the flag set.                                                            *)
TestRunning(k, i) ==
  /\ At(k, i, "test")
  /\ \/ /\ running[k]
        /\ Go(k, i, "refused")
        /\ UNCHANGED raced
     \/ /\ ~running[k]
        /\ Go(k, i, "set")
        /\ raced' = raced \cup {l \in {k} : \E j \in Instance : At(l, j, "set")}
  /\ UNCHANGED <<running, cancel, m_iState, started, cpc, waits, opens, missed>>

(* The log line of the thread that must not run.                            *)
Refuse(k, i) ==
  /\ At(k, i, "refused")
  /\ Go(k, i, "ended")
  /\ UNCHANGED <<running, cancel, m_iState, started, cpc, waits, opens, history>>

(* The flag is set; the bar code thread then switches the scanner on and    *)
(* leaves when that fails.                                                  *)
SetRunning(k, i) ==
  /\ At(k, i, "set")
  /\ running' = [running EXCEPT ![k] = TRUE]
  /\ \/ Go(k, i, "loop")
     \/ k = "BarCode" /\ Go(k, i, "leave")
  /\ UNCHANGED <<cancel, m_iState, started, cpc, waits, opens, history>>

StopStates ==
  [k \in AllKinds |-> CASE k = "ICCard"        -> {}
                        [] k = "CheckOpenDoor" -> {"IDLE", "PAUSE"}
                        [] OTHER               -> {"IDLE"}]

MustStop_IgnoresCancel(k) == m_iState \in StopStates[k]

MustStop(k) == cancel[k] \/ m_iState \in StopStates[k]

TestStop(k, i) ==
  /\ At(k, i, "loop")
  /\ IF MustStop(k) THEN Go(k, i, "leave") ELSE Go(k, i, "work")
  /\ UNCHANGED <<running, cancel, m_iState, started, cpc, waits, opens, history>>

(* One look at the device.  The card threads never end by themselves; the   *)
(* bar code thread ends on a device error, the door threads when the doors  *)
(* are closed.                                                              *)
EndsItself == {"BarCode", "CloseDoor", "CheckOpenDoor"}

Work(k, i) ==
  /\ At(k, i, "work")
  /\ \/ Go(k, i, "loop")
     \/ k \in EndsItself /\ Go(k, i, "leave")
  /\ UNCHANGED <<running, cancel, m_iState, started, cpc, waits, opens, history>>

(* The flag is cleared last, after the bar code thread has switched the     *)
(* scanner off.                                                             *)
ClearRunning(k, i) ==
  /\ At(k, i, "leave")
  /\ running' = [running EXCEPT ![k] = FALSE]
  /\ Go(k, i, "ended")
  /\ UNCHANGED <<cancel, m_iState, started, cpc, waits, opens, history>>

-----------------------------------------------------------------------------
(* The command thread.                                                      *)

(* A thread that was begun and has not set its flag yet.                    *)
Unborn(k, i) == pc[k][i] \in {"test", "set"}

(* MessageFromFlash takes one command after the other; a thread begun by an *)
(* earlier one may still be anywhere.                                       *)
TakesCommand == cpc = "ready"

(* AfxBeginThread                                                           *)
Begin(k) ==
  /\ k \in Kinds /\ started[k] < MaxStarts
  /\ started' = [started EXCEPT ![k] = @ + 1]
  /\ Go(k, started[k] + 1, "test")

(* ExecFunc_ReadIDCard, ReadICCard, CloseDoor, CheckOpenedDoor              *)
StartWorker(k) ==
  /\ TakesCommand /\ k # "BarCode"
  /\ cancel' = [cancel EXCEPT ![k] = FALSE]
  /\ Begin(k)
  /\ UNCHANGED <<running, m_iState, cpc, waits, opens, history>>

(* ExecFunc_BarCode: a new parcel also cancels the door-closing thread.     *)
StartBarCode ==
  /\ TakesCommand
  /\ Begin("BarCode")
  /\ cancel' = [k \in Kinds |-> CASE k = "BarCode"   -> FALSE
                                  [] k = "CloseDoor" -> TRUE
                                  [] OTHER           -> cancel[k]]
  /\ UNCHANGED <<running, m_iState, cpc, waits, opens, history>>

(* ExecFunc_CancelReadIDCard, CancelReadICCard, CancelBarCode,              *)
(* CancelCloseDoor, CancelCheckOpenedDoor                                   *)
CancelWorker(k) ==
  /\ TakesCommand
  /\ cancel' = [cancel EXCEPT ![k] = TRUE]
  /\ UNCHANGED <<running, m_iState, started, pc, cpc, waits, opens, history>>

(* ExecFunc_Timeout cancels the three readers.                              *)
Timeout ==
  /\ TakesCommand
  /\ cancel' = [k \in Kinds |-> cancel[k] \/ k \in {"BarCode", "IDCard", "ICCard"}]
  /\ UNCHANGED <<running, m_iState, started, pc, cpc, waits, opens, history>>

(* ExecFunc_Idle, MainMenu, Busy, Maintenance, Pause                        *)
SetState(s) ==
  /\ TakesCommand
  /\ m_iState' = s
  /\ UNCHANGED <<running, cancel, started, pc, cpc, waits, opens, history>>

OpenDoorState_NoWait ==
  /\ "CloseDoor" \in Kinds
  /\ TakesCommand /\ opens < MaxOpens
  /\ cancel' = [cancel EXCEPT !["CloseDoor"] = running["CloseDoor"] \/ @]
  /\ cpc' = "open"
  /\ missed' = {i \in Instance : Unborn("CloseDoor", i)}
  /\ UNCHANGED <<running, m_iState, started, pc, waits, opens, raced>>

(* OpenDoorState, up to its wait: a running door-closing thread is          *)
(* cancelled first.                                                         *)
OpenDoorState ==
  /\ "CloseDoor" \in Kinds
  /\ TakesCommand /\ opens < MaxOpens
  /\ \/ /\ running["CloseDoor"]
        /\ cancel' = [cancel EXCEPT !["CloseDoor"] = TRUE]
        /\ cpc' = "wait" /\ waits' = 0
        /\ UNCHANGED missed
     \/ /\ ~running["CloseDoor"]
        /\ cpc' = "open"
        /\ missed' = {i \in Instance : Unborn("CloseDoor", i)}
        /\ UNCHANGED <<cancel, waits>>
  /\ UNCHANGED <<running, m_iState, started, pc, opens, raced>>

WaitForWorker_OnceMore ==
  /\ cpc = "wait"
  /\ waits' = waits + 1
  /\ \/ /\ ~running["CloseDoor"]
        /\ cpc' = "open"
        /\ missed' = {i \in Instance : Unborn("CloseDoor", i)}
     \/ /\ running["CloseDoor"]
        /\ cpc' = IF waits' > MaxWaits THEN "ready" ELSE "wait"
        /\ UNCHANGED missed
  /\ UNCHANGED <<running, cancel, m_iState, started, pc, opens, raced>>

(* A turn of the waiting loop; the handler gives up after the last one.     *)
WaitForWorker ==
  /\ cpc = "wait"
  /\ waits' = waits + 1
  /\ \/ /\ ~running["CloseDoor"]
        /\ cpc' = "open"
        /\ missed' = {i \in Instance : Unborn("CloseDoor", i)}
     \/ /\ running["CloseDoor"]
        /\ cpc' = IF waits' >= MaxWaits THEN "ready" ELSE "wait"
        /\ UNCHANGED missed
  /\ UNCHANGED <<running, cancel, m_iState, started, pc, opens, raced>>

(* The rest of OpenDoorState (module Locker): the current box changes and   *)
(* its door is opened.                                                      *)
OpenDoor ==
  /\ cpc = "open"
  /\ opens' = opens + 1
  /\ cpc' = "ready"
  /\ missed' = {}
  /\ UNCHANGED <<running, cancel, m_iState, started, pc, waits, raced>>

-----------------------------------------------------------------------------
Worker(k, i) ==
  \/ TestRunning(k, i) \/ Refuse(k, i) \/ SetRunning(k, i)
  \/ TestStop(k, i) \/ Work(k, i) \/ ClearRunning(k, i)

Opening == OpenDoorState \/ WaitForWorker \/ OpenDoor

Command ==
  \/ StartBarCode \/ Timeout
  \/ \E k \in Kinds : StartWorker(k) \/ CancelWorker(k)
  \/ \E s \in States : SetState(s)
  \/ Opening

Next == Command \/ \E k \in Kinds, i \in Instance : Worker(k, i)

Spec == Init /\ [][Next]_vars

(* Threads that were begun are scheduled; commands need not come.           *)
FairSpec ==
  /\ Spec
  /\ \A k \in Kinds, i \in Instance : WF_vars(Worker(k, i))
  /\ WF_vars(WaitForWorker) /\ WF_vars(OpenDoor)

-----------------------------------------------------------------------------
Places == {"none", "test", "refused", "set", "loop", "work", "leave", "ended"}

TypeOK ==
  /\ running \in [Kinds -> BOOLEAN]
  /\ cancel \in [Kinds -> BOOLEAN]
  /\ m_iState \in States
  /\ started \in [Kinds -> 0 .. MaxStarts]
  /\ pc \in [Kinds -> [Instance -> Places]]
  /\ cpc \in {"ready", "wait", "open"}
  /\ waits \in 0 .. MaxWaits /\ opens \in 0 .. MaxOpens
  /\ raced \subseteq Kinds /\ missed \subseteq Instance

Polls(k, i) == pc[k][i] \in {"loop", "work", "leave"}

(* "Must not run twice", say the threads' own log lines.  The flags exclude *)
(* every double run but one: a thread of the kind passed its test of the    *)
(* flag while another stood between its own test and the setting of it.     *)
(* Restarts, cancels, refused starts and threads that clear the flag last   *)
(* cannot bring one about.                                                  *)
NoDoubleRun ==
  \A k \in Kinds \ raced : \A i, j \in Instance :
    Polls(k, i) /\ Polls(k, j) => i = j

(* While OpenDoorState moves on to another box, the only door-closing       *)
(* threads that can report the old box's door against the new box are those *)
(* that were begun but had not set their flag when it looked.               *)
NoWorkerWhileOpening ==
  cpc = "open" /\ "CloseDoor" \notin raced =>
    \A i \in Instance : Polls("CloseDoor", i) => i \in missed

(* A cancelled thread stops, unless a later start command revokes the       *)
(* cancellation.                                                            *)
CancelStops ==
  \A k \in Kinds :
    (cancel[k] /\ \E i \in Instance : Polls(k, i))
      ~> (~cancel[k] \/ \A i \in Instance : ~Polls(k, i))
=============================================================================
