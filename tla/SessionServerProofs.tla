------------------------ MODULE SessionServerProofs ------------------------
(***************************************************************************)
(* Proofs about SessionServer, for any sessions, reloading threads, sizes   *)
(* of the pool and bounds.  Every property but the count of the sessions    *)
(* needs more than itself to be inductive: that a connection with a user is *)
(* marked (SharedOnlyWhenFreed), who will free a marked connection and that *)
(* the scan is within the pool (MarkedIsUsed), who will reset syn_flag      *)
(* (LockedOnlyByFailure), and where a call returns to (TypeOK).             *)
(***************************************************************************)
EXTENDS SessionServer, FiniteSetTheorems, TLAPS

(* The last connection of the largest pool.                                 *)
Last == CHOOSE n \in ConnSizes : \A k \in ConnSizes : k <= n

(* Where a call returns to; there is a table left to load, and a connection *)
(* after the one that is opened again.                                      *)
PlaceInv ==
  /\ \A s \in Sessions : back[s] # "loaded"
  /\ \A r \in Refreshers : pc[r] \in CallPlaces => back[r] = "loaded"
  /\ \A r \in Refreshers : pc[r] \in CallPlaces \cup {"loaded"} => tables[r] < NumTables
  /\ \A t \in Threads : pc[t] = "reconnect" => index[t] < Last
TypeInv == TypeOK /\ PlaceInv

(* cs_g_connStat is held by the thread that scans or reconnects.            *)
Holding == {"scan", "reconnect"}
LockInv == \A t \in Threads : lock = t <=> pc[t] \in Holding

(* A guarded connection has one user at most, and is marked while it has.   *)
Guarded(c) == \A t \in Users(c) : connStat[c] = 1 /\ Users(c) = {t}
ShareInv == \A c \in Conns : c \in unguarded \/ Guarded(c)

(* As long as the pool keeps its size, the places say where the scan is ... *)
InRange(t) ==
  /\ pc[t] \in {"got", "reconnect"} => index[t] < MAX_CONNECT_NUM
  /\ pc[t] = "scan" => index[t] <= MAX_CONNECT_NUM
  /\ pc[t] = "none found" => index[t] = MAX_CONNECT_NUM
(* ... and a marked connection has somebody who will free it.               *)
WillFree(c, t) ==
  \/ t \in Users(c) /\ (pc[t] # "use" \/ threadID[c] = t)
  \/ /\ t \in Sessions /\ threadID[c] = t
     /\ pc[t] = "hangUp" \/ (pc[t] = "ending" /\ index[t] <= c)
Answered(c) == c < MAX_CONNECT_NUM /\ \E t \in Threads : WillFree(c, t)
MarkInv ==
  resized \/ /\ \A t \in Threads : InRange(t)
             /\ \A c \in Conns : connStat[c] = 1 => Answered(c)

(* While the tables are locked some thread will unlock them, or the last    *)
(* update failed.                                                           *)
WillUnlock(r) ==
  \/ mine[r] /\ pc[r] \in {"wait", "getTable", "loaded", "resetSyn"} \cup CallPlaces
  \/ pc[r] \in {"waitPar", "getEposPar", "resize", "resetSynPar"}
SynInv ==
  /\ \A r \in Refreshers : pc[r] = "setSyn" => mine[r]
  /\ syn_flag = 1 => failedUpdate \/ \E r \in Refreshers : WillUnlock(r)

IInv == TypeInv /\ OnlineCount /\ LockInv /\ ShareInv /\ MarkInv /\ SynInv
-----------------------------------------------------------------------------
(* The types, one by one.                                                   *)
AllPlaces == SessionPlaces \cup RefresherPlaces \cup CallPlaces
Sizes == ConnSizes \cup {0}
Limits == OnlineLimits \cup {0}
GlobalsOK ==
  /\ ONLINE_NUM \in Nat /\ TRADE_STAT \in {0, 1} /\ syn_flag \in {0, 1}
  /\ MAX_CONNECT_NUM \in Sizes /\ MAX_ONLINE_NUM \in Limits
PoolOK ==
  /\ connStat \in [Conns -> {0, 1, 2}]
  /\ threadID \in [Conns -> Threads \cup {NoThread}]
  /\ lock \in Threads \cup {Nobody}
  /\ watched \subseteq Conns /\ unguarded \subseteq Conns
PlacesOK ==
  /\ pc \in [Threads -> AllPlaces]
  /\ \A s \in Sessions : pc[s] \in SessionPlaces \cup CallPlaces
  /\ \A r \in Refreshers : pc[r] \in RefresherPlaces \cup CallPlaces
IndexOK == index \in [Threads -> Conns]
CallsOK ==
  /\ tries \in [Threads -> 0 .. ConnTries - 1]
  /\ back \in [Threads -> Returns]
  /\ ok \in [Threads -> BOOLEAN]
ReloadOK ==
  /\ tables \in [Refreshers -> 0 .. NumTables]
  /\ mine \in [Refreshers -> BOOLEAN] /\ maxConNum \in [Refreshers -> Sizes]
FlagsOK ==
  /\ sock \in [Sessions -> {"open", "closed"}]
  /\ failedUpdate \in BOOLEAN /\ resized \in BOOLEAN /\ lowered \in BOOLEAN
  /\ reloads \in Nat

(* TypeOK, in these parts.                                                  *)
LEMMA TypeParts ==
  /\ TypeInv <=> /\ GlobalsOK /\ PoolOK /\ PlacesOK /\ IndexOK /\ CallsOK /\ ReloadOK
                 /\ FlagsOK /\ PlaceInv
  /\ TypeInv' <=> /\ GlobalsOK' /\ PoolOK' /\ PlacesOK' /\ IndexOK' /\ CallsOK' /\ ReloadOK'
                  /\ FlagsOK' /\ PlaceInv'
  BY DEF TypeInv, TypeOK, GlobalsOK, PoolOK, PlacesOK, IndexOK, CallsOK, ReloadOK, FlagsOK,
         AllPlaces, Sizes, Limits

(* The connections are the numbers up to the largest size of the pool.      *)
LEMMA ConnRange ==
  /\ Last \in Nat \ {0} /\ Conns = 0 .. Last
  /\ \A n \in Sizes : n \in 0 .. Last
<1>1. Last \in ConnSizes /\ \A k \in ConnSizes : k <= Last
  BY ServerAssumption DEF Last
<1>2. ConnSizes \subseteq Nat \ {0}
  BY ServerAssumption
<1>3. Conns = 0 .. Last
  BY DEF Conns, Last
<1> QED
  BY <1>1, <1>2, <1>3 DEF Sizes

(* A thread is a session or a thread that reloads, not both.                *)
LEMMA ThreadKinds ==
  /\ Threads = Sessions \cup Refreshers
  /\ Sessions \cap Refreshers = {} /\ NoThread \notin Threads
  /\ Sessions \subseteq Threads /\ Refreshers \subseteq Threads
  BY ServerAssumption DEF Threads

(* Moving a thread to a place of its own keeps the types.                   *)
LEMMA Move ==
  ASSUME PlacesOK, NEW t \in Threads, NEW p, Go(t, p),
         t \in Sessions => p \in SessionPlaces \cup CallPlaces,
         t \in Refreshers => p \in RefresherPlaces \cup CallPlaces
  PROVE  /\ PlacesOK' /\ pc'[t] = p /\ \A u \in Threads \ {t} : pc'[u] = pc[u]
<1>1. p \in AllPlaces
  BY ThreadKinds DEF AllPlaces
<1> QED
  BY <1>1, ThreadKinds DEF PlacesOK, Go

(* The calls of Menu_main_hdl before the menu.                              *)
FirstStep(s) ==
  \/ GetAgreeFlag(s) \/ GetEncryptType(s) \/ SetEncryptType(s) \/ GetEposTerm(s) \/ GetDBtime(s)
(* Each of them begins a call, or goes on without it.                       *)
FirstPlaces == {"getEncryptType", "setEncryptType", "getEposTerm", "getDBtime", "setTradeStat"}
LEMMA FirstCalls ==
  ASSUME NEW s \in Sessions, FirstStep(s), TypeInv
  PROVE  /\ UNCHANGED <<poolVars, reloadVars, ONLINE_NUM, TRADE_STAT, sock, watched>>
         /\ ok' \in [Threads -> BOOLEAN]
         /\ pc[s] \in FirstPlaces \cup {"getAgreeFlag"}
         /\ \/ \E p \in FirstPlaces : Call(s, p)
            \/ \E p \in FirstPlaces \cup {"hangUp"} : Go(s, p) /\ UNCHANGED back
<1> USE TypeParts DEF CallsOK, FirstPlaces, At
<1>1. CASE GetAgreeFlag(s)
  BY <1>1 DEF GetAgreeFlag
<1>2. CASE GetEncryptType(s)
  BY <1>2 DEF GetEncryptType
<1>3. CASE SetEncryptType(s)
  BY <1>3 DEF SetEncryptType
<1>4. CASE GetEposTerm(s)
  BY <1>4 DEF GetEposTerm
<1>5. CASE GetDBtime(s)
  BY <1>5 DEF GetDBtime
<1> QED
  BY <1>1, <1>2, <1>3, <1>4, <1>5 DEF FirstStep

(* What a session and a thread that reloads do besides database calls.      *)
SessionStep(s) ==
  \/ Accept(s) \/ Enter(s) \/ FirstStep(s) \/ SetTradeStat(s) \/ TestTerm(s) \/ TestLock(s)
  \/ EndRead(s) \/ Turn(s) \/ Throw(s) \/ HangUp(s) \/ Cleanup(s) \/ Leave(s)
RefresherStep(r) ==
  \/ OnFlashDB(r) \/ SetSyn(r) \/ WaitForidlesse(r) \/ GetTable(r) \/ Loaded(r) \/ ResetSyn(r)
  \/ OnUpdatePar(r) \/ SetSynPar(r) \/ GetEposPar(r) \/ Resize(r) \/ ResetSynPar(r)
  \/ OnChangeStat(r)

(* The two outcomes of a look at a connection that is in use or past the    *)
(* end, and the three of RecordThread.                                      *)
LooksOn(t) ==
  /\ At(t, "scan") /\ index[t] < MAX_CONNECT_NUM
  /\ index' = [index EXCEPT ![t] = @ + 1]
  /\ UNCHANGED <<pc, lock>>
FindsNone(t) ==
  /\ At(t, "scan") /\ ~(index[t] < MAX_CONNECT_NUM)
  /\ Go(t, "none found") /\ lock' = Nobody
  /\ UNCHANGED index
(* PassOver does the one or the other.                                      *)
LEMMA PassOverCases ==
  ASSUME NEW t \in Threads, PassOver(t)
  PROVE  /\ LooksOn(t) \/ FindsNone(t)
         /\ UNCHANGED <<connStat, threadID, tries, unguarded, callVars, reloadVars, ONLINE_NUM,
                        TRADE_STAT, sock, watched>>
  BY DEF PassOver, LooksOn, FindsNone

Records(t) ==
  /\ pc[t] \in {"got", "none found"} /\ index[t] # MAX_CONNECT_NUM
  /\ threadID' = [threadID EXCEPT ![index[t]] = t]
  /\ Go(t, "use")
  /\ unguarded' = IF At(t, "got") THEN unguarded ELSE unguarded \cup {index[t]}
  /\ UNCHANGED <<index, tries, back, ok>>
SearchesAgain(t) ==
  /\ pc[t] \in {"got", "none found"} /\ index[t] = MAX_CONNECT_NUM
  /\ tries[t] + 1 < ConnTries
  /\ Go(t, "getConnStat")
  /\ tries' = [tries EXCEPT ![t] = @ + 1]
  /\ UNCHANGED <<index, back, ok, threadID, unguarded>>
GivesUp(t) ==
  /\ pc[t] \in {"got", "none found"} /\ index[t] = MAX_CONNECT_NUM
  /\ Return(t, FALSE)
  /\ UNCHANGED <<threadID, unguarded>>
(* RecordThread does one of the three.                                      *)
LEMMA RecordCases ==
  ASSUME NEW t \in Threads, RecordThread(t)
  PROVE  /\ Records(t) \/ SearchesAgain(t) \/ GivesUp(t)
         /\ UNCHANGED <<connStat, lock, reloadVars, ONLINE_NUM, TRADE_STAT, sock, watched>>
  BY DEF RecordThread, Records, SearchesAgain, GivesUp

(* A call that is over goes back to where it was begun.                     *)
LEMMA ReturnPlaces ==
  ASSUME TypeInv, NEW t \in Threads, NEW b \in BOOLEAN, Return(t, b), pc[t] \in CallPlaces,
         UNCHANGED tables
  PROVE  /\ PlacesOK' /\ IndexOK' /\ CallsOK' /\ PlaceInv'
<1> USE TypeParts, ThreadKinds DEF Return
<1>1. Go(t, back[t]) /\ back' = [back EXCEPT ![t] = "menu"]
  OBVIOUS
<1>2. /\ t \in Sessions => back[t] \in SessionPlaces
      /\ t \in Refreshers => back[t] \in RefresherPlaces
  BY DEF PlaceInv, CallsOK, Returns, SessionPlaces, RefresherPlaces
<1>3. PlacesOK' /\ pc'[t] = back[t] /\ \A u \in Threads \ {t} : pc'[u] = pc[u]
  BY <1>1, <1>2, Move
<1>4. IndexOK'
  BY ConnRange DEF IndexOK
<1>5. CallsOK'
  <2>1. tries' \in [Threads -> 0 .. ConnTries - 1]
    BY ServerAssumption DEF CallsOK
  <2>2. back' \in [Threads -> Returns]
    BY DEF CallsOK, Returns
  <2>3. \E v \in BOOLEAN : ok' = [ok EXCEPT ![t] = v]
    BY DEF CallsOK
  <2>4. ok' \in [Threads -> BOOLEAN]
    BY <2>3 DEF CallsOK
  <2> QED
    BY <2>1, <2>2, <2>4 DEF CallsOK
<1>6. back[t] \notin CallPlaces
  BY DEF CallsOK, CallPlaces, Returns
<1>7. \A u \in Threads \ {t} : back'[u] = back[u] /\ index'[u] = index[u]
  BY DEF CallsOK, IndexOK
<1>8. back'[t] = "menu"
  BY DEF CallsOK
<1>9. PlaceInv'
  <2>1. \A s \in Sessions : back'[s] # "loaded"
    BY <1>7, <1>8 DEF PlaceInv
  <2>2. \A r \in Refreshers : pc'[r] \in CallPlaces => back'[r] = "loaded"
    BY <1>3, <1>6, <1>7 DEF PlaceInv
  <2>3. \A r \in Refreshers : pc'[r] \in CallPlaces \cup {"loaded"} => tables'[r] < NumTables
    BY <1>3 DEF PlaceInv
  <2>4. \A u \in Threads : pc'[u] = "reconnect" => index'[u] < Last
    BY <1>3, <1>6, <1>7 DEF PlaceInv, CallPlaces
  <2> QED
    BY <2>1, <2>2, <2>3, <2>4 DEF PlaceInv
<1> QED
  BY <1>3, <1>4, <1>5, <1>9

(* The numbers that bound the scan are numbers.                             *)
LEMMA Numbers ==
  ASSUME TypeInv
  PROVE  /\ MAX_CONNECT_NUM \in 0 .. Last /\ Last \in Nat
         /\ \A t \in Threads : index[t] \in 0 .. Last
         /\ \A t \in Threads : tries[t] \in Nat
         /\ ConnTries \in Nat
<1>1. MAX_CONNECT_NUM \in 0 .. Last /\ Last \in Nat
  BY TypeParts, ConnRange DEF GlobalsOK
<1>2. \A t \in Threads : index[t] \in 0 .. Last
  BY TypeParts, ConnRange DEF IndexOK
<1>3. \A t \in Threads : tries[t] \in Nat
  BY TypeParts, ServerAssumption DEF CallsOK
<1> QED
  BY <1>1, <1>2, <1>3, ServerAssumption

(* A thread moves to a place outside its calls.                             *)
LEMMA OutsideCalls ==
  ASSUME TypeInv, NEW t \in Threads, NEW p, Go(t, p), p \notin CallPlaces \cup {"loaded"},
         UNCHANGED <<back, index, tables>>
  PROVE  PlaceInv'
<1>1. pc'[t] = p /\ \A u \in Threads \ {t} : pc'[u] = pc[u]
  BY TypeParts DEF Go, PlacesOK
<1> QED
  BY <1>1, TypeParts, ThreadKinds DEF PlaceInv, CallPlaces

(* A step within a call, other than to a connection that is opened again.   *)
LEMMA GoesOnCalling ==
  ASSUME TypeInv, NEW t \in Threads, NEW p \in CallPlaces \ {"reconnect"}, Go(t, p),
         pc[t] \in CallPlaces, UNCHANGED <<back, tables>>,
         \A u \in Threads \ {t} : index'[u] = index[u]
  PROVE  PlaceInv'
<1> USE TypeParts, ThreadKinds
<1>1. pc'[t] = p /\ \A u \in Threads \ {t} : pc'[u] = pc[u]
  BY DEF Go, PlacesOK
<1>2. \A s \in Sessions : back'[s] # "loaded"
  BY DEF PlaceInv
<1>3. \A r \in Refreshers : pc'[r] \in CallPlaces => back'[r] = "loaded"
  BY <1>1 DEF PlaceInv
<1>4. \A r \in Refreshers : pc'[r] \in CallPlaces \cup {"loaded"} => tables'[r] < NumTables
  BY <1>1 DEF PlaceInv
<1>5. \A u \in Threads : pc'[u] = "reconnect" => index'[u] < Last
  BY <1>1 DEF PlaceInv
<1> QED
  BY <1>2, <1>3, <1>4, <1>5 DEF PlaceInv

(* A thread begins a call.                                                  *)
LEMMA BeginsCall ==
  ASSUME TypeInv, NEW t \in Threads, NEW p, Call(t, p), UNCHANGED <<index, tables>>,
         t \in Sessions => p # "loaded",
         t \in Refreshers => p = "loaded" /\ tables[t] < NumTables
  PROVE  PlaceInv'
<1>1. pc'[t] = "getConnStat" /\ \A u \in Threads \ {t} : pc'[u] = pc[u]
  BY TypeParts DEF Call, Go, PlacesOK
<1>2. back'[t] = p /\ \A u \in Threads \ {t} : back'[u] = back[u]
  BY TypeParts DEF Call, CallsOK
<1> QED
  BY <1>1, <1>2, TypeParts, ThreadKinds DEF PlaceInv, CallPlaces

(* The counters and flags; MAX_CONNECT_NUM takes a value of the file or 0.  *)
LEMMA GlobalsOKStep ==
  ASSUME TypeInv, [Next]_vars, ONLINE_NUM' \in Nat
  PROVE  GlobalsOK'
<1> USE TypeParts, ConnRange, ThreadKinds, ServerAssumption DEF GlobalsOK, Sizes, Limits, limits,
   poolVars, callVars, reloadVars, Go, At, Nobody
<1>1. ASSUME NEW t \in Threads, DatabaseCall(t) PROVE GlobalsOK'
  BY <1>1 DEF DatabaseCall, LockConnStat, Take, TakeBroken, Reconnect, PassOver, RecordThread,
     Return, EndStatement
<1>2. ASSUME NEW s \in Sessions, SessionStep(s) PROVE GlobalsOK'
  BY <1>2, FirstCalls DEF SessionStep, Accept, Enter, Call, SetTradeStat, TestTerm, TestLock,
     EndRead, Turn, Throw, HangUp, Cleanup, Free, Leave
<1>3. ASSUME NEW r \in Refreshers, RefresherStep(r) PROVE GlobalsOK'
  BY <1>3 DEF RefresherStep, OnFlashDB, SetSyn, WaitForidlesse, GetTable, Call, Loaded,
     ResetSyn, OnUpdatePar, SetSynPar, GetEposPar, Resize, ResetSynPar, OnChangeStat
<1>4. CASE (\E c \in Conns : Expire(c)) \/ FreeExpired
  BY <1>4 DEF Expire, FreeExpired, Free
<1>5. CASE UNCHANGED vars
  BY <1>5 DEF vars
<1> QED
  BY <1>1, <1>2, <1>3, <1>4, <1>5
     DEF Next, Session, Refresher, SessionStep, RefresherStep, FirstStep

(* The entries of the pool.                                                 *)
LEMMA PoolOKStep ==
  ASSUME TypeInv, [Next]_vars, ONLINE_NUM' \in Nat
  PROVE  PoolOK'
<1> USE TypeParts, ConnRange, ThreadKinds, ServerAssumption DEF PoolOK, IndexOK, poolVars,
   callVars, reloadVars, Go, At, Nobody
<1>1. ASSUME NEW t \in Threads, DatabaseCall(t) PROVE PoolOK'
  <2>1. CASE LockConnStat(t) \/ PassOver(t)
    BY <2>1 DEF LockConnStat, PassOver
  <2>2. CASE Take(t)
    BY <2>2 DEF Take
  <2>3. CASE TakeBroken(t)
    BY <2>3 DEF TakeBroken
  <2>4. CASE Reconnect(t)
    BY <2>4 DEF Reconnect
  <2>5. CASE RecordThread(t)
    <3>1. CASE Records(t)
      <4>1. threadID' = [threadID EXCEPT ![index[t]] = t]
        BY <3>1 DEF Records
      <4>2. unguarded' \subseteq unguarded \cup {index[t]} /\ index[t] \in Conns
        BY <3>1 DEF Records
      <4>3. UNCHANGED <<connStat, lock, watched>>
        BY <2>5, RecordCases
      <4> QED
        BY <4>1, <4>2, <4>3
    <3>2. CASE SearchesAgain(t)
      BY <2>5, RecordCases, <3>2 DEF SearchesAgain
    <3>3. CASE GivesUp(t)
      BY <2>5, RecordCases, <3>3 DEF GivesUp, Return
    <3> QED
      BY <2>5, RecordCases, <3>1, <3>2, <3>3
  <2>6. CASE EndStatement(t)
    BY <2>6 DEF EndStatement, Return
  <2> QED
    BY <1>1, <2>1, <2>2, <2>3, <2>4, <2>5, <2>6 DEF DatabaseCall
<1>2. ASSUME NEW s \in Sessions, SessionStep(s) PROVE PoolOK'
  <2>1. CASE Accept(s) \/ Enter(s) \/ FirstStep(s) \/ SetTradeStat(s) \/ TestTerm(s) \/
     TestLock(s) \/ EndRead(s) \/ Turn(s) \/ Throw(s) \/ HangUp(s) \/ Leave(s)
    BY <2>1, FirstCalls DEF Accept, Enter, Call, SetTradeStat, TestTerm, TestLock, EndRead,
       Turn, Throw, HangUp, Leave
  <2>2. CASE Cleanup(s)
    <3>1. CASE connStat[index[s]] = 1 /\ threadID[index[s]] = s
      <4>1. connStat' \in [Conns -> {0, 1, 2}] /\ unguarded' \subseteq Conns
        <5>1. index[s] \in Conns
          OBVIOUS
        <5>2. connStat' = [connStat EXCEPT ![index[s]] = 0]
          BY <2>2, <3>1 DEF Cleanup, Free
        <5>3. unguarded' = unguarded \/ unguarded' = unguarded \cup {index[s]}
          BY <2>2, <3>1 DEF Cleanup, Free
        <5> QED
          BY <5>1, <5>2, <5>3
      <4>2. UNCHANGED <<threadID, lock, watched>>
        BY <2>2 DEF Cleanup
      <4> QED
        BY <4>1, <4>2
    <3>2. CASE ~(connStat[index[s]] = 1 /\ threadID[index[s]] = s)
      BY <2>2, <3>2 DEF Cleanup, Free
    <3> QED
      BY <3>1, <3>2
  <2> QED
    BY <1>2, <2>1, <2>2 DEF SessionStep
<1>3. ASSUME NEW r \in Refreshers, RefresherStep(r) PROVE PoolOK'
  <2>1. CASE OnFlashDB(r) \/ SetSyn(r) \/ WaitForidlesse(r) \/ GetTable(r)
    BY <2>1 DEF OnFlashDB, SetSyn, WaitForidlesse, GetTable, Call
  <2>2. CASE Loaded(r) \/ ResetSyn(r) \/ OnUpdatePar(r) \/ SetSynPar(r)
    BY <2>2 DEF Loaded, ResetSyn, OnUpdatePar, SetSynPar
  <2>3. CASE GetEposPar(r) \/ ResetSynPar(r) \/ OnChangeStat(r)
    BY <2>3 DEF GetEposPar, ResetSynPar, OnChangeStat
  <2>4. CASE Resize(r)
    <3>1. connStat' \in [Conns -> {0, 1, 2}]
      BY <2>4 DEF Resize
    <3>2. unguarded' \subseteq Conns
      BY <2>4 DEF Resize
    <3>3. UNCHANGED <<threadID, lock, watched>>
      BY <2>4 DEF Resize
    <3> QED
      BY <3>1, <3>2, <3>3
  <2> QED
    BY <1>3, <2>1, <2>2, <2>3, <2>4, Zenon DEF RefresherStep
<1>4. CASE (\E c \in Conns : Expire(c)) \/ FreeExpired
  <2>1. CASE \E c \in Conns : Expire(c)
    BY <2>1 DEF Expire
  <2>2. CASE FreeExpired
    <3>1. PICK c \in Conns, stat \in {0, 2} : Free(c, NoThread, stat)
      BY <2>2 DEF FreeExpired
    <3>2. connStat' = [connStat EXCEPT ![c] = stat]
      BY <3>1 DEF Free
    <3>3. unguarded' = unguarded \/ unguarded' = unguarded \cup {c}
      BY <3>1 DEF Free
    <3>4. UNCHANGED <<threadID, lock>> /\ watched' = {}
      BY <2>2 DEF FreeExpired
    <3> QED
      BY <3>2, <3>3, <3>4
  <2> QED
    BY <1>4, <2>1, <2>2
<1>5. CASE UNCHANGED vars
  BY <1>5 DEF vars
<1> QED
  BY <1>1, <1>2, <1>3, <1>4, <1>5
     DEF Next, Session, Refresher, SessionStep, RefresherStep, FirstStep

(* Sessions and reloading threads stay in places of their own.              *)
LEMMA PlacesOKStep ==
  ASSUME TypeInv, [Next]_vars, ONLINE_NUM' \in Nat
  PROVE  PlacesOK'
<1> USE TypeParts, ConnRange, ThreadKinds, ServerAssumption DEF PlacesOK, AllPlaces,
   SessionPlaces, RefresherPlaces, CallPlaces, poolVars, callVars, reloadVars, Go, At, Nobody
<1>1. ASSUME NEW t \in Threads, DatabaseCall(t) PROVE PlacesOK'
  <2>1. CASE LockConnStat(t)
    BY <2>1 DEF LockConnStat
  <2>2. CASE Take(t)
    BY <2>2 DEF Take
  <2>3. CASE TakeBroken(t)
    BY <2>3 DEF TakeBroken
  <2>4. CASE Reconnect(t)
    BY <2>4 DEF Reconnect
  <2>5. CASE PassOver(t)
    <3>1. CASE LooksOn(t)
      BY <2>5, PassOverCases, <3>1 DEF LooksOn
    <3>2. CASE FindsNone(t)
      BY <2>5, PassOverCases, <3>2 DEF FindsNone
    <3> QED
      BY <2>5, PassOverCases, <3>1, <3>2
  <2>6. CASE RecordThread(t)
    <3>1. CASE Records(t)
      BY <2>6, RecordCases, <3>1 DEF Records
    <3>2. CASE SearchesAgain(t)
      BY <2>6, RecordCases, <3>2 DEF SearchesAgain
    <3>3. CASE GivesUp(t)
      <4>1. pc[t] \in CallPlaces /\ Return(t, FALSE) /\ UNCHANGED tables
        BY <2>6, RecordCases, <3>3 DEF GivesUp, CallPlaces
      <4> HIDE DEF PlacesOK, IndexOK, CallsOK, PlaceInv
      <4> QED
        BY <4>1, ReturnPlaces
    <3> QED
      BY <2>6, RecordCases, <3>1, <3>2, <3>3
  <2>7. CASE EndStatement(t)
    <3>1. PICK b \in BOOLEAN : Return(t, b)
      BY <2>7 DEF EndStatement
    <3>2. pc[t] \in CallPlaces /\ UNCHANGED tables
      BY <2>7 DEF EndStatement, CallPlaces
    <3> HIDE DEF PlacesOK, IndexOK, CallsOK, PlaceInv
    <3> QED
      BY <3>1, <3>2, ReturnPlaces
  <2> QED
    BY <1>1, <2>1, <2>2, <2>3, <2>4, <2>5, <2>6, <2>7 DEF DatabaseCall
<1>2. ASSUME NEW s \in Sessions, SessionStep(s) PROVE PlacesOK'
  <2>1. CASE Accept(s)
    BY <2>1 DEF Accept
  <2>2. CASE Enter(s)
    <3>1. CASE ONLINE_NUM > MAX_ONLINE_NUM
      BY <2>2, <3>1 DEF Enter
    <3>2. CASE ~(ONLINE_NUM > MAX_ONLINE_NUM)
      BY <2>2, <3>2 DEF Enter
    <3> QED
      BY <3>1, <3>2
  <2>3. CASE FirstStep(s)
    <3>1. PICK p \in FirstPlaces \cup {"hangUp", "getConnStat"} : Go(s, p)
      BY <2>3, FirstCalls DEF Call
    <3>2. p \in SessionPlaces \cup CallPlaces /\ s \in Threads
      BY DEF FirstPlaces
    <3>3. PlacesOK
      OBVIOUS
    <3> HIDE DEF PlacesOK, Go, SessionPlaces, CallPlaces, AllPlaces
    <3> QED
      BY <3>1, <3>2, <3>3, Move
  <2>4. CASE SetTradeStat(s)
    BY <2>4 DEF SetTradeStat
  <2>5. CASE TestTerm(s)
    <3>1. CASE TRADE_STAT = 1 \/ ~ok[s]
      BY <2>5, <3>1 DEF TestTerm
    <3>2. CASE ~(TRADE_STAT = 1 \/ ~ok[s])
      <4>1. Go(s, "menu") /\ s \in Threads
        BY <2>5, <3>2 DEF TestTerm
      <4> QED
        BY <4>1, Move DEF SessionPlaces
    <3> QED
      BY <3>1, <3>2
  <2>6. CASE TestLock(s)
    <3>1. CASE syn_flag = 0
      BY <2>6, <3>1 DEF TestLock
    <3>2. CASE ~(syn_flag = 0)
      BY <2>6, <3>2 DEF TestLock
    <3> QED
      BY <3>1, <3>2
  <2>7. CASE EndRead(s)
    BY <2>7 DEF EndRead
  <2>8. CASE Turn(s)
    BY <2>8 DEF Turn, Call
  <2>9. CASE Throw(s)
    BY <2>9 DEF Throw
  <2>10. CASE HangUp(s)
    BY <2>10 DEF HangUp
  <2>11. CASE Cleanup(s)
    BY <2>11 DEF Cleanup, Free
  <2>12. CASE Leave(s)
    BY <2>12 DEF Leave
  <2> QED
    BY <1>2, <2>1, <2>2, <2>3, <2>4, <2>5, <2>6, <2>7, <2>8, <2>9, <2>10, <2>11, <2>12 DEF
       SessionStep
<1>3. ASSUME NEW r \in Refreshers, RefresherStep(r) PROVE PlacesOK'
  <2>1. CASE OnFlashDB(r)
    BY <2>1 DEF OnFlashDB
  <2>2. CASE SetSyn(r)
    BY <2>2 DEF SetSyn
  <2>3. CASE WaitForidlesse(r)
    BY <2>3 DEF WaitForidlesse
  <2>4. CASE GetTable(r)
    <3>1. CASE tables[r] < NumTables
      BY <2>4, <3>1 DEF GetTable, Call
    <3>2. CASE ~(tables[r] < NumTables)
      BY <2>4, <3>2 DEF GetTable, Call
    <3> QED
      BY <3>1, <3>2
  <2>5. CASE Loaded(r)
    BY <2>5 DEF Loaded
  <2>6. CASE ResetSyn(r)
    BY <2>6 DEF ResetSyn
  <2>7. CASE OnUpdatePar(r)
    BY <2>7 DEF OnUpdatePar
  <2>8. CASE SetSynPar(r)
    BY <2>8 DEF SetSynPar
  <2>9. CASE GetEposPar(r)
    BY <2>9 DEF GetEposPar
  <2>10. CASE Resize(r)
    BY <2>10 DEF Resize
  <2>11. CASE ResetSynPar(r)
    BY <2>11 DEF ResetSynPar
  <2>12. CASE OnChangeStat(r)
    BY <2>12 DEF OnChangeStat
  <2> QED
    BY <1>3, <2>1, <2>2, <2>3, <2>4, <2>5, <2>6, <2>7, <2>8, <2>9, <2>10, <2>11, <2>12 DEF
       RefresherStep
<1>4. CASE (\E c \in Conns : Expire(c)) \/ FreeExpired
  BY <1>4 DEF Expire, FreeExpired, Free
<1>5. CASE UNCHANGED vars
  BY <1>5 DEF vars
<1> QED
  BY <1>1, <1>2, <1>3, <1>4, <1>5
     DEF Next, Session, Refresher, SessionStep, RefresherStep, FirstStep

(* The scan stays within the array, whatever becomes of MAX_CONNECT_NUM.    *)
LEMMA IndexOKStep ==
  ASSUME TypeInv, [Next]_vars, ONLINE_NUM' \in Nat
  PROVE  IndexOK'
<1> USE TypeParts, ConnRange, ThreadKinds, ServerAssumption DEF IndexOK, GlobalsOK, PlaceInv,
   poolVars, callVars, reloadVars, Go, At, Nobody
<1>1. ASSUME NEW t \in Threads, DatabaseCall(t) PROVE IndexOK'
  <2>1. CASE Take(t) \/ TakeBroken(t)
    BY <2>1 DEF Take, TakeBroken
  <2>2. CASE LockConnStat(t)
    BY <2>2 DEF LockConnStat
  <2>3. CASE Reconnect(t)
    BY <2>3, SMTT(30) DEF Reconnect
  <2>4. CASE PassOver(t)
    <3>1. CASE LooksOn(t)
      BY <2>4, PassOverCases, <3>1 DEF LooksOn
    <3>2. CASE FindsNone(t)
      BY <2>4, PassOverCases, <3>2 DEF FindsNone
    <3> QED
      BY <2>4, PassOverCases, <3>1, <3>2
  <2>5. CASE RecordThread(t)
    <3>1. CASE Records(t)
      BY <2>5, RecordCases, <3>1 DEF Records
    <3>2. CASE SearchesAgain(t)
      BY <2>5, RecordCases, <3>2 DEF SearchesAgain
    <3>3. CASE GivesUp(t)
      <4>1. pc[t] \in CallPlaces /\ Return(t, FALSE) /\ UNCHANGED tables
        BY <2>5, RecordCases, <3>3 DEF GivesUp, CallPlaces
      <4> HIDE DEF PlacesOK, IndexOK, CallsOK, PlaceInv
      <4> QED
        BY <4>1, ReturnPlaces
    <3> QED
      BY <2>5, RecordCases, <3>1, <3>2, <3>3
  <2>6. CASE EndStatement(t)
    <3>1. PICK b \in BOOLEAN : Return(t, b)
      BY <2>6 DEF EndStatement
    <3>2. pc[t] \in CallPlaces /\ UNCHANGED tables
      BY <2>6 DEF EndStatement, CallPlaces
    <3> HIDE DEF PlacesOK, IndexOK, CallsOK, PlaceInv
    <3> QED
      BY <3>1, <3>2, ReturnPlaces
  <2> QED
    BY <1>1, <2>1, <2>2, <2>3, <2>4, <2>5, <2>6 DEF DatabaseCall
<1>2. ASSUME NEW s \in Sessions, SessionStep(s) PROVE IndexOK'
  <2>1. CASE Accept(s) \/ Enter(s) \/ FirstStep(s) \/ SetTradeStat(s) \/ TestTerm(s) \/
     TestLock(s) \/ EndRead(s) \/ Turn(s) \/ Throw(s)
    BY <2>1, FirstCalls DEF Accept, Enter, Call, SetTradeStat, TestTerm, TestLock, EndRead,
       Turn, Throw
  <2>2. CASE HangUp(s)
    BY <2>2 DEF HangUp
  <2>3. CASE Cleanup(s)
    BY <2>3 DEF Cleanup, Free
  <2>4. CASE Leave(s)
    BY <2>4 DEF Leave
  <2> QED
    BY <1>2, <2>1, <2>2, <2>3, <2>4 DEF SessionStep
<1>3. ASSUME NEW r \in Refreshers, RefresherStep(r) PROVE IndexOK'
  BY <1>3 DEF RefresherStep, OnFlashDB, SetSyn, WaitForidlesse, GetTable, Call, Loaded,
     ResetSyn, OnUpdatePar, SetSynPar, GetEposPar, Resize, ResetSynPar, OnChangeStat
<1>4. CASE (\E c \in Conns : Expire(c)) \/ FreeExpired
  BY <1>4 DEF Expire, FreeExpired, Free
<1>5. CASE UNCHANGED vars
  BY <1>5 DEF vars
<1> QED
  BY <1>1, <1>2, <1>3, <1>4, <1>5
     DEF Next, Session, Refresher, SessionStep, RefresherStep, FirstStep

(* The local variables of a database call.                                  *)
LEMMA CallsOKStep ==
  ASSUME TypeInv, [Next]_vars, ONLINE_NUM' \in Nat
  PROVE  CallsOK'
<1> USE TypeParts, ConnRange, ThreadKinds, ServerAssumption DEF CallsOK, poolVars, callVars,
   reloadVars, Go, At, Nobody
<1>1. ASSUME NEW t \in Threads, DatabaseCall(t) PROVE CallsOK'
  <2>1. CASE LockConnStat(t) \/ Take(t) \/ TakeBroken(t) \/ Reconnect(t) \/ PassOver(t)
    BY <2>1 DEF LockConnStat, Take, TakeBroken, Reconnect, PassOver
  <2>2. CASE RecordThread(t)
    <3>1. CASE Records(t)
      BY <2>2, RecordCases, <3>1 DEF Records
    <3>2. CASE SearchesAgain(t)
      <4>1. tries[t] + 1 \in 0 .. ConnTries - 1
        <5>1. tries[t] \in Nat /\ tries[t] + 1 < ConnTries /\ ConnTries \in Nat
          BY <3>2, Numbers DEF SearchesAgain
        <5> QED
          BY <5>1
      <4> QED
        BY <2>2, RecordCases, <3>2, <4>1 DEF SearchesAgain
    <3>3. CASE GivesUp(t)
      <4>1. pc[t] \in CallPlaces /\ Return(t, FALSE) /\ UNCHANGED tables
        BY <2>2, RecordCases, <3>3 DEF GivesUp, CallPlaces
      <4> HIDE DEF PlacesOK, IndexOK, CallsOK, PlaceInv
      <4> QED
        BY <4>1, ReturnPlaces
    <3> QED
      BY <2>2, RecordCases, <3>1, <3>2, <3>3
  <2>3. CASE EndStatement(t)
    <3>1. PICK b \in BOOLEAN : Return(t, b)
      BY <2>3 DEF EndStatement
    <3>2. pc[t] \in CallPlaces /\ UNCHANGED tables
      BY <2>3 DEF EndStatement, CallPlaces
    <3> HIDE DEF PlacesOK, IndexOK, CallsOK, PlaceInv
    <3> QED
      BY <3>1, <3>2, ReturnPlaces
  <2> QED
    BY <1>1, <2>1, <2>2, <2>3 DEF DatabaseCall
<1>2. ASSUME NEW s \in Sessions, SessionStep(s) PROVE CallsOK'
  <2>1. CASE Accept(s) \/ Enter(s) \/ SetTradeStat(s) \/ TestLock(s) \/ EndRead(s) \/
     HangUp(s) \/ Cleanup(s) \/ Leave(s)
    BY <2>1 DEF Accept, Enter, SetTradeStat, TestLock, EndRead, HangUp, Cleanup, Free, Leave
  <2>2. CASE FirstStep(s)
    <3>1. PICK p \in FirstPlaces : Call(s, p) \/ UNCHANGED back
      BY <2>2, FirstCalls DEF FirstPlaces
    <3> QED
      BY <2>2, <3>1, FirstCalls DEF Call, FirstPlaces, Returns
  <2>3. CASE TestTerm(s)
    BY <2>3 DEF TestTerm
  <2>4. CASE Turn(s)
    BY <2>4 DEF Turn, Call, Returns
  <2>5. CASE Throw(s)
    BY <2>5 DEF Throw, Returns
  <2> QED
    BY <1>2, <2>1, <2>2, <2>3, <2>4, <2>5 DEF SessionStep
<1>3. ASSUME NEW r \in Refreshers, RefresherStep(r) PROVE CallsOK'
  BY <1>3 DEF RefresherStep, OnFlashDB, SetSyn, WaitForidlesse, GetTable, Call, Loaded,
     ResetSyn, OnUpdatePar, SetSynPar, GetEposPar, Resize, ResetSynPar, OnChangeStat, Returns
<1>4. CASE (\E c \in Conns : Expire(c)) \/ FreeExpired
  BY <1>4 DEF Expire, FreeExpired, Free
<1>5. CASE UNCHANGED vars
  BY <1>5 DEF vars
<1> QED
  BY <1>1, <1>2, <1>3, <1>4, <1>5
     DEF Next, Session, Refresher, SessionStep, RefresherStep, FirstStep

(* getTable counts no table twice.                                          *)
LEMMA ReloadOKStep ==
  ASSUME TypeInv, [Next]_vars, ONLINE_NUM' \in Nat
  PROVE  ReloadOK'
<1> USE TypeParts, ConnRange, ThreadKinds, ServerAssumption DEF ReloadOK, GlobalsOK, Sizes,
   poolVars, callVars, reloadVars, Go, At, Nobody
<1>1. ASSUME NEW t \in Threads, DatabaseCall(t) PROVE ReloadOK'
  BY <1>1 DEF DatabaseCall, LockConnStat, Take, TakeBroken, Reconnect, PassOver, RecordThread,
     Return, EndStatement
<1>2. ASSUME NEW s \in Sessions, SessionStep(s) PROVE ReloadOK'
  BY <1>2, FirstCalls DEF SessionStep, Accept, Enter, Call, SetTradeStat, TestTerm, TestLock,
     EndRead, Turn, Throw, HangUp, Cleanup, Free, Leave
<1>3. ASSUME NEW r \in Refreshers, RefresherStep(r) PROVE ReloadOK'
  <2>1. CASE OnFlashDB(r)
    BY <2>1 DEF OnFlashDB
  <2>2. CASE SetSyn(r)
    BY <2>2 DEF SetSyn
  <2>3. CASE WaitForidlesse(r)
    BY <2>3 DEF WaitForidlesse
  <2>4. CASE GetTable(r)
    BY <2>4 DEF GetTable, Call
  <2>5. CASE Loaded(r)
    <3>1. tables[r] < NumTables
      BY <2>5 DEF Loaded, PlaceInv
    <3>2. tables[r] + 1 \in 0 .. NumTables /\ NumTables \in 0 .. NumTables
      BY <3>1
    <3> QED
      BY <2>5, <3>2 DEF Loaded
  <2>6. CASE ResetSyn(r)
    BY <2>6 DEF ResetSyn
  <2>7. CASE OnUpdatePar(r)
    BY <2>7 DEF OnUpdatePar
  <2>8. CASE SetSynPar(r)
    BY <2>8 DEF SetSynPar
  <2>9. CASE GetEposPar(r)
    BY <2>9 DEF GetEposPar
  <2>10. CASE Resize(r)
    BY <2>10 DEF Resize
  <2>11. CASE ResetSynPar(r)
    BY <2>11 DEF ResetSynPar
  <2>12. CASE OnChangeStat(r)
    BY <2>12 DEF OnChangeStat
  <2> QED
    BY <1>3, <2>1, <2>2, <2>3, <2>4, <2>5, <2>6, <2>7, <2>8, <2>9, <2>10, <2>11, <2>12 DEF
       RefresherStep
<1>4. CASE (\E c \in Conns : Expire(c)) \/ FreeExpired
  BY <1>4 DEF Expire, FreeExpired, Free
<1>5. CASE UNCHANGED vars
  BY <1>5 DEF vars
<1> QED
  BY <1>1, <1>2, <1>3, <1>4, <1>5
     DEF Next, Session, Refresher, SessionStep, RefresherStep, FirstStep

(* Sockets and flags.                                                       *)
LEMMA FlagsOKStep ==
  ASSUME TypeInv, [Next]_vars, ONLINE_NUM' \in Nat
  PROVE  FlagsOK'
<1> USE TypeParts, ConnRange, ThreadKinds, ServerAssumption DEF FlagsOK, limits, poolVars,
   callVars, reloadVars, Go, At, Nobody
<1>1. ASSUME NEW t \in Threads, DatabaseCall(t) PROVE FlagsOK'
  BY <1>1 DEF DatabaseCall, LockConnStat, Take, TakeBroken, Reconnect, PassOver, RecordThread,
     Return, EndStatement
<1>2. ASSUME NEW s \in Sessions, SessionStep(s) PROVE FlagsOK'
  BY <1>2, FirstCalls DEF SessionStep, Accept, Enter, Call, SetTradeStat, TestTerm, TestLock,
     EndRead, Turn, Throw, HangUp, Cleanup, Free, Leave
<1>3. ASSUME NEW r \in Refreshers, RefresherStep(r) PROVE FlagsOK'
  <2>1. CASE OnFlashDB(r) \/ OnUpdatePar(r)
    BY <2>1 DEF OnFlashDB, OnUpdatePar, Begin
  <2>2. CASE SetSyn(r) \/ WaitForidlesse(r) \/ GetTable(r) \/ Loaded(r) \/ ResetSyn(r)
    BY <2>2 DEF SetSyn, WaitForidlesse, GetTable, Call, Loaded, ResetSyn
  <2>3. CASE GetEposPar(r)
    <3>1. UNCHANGED <<sock, reloads>> /\ (failedUpdate' = TRUE \/ UNCHANGED failedUpdate)
      BY <2>3 DEF GetEposPar
    <3>2. resized' \in BOOLEAN /\ lowered' \in BOOLEAN
      BY <2>3 DEF GetEposPar
    <3> QED
      BY <3>1, <3>2
  <2>4. CASE SetSynPar(r) \/ Resize(r) \/ ResetSynPar(r) \/ OnChangeStat(r)
    BY <2>4 DEF SetSynPar, Resize, ResetSynPar, OnChangeStat
  <2> QED
    BY <1>3, <2>1, <2>2, <2>3, <2>4 DEF RefresherStep
<1>4. CASE (\E c \in Conns : Expire(c)) \/ FreeExpired
  BY <1>4 DEF Expire, FreeExpired, Free
<1>5. CASE UNCHANGED vars
  BY <1>5 DEF vars
<1> QED
  BY <1>1, <1>2, <1>3, <1>4, <1>5
     DEF Next, Session, Refresher, SessionStep, RefresherStep, FirstStep

(* Every place is entered with what its invariant asks for.                 *)
LEMMA PlaceInvStep ==
  ASSUME TypeInv, [Next]_vars, ONLINE_NUM' \in Nat
  PROVE  PlaceInv'
<1> USE TypeParts, ThreadKinds DEF PlaceInv, PlacesOK, IndexOK, CallsOK, ReloadOK, CallPlaces,
   poolVars, callVars, reloadVars, Go, At, Nobody
<1>1. ASSUME NEW t \in Threads, DatabaseCall(t) PROVE PlaceInv'
  <2>1. CASE LockConnStat(t)
    BY <2>1 DEF LockConnStat
  <2>2. CASE Take(t)
    BY <2>2 DEF Take
  <2>3. CASE TakeBroken(t)
    <3>1. index[t] < MAX_CONNECT_NUM
      BY <2>3 DEF TakeBroken
    <3> HIDE DEF PlaceInv, PlacesOK, IndexOK, CallsOK, ReloadOK, CallPlaces
    <3>2. index[t] < Last
      BY <3>1, Numbers
    <3> USE DEF PlaceInv, PlacesOK, IndexOK, CallsOK, CallPlaces
    <3> QED
      BY <2>3, <3>2 DEF TakeBroken
  <2>4. CASE Reconnect(t)
    <3>1. PICK p \in {"got", "scan"} : Go(t, p)
      BY <2>4 DEF Reconnect
    <3>2. pc[t] \in CallPlaces /\ UNCHANGED <<back, tables>>
      BY <2>4 DEF Reconnect
    <3>3. \A u \in Threads \ {t} : index'[u] = index[u]
      BY <2>4 DEF Reconnect
    <3>4. p \in CallPlaces \ {"reconnect"}
      BY DEF CallPlaces
    <3> HIDE DEF PlaceInv, Go
    <3> QED
      BY <3>1, <3>2, <3>3, <3>4, GoesOnCalling
  <2>5. CASE PassOver(t)
    <3>1. CASE LooksOn(t)
      BY <2>5, PassOverCases, <3>1 DEF LooksOn
    <3>2. CASE FindsNone(t)
      BY <2>5, PassOverCases, <3>2 DEF FindsNone
    <3> QED
      BY <2>5, PassOverCases, <3>1, <3>2
  <2>6. CASE RecordThread(t)
    <3>1. CASE Records(t)
      BY <2>6, RecordCases, <3>1 DEF Records
    <3>2. CASE SearchesAgain(t)
      <4>1. Go(t, "getConnStat") /\ pc[t] \in CallPlaces
        BY <3>2 DEF SearchesAgain
      <4>2. UNCHANGED <<back, index, tables>>
        BY <2>6, RecordCases, <3>2 DEF SearchesAgain
      <4>3. "getConnStat" \in CallPlaces \ {"reconnect"}
        BY DEF CallPlaces
      <4> HIDE DEF PlaceInv, Go
      <4> QED
        BY <4>1, <4>2, <4>3, GoesOnCalling
    <3>3. CASE GivesUp(t)
      <4>1. pc[t] \in CallPlaces /\ Return(t, FALSE) /\ UNCHANGED tables
        BY <2>6, RecordCases, <3>3 DEF GivesUp, CallPlaces
      <4> HIDE DEF PlacesOK, IndexOK, CallsOK, PlaceInv
      <4> QED
        BY <4>1, ReturnPlaces
    <3> QED
      BY <2>6, RecordCases, <3>1, <3>2, <3>3
  <2>7. CASE EndStatement(t)
    <3>1. PICK b \in BOOLEAN : Return(t, b)
      BY <2>7 DEF EndStatement
    <3>2. pc[t] \in CallPlaces /\ UNCHANGED tables
      BY <2>7 DEF EndStatement, CallPlaces
    <3> HIDE DEF PlacesOK, IndexOK, CallsOK, PlaceInv
    <3> QED
      BY <3>1, <3>2, ReturnPlaces
  <2> QED
    BY <1>1, <2>1, <2>2, <2>3, <2>4, <2>5, <2>6, <2>7 DEF DatabaseCall
<1>2. ASSUME NEW s \in Sessions, SessionStep(s) PROVE PlaceInv'
  <2>1. CASE Accept(s)
    BY <2>1 DEF Accept
  <2>2. CASE Enter(s)
    <3>1. PICK p \in {"none", "getAgreeFlag"} : Go(s, p) /\ UNCHANGED <<back, index, tables>>
      BY <2>2 DEF Enter
    <3>2. p \notin CallPlaces \cup {"loaded"} /\ s \in Threads
      BY DEF CallPlaces
    <3> HIDE DEF PlaceInv, Go
    <3> QED
      BY <3>1, <3>2, OutsideCalls
  <2>3. CASE FirstStep(s)
    <3>1. UNCHANGED <<index, tables>> /\ s \in Threads
      BY <2>3, FirstCalls
    <3>2. ASSUME NEW p \in FirstPlaces, Call(s, p) PROVE PlaceInv'
      <4>1. p # "loaded" /\ s \notin Refreshers
        BY DEF FirstPlaces
      <4> HIDE DEF PlaceInv
      <4> QED
        BY <3>1, <3>2, <4>1, BeginsCall
    <3>3. ASSUME NEW p \in FirstPlaces \cup {"hangUp"}, Go(s, p), UNCHANGED back PROVE PlaceInv'
      <4>1. p \notin CallPlaces \cup {"loaded"}
        BY DEF FirstPlaces, CallPlaces
      <4> HIDE DEF PlaceInv, Go
      <4> QED
        BY <3>1, <3>3, <4>1, OutsideCalls
    <3> HIDE DEF PlaceInv, Go
    <3> QED
      BY <2>3, <3>2, <3>3, FirstCalls
  <2>4. CASE SetTradeStat(s)
    BY <2>4 DEF SetTradeStat
  <2>5. CASE TestTerm(s)
    <3>1. PICK p \in {"hangUp", "menu"} : Go(s, p) /\ UNCHANGED <<back, index, tables>>
      BY <2>5 DEF TestTerm
    <3>2. p \notin CallPlaces \cup {"loaded"} /\ s \in Threads
      BY DEF CallPlaces
    <3> HIDE DEF PlaceInv, Go
    <3> QED
      BY <3>1, <3>2, OutsideCalls
  <2>6. CASE TestLock(s)
    <3>1. PICK p \in {"reading", "hangUp"} : Go(s, p) /\ UNCHANGED <<back, index, tables>>
      BY <2>6 DEF TestLock
    <3>2. p \notin CallPlaces \cup {"loaded"} /\ s \in Threads
      BY DEF CallPlaces
    <3> HIDE DEF PlaceInv, Go
    <3> QED
      BY <3>1, <3>2, OutsideCalls
  <2>7. CASE EndRead(s)
    BY <2>7 DEF EndRead
  <2>8. CASE Turn(s)
    <3>1. CASE Call(s, "menu")
      <4>1. UNCHANGED <<index, tables>> /\ s \in Threads
        BY <2>8 DEF Turn
      <4> HIDE DEF PlaceInv
      <4> QED
        BY <3>1, <4>1, BeginsCall
    <3>2. CASE ~Call(s, "menu")
      BY <2>8, <3>2 DEF Turn
    <3> QED
      BY <3>1, <3>2
  <2>9. CASE Throw(s)
    BY <2>9 DEF Throw
  <2>10. CASE HangUp(s)
    BY <2>10 DEF HangUp
  <2>11. CASE Cleanup(s)
    BY <2>11 DEF Cleanup, Free
  <2>12. CASE Leave(s)
    BY <2>12 DEF Leave
  <2> QED
    BY <1>2, <2>1, <2>2, <2>3, <2>4, <2>5, <2>6, <2>7, <2>8, <2>9, <2>10, <2>11, <2>12 DEF
       SessionStep
<1>3. ASSUME NEW r \in Refreshers, RefresherStep(r) PROVE PlaceInv'
  <2>1. CASE OnFlashDB(r)
    BY <2>1 DEF OnFlashDB
  <2>2. CASE SetSyn(r)
    BY <2>2 DEF SetSyn
  <2>3. CASE WaitForidlesse(r)
    BY <2>3 DEF WaitForidlesse
  <2>4. CASE GetTable(r)
    <3>1. CASE tables[r] < NumTables
      <4>1. Call(r, "loaded") /\ UNCHANGED <<index, tables>> /\ r \in Threads
        BY <2>4, <3>1 DEF GetTable
      <4> HIDE DEF PlaceInv
      <4> QED
        BY <3>1, <4>1, BeginsCall
    <3>2. CASE ~(tables[r] < NumTables)
      <4>1. Go(r, "resetSyn") /\ UNCHANGED <<back, index, tables>>
        BY <2>4, <3>2 DEF GetTable
      <4>2. "resetSyn" \notin CallPlaces \cup {"loaded"} /\ r \in Threads
        BY DEF CallPlaces
      <4> HIDE DEF PlaceInv, Go
      <4> QED
        BY <4>1, <4>2, OutsideCalls
    <3> QED
      BY <3>1, <3>2
  <2>5. CASE Loaded(r)
    BY <2>5 DEF Loaded
  <2>6. CASE ResetSyn(r)
    BY <2>6 DEF ResetSyn
  <2>7. CASE OnUpdatePar(r)
    BY <2>7 DEF OnUpdatePar
  <2>8. CASE SetSynPar(r)
    BY <2>8 DEF SetSynPar
  <2>9. CASE GetEposPar(r)
    <3>1. PICK p \in {"resize", "idle"} : Go(r, p) /\ UNCHANGED <<back, index, tables>>
      BY <2>9 DEF GetEposPar
    <3>2. p \notin CallPlaces \cup {"loaded"} /\ r \in Threads
      BY DEF CallPlaces
    <3> HIDE DEF PlaceInv, Go
    <3> QED
      BY <3>1, <3>2, OutsideCalls
  <2>10. CASE Resize(r)
    BY <2>10 DEF Resize
  <2>11. CASE ResetSynPar(r)
    BY <2>11 DEF ResetSynPar
  <2>12. CASE OnChangeStat(r)
    BY <2>12 DEF OnChangeStat
  <2> QED
    BY <1>3, <2>1, <2>2, <2>3, <2>4, <2>5, <2>6, <2>7, <2>8, <2>9, <2>10, <2>11, <2>12 DEF
       RefresherStep
<1>4. CASE (\E c \in Conns : Expire(c)) \/ FreeExpired
  BY <1>4 DEF Expire, FreeExpired, Free
<1>5. CASE UNCHANGED vars
  BY <1>5 DEF vars
<1> QED
  BY <1>1, <1>2, <1>3, <1>4, <1>5
     DEF Next, Session, Refresher, SessionStep, RefresherStep, FirstStep

(* A thread leaves the places and the scans of the others alone.            *)
OthersStay(t) ==
  \A u \in Threads \ {t} : pc'[u] = pc[u] /\ index'[u] = index[u]

(* A call that is over leaves its places.                                   *)
LEMMA ReturnStays ==
  ASSUME TypeInv, NEW t \in Threads, NEW b, Return(t, b), pc[t] \in CallPlaces
  PROVE  /\ OthersStay(t)
         /\ pc'[t] \in Returns
         /\ t \in Refreshers => pc'[t] = "loaded"
<1> USE TypeParts
<1>1. pc'[t] = back[t] /\ \A u \in Threads \ {t} : pc'[u] = pc[u]
  BY DEF Return, Go, PlacesOK
<1>2. \A u \in Threads \ {t} : index'[u] = index[u]
  BY DEF Return, IndexOK
<1>3. back[t] \in Returns
  BY DEF CallsOK
<1>4. t \in Refreshers => back[t] = "loaded"
  BY DEF PlaceInv
<1> QED
  BY <1>1, <1>2, <1>3, <1>4 DEF OthersStay

(* A database call stays in its places until it returns.                    *)
LEMMA CallStays ==
  ASSUME TypeInv, NEW t \in Threads, DatabaseCall(t)
  PROVE  /\ OthersStay(t)
         /\ pc[t] \in CallPlaces
         /\ pc'[t] \in CallPlaces \cup Returns
         /\ t \in Refreshers => pc'[t] \in CallPlaces \cup {"loaded"}
<1> USE TypeParts DEF OthersStay, PlacesOK, IndexOK, At, Go
<1>1. CASE LockConnStat(t) \/ Take(t) \/ TakeBroken(t) \/ Reconnect(t)
  <2>1. CASE LockConnStat(t)
    BY <2>1 DEF LockConnStat, CallPlaces
  <2>2. CASE Take(t)
    BY <2>2 DEF Take, CallPlaces
  <2>3. CASE TakeBroken(t)
    BY <2>3 DEF TakeBroken, CallPlaces
  <2>4. CASE Reconnect(t)
    BY <2>4 DEF Reconnect, CallPlaces
  <2> QED
    BY <1>1, <2>1, <2>2, <2>3, <2>4
<1>2. CASE PassOver(t)
  <2>1. CASE LooksOn(t)
    BY <2>1 DEF LooksOn, CallPlaces
  <2>2. CASE FindsNone(t)
    BY <2>2 DEF FindsNone, CallPlaces
  <2> QED
    BY <1>2, <2>1, <2>2, PassOverCases
<1>3. CASE RecordThread(t)
  <2>1. CASE Records(t) \/ SearchesAgain(t)
    BY <2>1 DEF Records, SearchesAgain, CallPlaces
  <2>2. CASE GivesUp(t)
    <3>1. pc[t] \in CallPlaces /\ Return(t, FALSE)
      BY <2>2 DEF GivesUp, CallPlaces
    <3> QED
      BY <3>1, ReturnStays, Zenon
  <2> QED
    BY <1>3, <2>1, <2>2, RecordCases
<1>4. CASE EndStatement(t)
  <2>1. PICK result \in BOOLEAN : Return(t, result)
    BY <1>4 DEF EndStatement
  <2>2. pc[t] \in CallPlaces
    BY <1>4 DEF EndStatement, CallPlaces
  <2> QED
    BY <2>1, <2>2, ReturnStays, Zenon
<1> QED
  BY <1>1, <1>2, <1>3, <1>4 DEF DatabaseCall

(* So does a session ...                                                   *)
LEMMA SessionStays ==
  ASSUME TypeInv, NEW s \in Sessions, SessionStep(s)
  PROVE  OthersStay(s)
<1> USE TypeParts, ThreadKinds DEF OthersStay, PlacesOK, IndexOK, poolVars, Go
<1>1. CASE HangUp(s) \/ Cleanup(s) \/ Leave(s) \/ Throw(s)
  BY <1>1 DEF HangUp, Cleanup, Leave, Throw
<1>2. CASE Accept(s) \/ Enter(s) \/ FirstStep(s) \/ SetTradeStat(s) \/ TestTerm(s)
  BY <1>2, FirstCalls DEF Accept, Enter, SetTradeStat, TestTerm, Call
<1>3. CASE TestLock(s) \/ EndRead(s) \/ Turn(s)
  BY <1>3 DEF TestLock, EndRead, Turn, Call
<1> QED
  BY <1>1, <1>2, <1>3 DEF SessionStep

(* ... and a thread that reloads, which scans only in its calls.            *)
LEMMA RefresherStays ==
  ASSUME TypeInv, NEW r \in Refreshers, RefresherStep(r)
  PROVE  OthersStay(r) /\ UNCHANGED index
<1> USE TypeParts, ThreadKinds DEF OthersStay, PlacesOK, IndexOK, poolVars, Go
<1>1. CASE OnFlashDB(r) \/ SetSyn(r) \/ WaitForidlesse(r) \/ GetTable(r) \/ Loaded(r)
  BY <1>1 DEF OnFlashDB, SetSyn, WaitForidlesse, GetTable, Loaded, Call
<1>2. CASE ResetSyn(r) \/ OnUpdatePar(r) \/ SetSynPar(r) \/ GetEposPar(r) \/ Resize(r)
  BY <1>2 DEF ResetSyn, OnUpdatePar, SetSynPar, GetEposPar, Resize
<1>3. CASE ResetSynPar(r) \/ OnChangeStat(r)
  BY <1>3 DEF ResetSynPar, OnChangeStat
<1> QED
  BY <1>1, <1>2, <1>3 DEF RefresherStep

-----------------------------------------------------------------------------
(* ONLINE_NUM.                                                              *)

(* The sessions that are counted are finitely many.                         *)
LEMMA CountedFinite == IsFiniteSet(Counted) /\ Cardinality(Counted) \in Nat
<1>1. Counted \subseteq Sessions
  BY DEF Counted
<1> QED
  BY <1>1, ServerAssumption, FS_Subset, FS_CardinalityType

(* A step that keeps a session on its side of the count.                    *)
LEMMA KeepsCount ==
  ASSUME OnlineCount, ONLINE_NUM' = ONLINE_NUM, ONLINE_NUM \in Nat, UNCHANGED limits,
         \A s \in Sessions : pc'[s] \in {"none", "created"} <=> pc[s] \in {"none", "created"}
  PROVE  OnlineCount' /\ ONLINE_NUM' \in Nat
<1>1. Counted' = Counted
  BY DEF Counted
<1> QED
  BY <1>1 DEF OnlineCount, limits

(* A session enters or leaves: one more, or one less.                       *)
LEMMA CountStep ==
  ASSUME TypeInv, OnlineCount, [Next]_vars
  PROVE  OnlineCount' /\ ONLINE_NUM' \in Nat
<1> USE TypeParts, ThreadKinds
<1>0. ONLINE_NUM \in Nat /\ MAX_ONLINE_NUM \in Nat
  <2>1. OnlineLimits \subseteq Nat
    BY ServerAssumption
  <2>2. ONLINE_NUM \in Nat /\ MAX_ONLINE_NUM \in OnlineLimits \cup {0}
    BY DEF GlobalsOK, Limits
  <2> QED
    BY <2>1, <2>2
<1>1. ASSUME NEW t \in Threads, DatabaseCall(t) PROVE OnlineCount' /\ ONLINE_NUM' \in Nat
  <2>1. \A s \in Sessions : pc'[s] \in {"none", "created"} <=> pc[s] \in {"none", "created"}
    BY <1>1, CallStays DEF OthersStay, CallPlaces, Returns
  <2>2. ONLINE_NUM' = ONLINE_NUM /\ UNCHANGED limits
    BY <1>1 DEF reloadVars, DatabaseCall, LockConnStat, Take, TakeBroken, Reconnect, PassOver,
                RecordThread, EndStatement
  <2> QED
    BY <1>0, <2>1, <2>2, KeepsCount
<1>2. ASSUME NEW s \in Sessions, SessionStep(s) PROVE OnlineCount' /\ ONLINE_NUM' \in Nat
  <2>0. \A u \in Sessions \ {s} : pc'[u] = pc[u]
    BY <1>2, SessionStays DEF OthersStay
  <2>1. CASE ~Enter(s) /\ ~Leave(s)
    <3>1. ONLINE_NUM' = ONLINE_NUM /\ UNCHANGED limits
      BY <1>2, <2>1, FirstCalls DEF reloadVars, SessionStep, Accept, SetTradeStat, TestTerm,
                        TestLock,
                        EndRead, Turn, Throw, HangUp, Cleanup
    <3>2. pc'[s] \in {"none", "created"} <=> pc[s] \in {"none", "created"}
      <4>1. CASE Accept(s) \/ SetTradeStat(s) \/ EndRead(s) \/ Throw(s) \/ HangUp(s)
                 \/ Cleanup(s)
        BY <4>1 DEF Accept, SetTradeStat, EndRead, Throw, HangUp, Cleanup, At, Go, PlacesOK
      <4>2. CASE TestTerm(s) \/ TestLock(s) \/ Turn(s)
        BY <4>2 DEF TestTerm, TestLock, Turn, Call, At, Go, PlacesOK
      <4>3. CASE FirstStep(s)
        <5>1. /\ pc[s] \in FirstPlaces \cup {"getAgreeFlag"}
              /\ \E p \in FirstPlaces \cup {"hangUp", "getConnStat"} : Go(s, p)
          BY <4>3, FirstCalls DEF Call
        <5> QED
          BY <5>1 DEF FirstPlaces, Go, PlacesOK
      <4> QED
        BY <1>2, <2>1, <4>1, <4>2, <4>3 DEF SessionStep
    <3> QED
      BY <1>0, <2>0, <3>1, <3>2, KeepsCount
  <2>2. CASE Enter(s)
    <3>1. CASE ONLINE_NUM > MAX_ONLINE_NUM
      <4>1. /\ ONLINE_NUM' = ONLINE_NUM /\ pc[s] = "created" /\ pc'[s] = "none"
            /\ UNCHANGED limits
        BY <2>2, <3>1 DEF Enter, At, Go, PlacesOK, reloadVars
      <4> QED
        BY <1>0, <2>0, <4>1, KeepsCount
    <3>2. CASE ~(ONLINE_NUM > MAX_ONLINE_NUM)
      <4>1. ONLINE_NUM' = ONLINE_NUM + 1 /\ pc[s] = "created" /\ pc'[s] = "getAgreeFlag"
        BY <2>2, <3>2 DEF Enter, At, Go, PlacesOK
      <4>2. Counted' = Counted \cup {s} /\ s \notin Counted
        BY <2>0, <4>1 DEF Counted
      <4>3. Cardinality(Counted') = Cardinality(Counted) + 1
        BY <4>2, CountedFinite, FS_AddElement
      <4>4. UNCHANGED limits
        BY <2>2 DEF Enter, reloadVars
      <4>5. ~(ONLINE_NUM' > MAX_ONLINE_NUM' + 1)
        BY <1>0, <3>2, <4>1, <4>4 DEF limits
      <4> QED
        BY <1>0, <4>1, <4>3, <4>5 DEF OnlineCount
    <3> QED
      BY <3>1, <3>2
  <2>3. CASE Leave(s)
    <3>1. ONLINE_NUM' = ONLINE_NUM - 1 /\ pc[s] = "ending" /\ pc'[s] = "none"
      BY <2>3 DEF Leave, At, Go, PlacesOK
    <3>2. Counted' = Counted \ {s} /\ s \in Counted
      BY <2>0, <3>1 DEF Counted
    <3>3. Cardinality(Counted') = Cardinality(Counted) - 1
      BY <3>2, CountedFinite, FS_RemoveElement
    <3>4. Cardinality(Counted') \in Nat
      <4>1. IsFiniteSet(Counted')
        BY <3>2, CountedFinite, FS_Subset
      <4> QED
        BY <4>1, FS_CardinalityType
    <3>5. ONLINE_NUM' = Cardinality(Counted') /\ ONLINE_NUM' \in Nat
      BY <3>1, <3>3, <3>4 DEF OnlineCount
    <3>6. ASSUME ONLINE_NUM' > MAX_ONLINE_NUM' + 1 PROVE lowered'
      <4>1. MAX_ONLINE_NUM' = MAX_ONLINE_NUM
        BY <2>3 DEF Leave
      <4>2. ONLINE_NUM > MAX_ONLINE_NUM + 1 /\ ONLINE_NUM' > MAX_ONLINE_NUM + 1
        BY <1>0, <3>1, <3>6, <4>1
      <4>3. lowered
        BY <4>2 DEF OnlineCount
      <4> QED
        BY <2>3, <4>2, <4>3 DEF Leave
    <3> QED
      BY <3>5, <3>6 DEF OnlineCount
  <2> QED
    BY <2>1, <2>2, <2>3
<1>3. ASSUME NEW r \in Refreshers, RefresherStep(r) PROVE OnlineCount' /\ ONLINE_NUM' \in Nat
  <2>1. \A s \in Sessions : pc'[s] = pc[s]
    BY <1>3, RefresherStays DEF OthersStay
  <2>2. CASE ~GetEposPar(r)
    <3>1. ONLINE_NUM' = ONLINE_NUM /\ UNCHANGED limits
      BY <1>3, <2>2 DEF reloadVars, RefresherStep, OnFlashDB, SetSyn, WaitForidlesse, GetTable,
         Loaded, ResetSyn, OnUpdatePar, SetSynPar, Resize, ResetSynPar, OnChangeStat
    <3> QED
      BY <1>0, <2>1, <3>1, KeepsCount
  <2>3. CASE GetEposPar(r)
    <3>1. ONLINE_NUM' = ONLINE_NUM /\ lowered' = (ONLINE_NUM > MAX_ONLINE_NUM' + 1)
      BY <2>3 DEF GetEposPar
    <3>2. Counted' = Counted
      BY <2>1 DEF Counted
    <3>3. ONLINE_NUM' = Cardinality(Counted')
      BY <3>1, <3>2 DEF OnlineCount
    <3>4. ONLINE_NUM' > MAX_ONLINE_NUM' + 1 => lowered'
      BY <3>1
    <3> QED
      BY <1>0, <3>1, <3>3, <3>4 DEF OnlineCount
  <2> QED
    BY <2>2, <2>3
<1>4. CASE (\E c \in Conns : Expire(c)) \/ FreeExpired \/ UNCHANGED vars
  <2>1. UNCHANGED <<ONLINE_NUM, pc, limits>>
    BY <1>4 DEF Expire, FreeExpired, vars, reloadVars
  <2> QED
    BY <1>0, <2>1, KeepsCount
<1> QED
  BY <1>1, <1>2, <1>3, <1>4 DEF Next, Session, Refresher, SessionStep, RefresherStep, FirstStep

-----------------------------------------------------------------------------
(* syn_flag.                                                                *)

(* Whoever does not reload leaves the lock of the tables to those who do.   *)
LEMMA SynKept ==
  ASSUME SynInv, UNCHANGED <<syn_flag, mine, failedUpdate>>,
         \A r \in Refreshers : pc'[r] = "setSyn" => pc[r] = "setSyn",
         \A r \in Refreshers : WillUnlock(r) => WillUnlock(r)'
  PROVE  SynInv'
  BY DEF SynInv

(* syn_flag is reset by the thread that set it, or by an update.            *)
LEMMA SynStep ==
  ASSUME TypeInv, SynInv, [Next]_vars
  PROVE  SynInv'
<1> USE TypeParts, ThreadKinds
<1>1. ASSUME NEW t \in Threads, DatabaseCall(t) PROVE SynInv'
  <2>1. UNCHANGED <<syn_flag, mine, failedUpdate>>
    BY <1>1 DEF DatabaseCall, LockConnStat, Take, TakeBroken, Reconnect, PassOver,
                RecordThread, EndStatement, reloadVars
  <2>2. ASSUME NEW r \in Refreshers
        PROVE  /\ pc'[r] = "setSyn" => pc[r] = "setSyn"
               /\ WillUnlock(r) => WillUnlock(r)'
    <3>1. CASE r = t
      <4>1. pc[r] \in CallPlaces /\ pc'[r] \in CallPlaces \cup {"loaded"}
        BY <1>1, <3>1, CallStays
      <4> QED
        BY <2>1, <4>1 DEF WillUnlock, CallPlaces
    <3>2. CASE r # t
      <4>1. pc'[r] = pc[r]
        BY <1>1, <3>2, CallStays DEF OthersStay
      <4> QED
        BY <2>1, <4>1 DEF WillUnlock
    <3> QED
      BY <3>1, <3>2
  <2> QED
    BY <2>1, <2>2, SynKept
<1>2. ASSUME NEW s \in Sessions, SessionStep(s) PROVE SynInv'
  <2>1. UNCHANGED <<syn_flag, mine, failedUpdate>>
    BY <1>2, FirstCalls DEF SessionStep, Accept, Enter, SetTradeStat, TestTerm, TestLock,
                EndRead, Turn, Throw, HangUp, Cleanup, Leave, reloadVars
  <2>2. \A r \in Refreshers : pc'[r] = pc[r]
    BY <1>2, SessionStays DEF OthersStay
  <2> QED
    BY <2>1, <2>2, SynKept DEF WillUnlock
<1>3. ASSUME NEW r \in Refreshers, RefresherStep(r) PROVE SynInv'
  <2>0. /\ \A q \in Refreshers \ {r} : pc'[q] = pc[q]
        /\ r \in Threads /\ pc \in [Threads -> AllPlaces] /\ mine \in [Refreshers -> BOOLEAN]
    BY <1>3, RefresherStays DEF OthersStay, PlacesOK, ReloadOK
  <2>1. CASE \/ WaitForidlesse(r) \/ GetTable(r) \/ Loaded(r) \/ OnUpdatePar(r) \/ Resize(r)
             \/ OnChangeStat(r)
    <3>1. UNCHANGED <<syn_flag, mine, failedUpdate>>
      BY <2>1 DEF WaitForidlesse, GetTable, Loaded, OnUpdatePar, Resize, OnChangeStat,
                  reloadVars
    <3>2. pc'[r] # "setSyn" /\ (WillUnlock(r) => WillUnlock(r)')
      <4>1. CASE WaitForidlesse(r) \/ GetTable(r) \/ Loaded(r)
        BY <2>0, <3>1, <4>1 DEF WaitForidlesse, GetTable, Loaded, Call, At, Go, WillUnlock,
                                CallPlaces
      <4>2. CASE OnUpdatePar(r) \/ Resize(r) \/ OnChangeStat(r)
        BY <2>0, <3>1, <4>2 DEF OnUpdatePar, Resize, OnChangeStat, At, Go, WillUnlock,
                                CallPlaces
      <4> QED
        BY <2>1, <4>1, <4>2
    <3> QED
      BY <2>0, <3>1, <3>2, SynKept DEF WillUnlock
  <2>2. CASE OnFlashDB(r)
    <3>1. UNCHANGED <<syn_flag, failedUpdate>> /\ pc[r] = "idle"
      BY <2>2 DEF OnFlashDB, At
    <3>2. \A q \in Refreshers \ {r} : mine'[q] = mine[q]
      BY <2>0, <2>2 DEF OnFlashDB
    <3>3. pc'[r] = "setSyn" => mine'[r]
      BY <2>0, <2>2 DEF OnFlashDB, Go
    <3>4. ~WillUnlock(r)
      BY <3>1 DEF WillUnlock, CallPlaces
    <3> QED
      BY <2>0, <3>1, <3>2, <3>3, <3>4 DEF SynInv, WillUnlock
  <2>3. CASE SetSyn(r)
    <3>1. UNCHANGED mine /\ pc[r] = "setSyn" /\ pc'[r] = "wait"
      BY <2>0, <2>3 DEF SetSyn, At, Go
    <3>2. WillUnlock(r)'
      BY <3>1 DEF SynInv, WillUnlock
    <3> QED
      BY <2>0, <3>1, <3>2 DEF SynInv
  <2>4. CASE ResetSyn(r)
    <3>1. /\ UNCHANGED failedUpdate /\ pc'[r] = "idle" /\ pc[r] = "resetSyn"
          /\ \A q \in Refreshers \ {r} : mine'[q] = mine[q]
      BY <2>0, <2>4 DEF ResetSyn, At, Go
    <3>2. CASE mine[r]
      <4>1. syn_flag' = 0
        BY <2>4, <3>2 DEF ResetSyn
      <4> QED
        BY <2>0, <3>1, <4>1 DEF SynInv
    <3>3. CASE ~mine[r]
      <4>1. syn_flag' = syn_flag
        BY <2>4, <3>3 DEF ResetSyn
      <4>2. ~WillUnlock(r)
        BY <3>1, <3>3 DEF WillUnlock
      <4> QED
        BY <2>0, <3>1, <4>1, <4>2 DEF SynInv, WillUnlock
    <3> QED
      BY <3>2, <3>3
  <2>5. CASE SetSynPar(r)
    <3>1. UNCHANGED mine /\ pc'[r] = "waitPar"
      BY <2>0, <2>5 DEF SetSynPar, Go
    <3>2. WillUnlock(r)'
      BY <3>1 DEF WillUnlock
    <3> QED
      BY <2>0, <3>1, <3>2 DEF SynInv
  <2>6. CASE GetEposPar(r)
    <3>1. UNCHANGED <<syn_flag, mine>> /\ pc'[r] \in {"resize", "idle"}
      BY <2>0, <2>6 DEF GetEposPar, Go
    <3>2. CASE pc'[r] = "resize" /\ UNCHANGED failedUpdate
      BY <2>0, <3>1, <3>2, SynKept DEF WillUnlock
    <3>3. CASE failedUpdate'
      BY <2>0, <3>1, <3>3 DEF SynInv
    <3> QED
      BY <2>0, <2>6, <3>2, <3>3 DEF GetEposPar, Go
  <2>7. CASE ResetSynPar(r)
    <3>1. UNCHANGED mine /\ pc'[r] = "toggle" /\ syn_flag' = 0
      BY <2>0, <2>7 DEF ResetSynPar, Go
    <3> QED
      BY <2>0, <3>1 DEF SynInv
  <2> QED
    BY <1>3, <2>1, <2>2, <2>3, <2>4, <2>5, <2>6, <2>7 DEF RefresherStep
<1>4. CASE (\E c \in Conns : Expire(c)) \/ FreeExpired \/ UNCHANGED vars
  <2>1. UNCHANGED <<syn_flag, mine, failedUpdate, pc>>
    BY <1>4 DEF Expire, FreeExpired, vars, reloadVars
  <2> QED
    BY <2>1, SynKept DEF WillUnlock
<1> QED
  BY <1>1, <1>2, <1>3, <1>4 DEF Next, Session, Refresher, SessionStep, RefresherStep, FirstStep

-----------------------------------------------------------------------------
(* The pool of connections.                                                 *)

Using == {"reconnect", "got", "use"}
PoolPlaces == Holding \cup Using \cup {"none found", "hangUp", "ending"}

(* Most steps change nothing of the pool: a thread moves between places     *)
(* that have nothing to do with it, or hangs up.                            *)
Calm(t) ==
  /\ UNCHANGED <<connStat, threadID, lock, index, unguarded, MAX_CONNECT_NUM, resized>>
  /\ \A u \in Threads \ {t} : pc'[u] = pc[u]
  /\ pc[t] \notin PoolPlaces /\ pc'[t] \notin PoolPlaces \ {"hangUp"}

(* A session, until it throws or hangs up.                                  *)
LEMMA CalmSession ==
  ASSUME TypeInv, NEW s \in Sessions, SessionStep(s),
         ~Throw(s), ~HangUp(s), ~Cleanup(s), ~Leave(s)
  PROVE  Calm(s)
<1> USE TypeParts, ThreadKinds DEF PlacesOK, At, Go, PoolPlaces, Holding, Using
<1>0. \A u \in Threads \ {s} : pc'[u] = pc[u]
  BY SessionStays DEF OthersStay
<1>1. UNCHANGED <<connStat, threadID, lock, index, unguarded, MAX_CONNECT_NUM, resized>>
  BY FirstCalls DEF SessionStep, Accept, Enter, SetTradeStat, TestTerm, TestLock, EndRead,
         Turn, poolVars, reloadVars
<1>2. pc[s] \notin PoolPlaces /\ pc'[s] \notin PoolPlaces \ {"hangUp"}
  <2>1. CASE Accept(s) \/ SetTradeStat(s) \/ EndRead(s)
    BY <2>1 DEF Accept, SetTradeStat, EndRead
  <2>2. CASE Enter(s)
    BY <2>2 DEF Enter
  <2>3. CASE Turn(s)
    BY <2>3 DEF Turn, Call
  <2>5. CASE FirstStep(s)
    <3>1. /\ pc[s] \in FirstPlaces \cup {"getAgreeFlag"}
          /\ \E p \in FirstPlaces \cup {"hangUp", "getConnStat"} : Go(s, p)
      BY <2>5, FirstCalls DEF Call
    <3> QED
      BY <3>1 DEF FirstPlaces
  <2>4. CASE TestTerm(s) \/ TestLock(s)
    BY <2>4 DEF TestTerm, TestLock
  <2> QED
    BY <2>1, <2>2, <2>3, <2>4, <2>5 DEF SessionStep
<1> QED
  BY <1>0, <1>1, <1>2 DEF Calm

(* A reload, except where an update changes the size of the pool.           *)
LEMMA CalmRefresher ==
  ASSUME TypeInv, NEW r \in Refreshers, RefresherStep(r), ~GetEposPar(r), ~Resize(r)
  PROVE  Calm(r)
<1> USE TypeParts, ThreadKinds DEF PlacesOK, At, Go, PoolPlaces, Holding, Using
<1>0. \A u \in Threads \ {r} : pc'[u] = pc[u]
  BY RefresherStays DEF OthersStay
<1>1. UNCHANGED <<connStat, threadID, lock, index, unguarded, MAX_CONNECT_NUM, resized>>
  BY DEF RefresherStep, OnFlashDB, SetSyn, WaitForidlesse, GetTable, Loaded, ResetSyn,
         OnUpdatePar, SetSynPar, ResetSynPar, OnChangeStat, poolVars, reloadVars
<1>2. pc[r] \notin PoolPlaces /\ pc'[r] \notin PoolPlaces \ {"hangUp"}
  <2>1. CASE OnFlashDB(r) \/ SetSyn(r) \/ WaitForidlesse(r) \/ Loaded(r)
    BY <2>1 DEF OnFlashDB, SetSyn, WaitForidlesse, Loaded
  <2>2. CASE GetTable(r)
    BY <2>2 DEF GetTable, Call
  <2>3. CASE ResetSyn(r) \/ OnUpdatePar(r) \/ SetSynPar(r) \/ ResetSynPar(r) \/ OnChangeStat(r)
    BY <2>3 DEF ResetSyn, OnUpdatePar, SetSynPar, ResetSynPar, OnChangeStat
  <2> QED
    BY <2>1, <2>2, <2>3 DEF RefresherStep
<1> QED
  BY <1>0, <1>1, <1>2 DEF Calm

(* Where the threads are is all that counts for the lock.                   *)
LEMMA LockStep ==
  ASSUME TypeInv, LockInv, [Next]_vars
  PROVE  LockInv'
<1> USE TypeParts, ThreadKinds DEF LockInv, Holding
<1>0. PlacesOK /\ pc \in [Threads -> AllPlaces]
  BY DEF PlacesOK
<1>1. ASSUME NEW t \in Threads, DatabaseCall(t) PROVE LockInv'
  <2>0. \A u \in Threads \ {t} : pc'[u] = pc[u]
    BY <1>1, CallStays DEF OthersStay
  <2>1. CASE LockConnStat(t) \/ Take(t) \/ TakeBroken(t) \/ Reconnect(t)
    BY <1>0, <2>0, <2>1 DEF LockConnStat, Take, TakeBroken, Reconnect, At, Go, Nobody
  <2>2. CASE PassOver(t)
    <3>1. CASE LooksOn(t)
      BY <3>1 DEF LooksOn
    <3>2. CASE FindsNone(t)
      BY <1>0, <2>0, <3>2 DEF FindsNone, At, Go, Nobody
    <3> QED
      BY <2>2, <3>1, <3>2, PassOverCases
  <2>3. CASE RecordThread(t)
    <3>1. lock' = lock /\ pc[t] \in {"got", "none found"}
      BY <2>3 DEF RecordThread
    <3>2. pc'[t] \notin Holding
      <4>1. CASE Records(t) \/ SearchesAgain(t)
        BY <1>0, <4>1 DEF Records, SearchesAgain, Go
      <4>2. CASE GivesUp(t)
        <5>1. pc'[t] = back[t]
          BY <1>0, <4>2 DEF GivesUp, Return, Go
        <5> QED
          BY <5>1 DEF CallsOK, Returns
      <4> QED
        BY <2>3, <4>1, <4>2, RecordCases
    <3> QED
      BY <2>0, <3>1, <3>2
  <2>4. CASE EndStatement(t)
    BY <1>0, <2>0, <2>4 DEF EndStatement, Return, At, Go, CallsOK, Returns
  <2> QED
    BY <1>1, <2>1, <2>2, <2>3, <2>4 DEF DatabaseCall
<1>2. ASSUME NEW t \in Threads, Calm(t) PROVE LockInv'
  BY <1>2 DEF Calm, PoolPlaces
<1>3. ASSUME NEW s \in Sessions, Throw(s) \/ HangUp(s) \/ Cleanup(s) \/ Leave(s) PROVE LockInv'
  BY <1>0, <1>3 DEF Throw, HangUp, Cleanup, Leave, At, Go
<1>4. ASSUME NEW r \in Refreshers, GetEposPar(r) \/ Resize(r) PROVE LockInv'
  BY <1>0, <1>4 DEF GetEposPar, Resize, At, Go, poolVars
<1>5. CASE (\E c \in Conns : Expire(c)) \/ FreeExpired \/ UNCHANGED vars
  <2>1. UNCHANGED <<lock, pc>>
    BY <1>5 DEF Expire, FreeExpired, vars, poolVars
  <2> QED
    BY <2>1
<1> HIDE DEF LockInv
<1>6. ASSUME NEW s \in Sessions, SessionStep(s) PROVE LockInv'
  BY <1>2, <1>3, <1>6, CalmSession
<1>7. ASSUME NEW r \in Refreshers, RefresherStep(r) PROVE LockInv'
  BY <1>2, <1>4, <1>7, CalmRefresher
<1> QED
  BY <1>1, <1>5, <1>6, <1>7 DEF Next, Session, Refresher, SessionStep, RefresherStep, FirstStep

(* A step that brings no new user and leaves the marks alone.               *)
LEMMA NoNewUser ==
  ASSUME ShareInv, connStat' = connStat, unguarded \subseteq unguarded',
         \A u \in Threads : pc'[u] \in Using => pc[u] \in Using /\ index'[u] = index[u]
  PROVE  ShareInv'
<1> SUFFICES ASSUME NEW c \in Conns, c \notin unguarded' PROVE Guarded(c)'
  BY DEF ShareInv
<1>1. Guarded(c) /\ connStat'[c] = connStat[c]
  BY DEF ShareInv
<1>2. Users(c)' \subseteq Users(c)
  BY DEF Users, Using
<1> QED
  BY <1>1, <1>2 DEF Guarded

(* A thread marks or gives up the connection at which it stands: it used it *)
(* already, or the connection was not marked.                               *)
LEMMA OneUser ==
  ASSUME ShareInv, NEW t \in Threads, NEW c \in Conns, index[t] = c, OthersStay(t),
         unguarded' = unguarded, \A d \in Conns \ {c} : connStat'[d] = connStat[d],
         pc[t] \in Using \/ connStat[c] # 1,
         pc'[t] \in Using => index'[t] = c /\ connStat'[c] = 1
  PROVE  ShareInv'
<1> SUFFICES ASSUME NEW d \in Conns, d \notin unguarded PROVE Guarded(d)'
  BY DEF ShareInv
<1>1. Guarded(d)
  BY DEF ShareInv
<1>2. CASE d # c
  <2>1. Users(d)' = Users(d) \ {t} /\ t \notin Users(d)
    BY <1>2 DEF Users, Using, OthersStay
  <2> QED
    BY <1>1, <1>2, <2>1 DEF Guarded
<1>3. CASE d = c
  <2>1. ASSUME NEW u \in Threads \ {t}, u \in Users(c)' PROVE FALSE
    <3>1. u \in Users(c)
      BY <2>1 DEF Users, Using, OthersStay
    <3>2. connStat[c] = 1 /\ Users(c) = {u}
      BY <1>1, <1>3, <3>1 DEF Guarded
    <3>3. t \in Users(c)
      BY <3>2 DEF Users, Using
    <3> QED
      BY <3>2, <3>3
  <2>2. \A u \in Users(c)' : u = t /\ pc'[t] \in Using
    BY <2>1 DEF Users, Using
  <2> QED
    BY <1>3, <2>2 DEF Guarded
<1> QED
  BY <1>2, <1>3

(* A connection is freed under its user: it is unguarded from then on.      *)
LEMMA FreedUnder ==
  ASSUME ShareInv, NEW bad \in SUBSET Conns,
         \A d \in Conns \ bad : connStat'[d] = connStat[d],
         unguarded \subseteq unguarded',
         \A c \in bad : Users(c) = {} \/ c \in unguarded',
         \A u \in Threads : pc'[u] \in Using => pc[u] \in Using /\ index'[u] = index[u]
  PROVE  ShareInv'
<1> SUFFICES ASSUME NEW c \in Conns, c \notin unguarded' PROVE Guarded(c)'
  BY DEF ShareInv
<1>1. Guarded(c)
  BY DEF ShareInv
<1>2. Users(c)' \subseteq Users(c)
  BY DEF Users, Using
<1> QED
  BY <1>1, <1>2 DEF Guarded

(* Two threads share a connection only after it was freed under one.        *)
LEMMA ShareStep ==
  ASSUME TypeInv, ShareInv, [Next]_vars
  PROVE  ShareInv'
<1> USE TypeParts, ThreadKinds
<1>0. /\ pc \in [Threads -> AllPlaces] /\ connStat \in [Conns -> {0, 1, 2}]
      /\ index \in [Threads -> Conns]
  BY DEF PlacesOK, PoolOK, IndexOK
<1>1. ASSUME NEW t \in Threads, DatabaseCall(t) PROVE ShareInv'
  <2>0. OthersStay(t) /\ index[t] \in Conns
    BY <1>0, <1>1, CallStays
  <2>1. CASE LockConnStat(t)
    <3>1. /\ UNCHANGED <<connStat, unguarded>> /\ pc'[t] = "scan"
      BY <1>0, <2>1 DEF LockConnStat, Go
    <3> QED
      BY <2>0, <3>1, NoNewUser DEF OthersStay, Using
  <2>2. CASE Take(t) \/ TakeBroken(t)
    <3>1. /\ unguarded' = unguarded /\ connStat[index[t]] # 1 /\ index'[t] = index[t]
          /\ connStat' = [connStat EXCEPT ![index[t]] = 1]
      BY <2>2 DEF Take, TakeBroken
    <3>2. /\ connStat'[index[t]] = 1
          /\ \A d \in Conns \ {index[t]} : connStat'[d] = connStat[d]
      BY <1>0, <2>0, <3>1
    <3> QED
      BY <2>0, <3>1, <3>2, OneUser
  <2>3. CASE Reconnect(t)
    <3>1. unguarded' = unguarded /\ pc[t] \in Using
      BY <2>3 DEF Reconnect, At, Using
    <3>2. /\ \A d \in Conns \ {index[t]} : connStat'[d] = connStat[d]
          /\ pc'[t] \in Using => index'[t] = index[t] /\ connStat'[index[t]] = 1
      BY <1>0, <2>0, <2>3 DEF Reconnect, Go, Using
    <3> QED
      BY <2>0, <3>1, <3>2, OneUser
  <2>4. CASE PassOver(t)
    <3>1. UNCHANGED <<connStat, unguarded>>
      BY <2>4 DEF PassOver
    <3>2. pc'[t] \notin Using
      BY <1>0, <2>4, PassOverCases DEF LooksOn, FindsNone, At, Go, Using
    <3> QED
      BY <2>0, <3>1, <3>2, NoNewUser DEF OthersStay
  <2>5. CASE RecordThread(t)
    <3>1. UNCHANGED connStat
      BY <2>5 DEF RecordThread
    <3>2. CASE Records(t)
      <4>1. index'[t] = index[t] /\ pc'[t] = "use"
        BY <1>0, <3>2 DEF Records, Go
      <4>2. CASE pc[t] = "got"
        <5>1. unguarded' = unguarded /\ pc[t] \in Using
          BY <3>2, <4>2 DEF Records, At, Using
        <5> QED
          BY <2>0, <3>1, <4>1, <5>1, NoNewUser DEF OthersStay
      <4>3. CASE pc[t] # "got"
        <5>1. unguarded' = unguarded \cup {index[t]}
          BY <3>2, <4>3 DEF Records, At
        <5> SUFFICES ASSUME NEW c \in Conns, c \notin unguarded' PROVE Guarded(c)'
          BY DEF ShareInv
        <5>2. Guarded(c) /\ c # index[t]
          BY <5>1 DEF ShareInv
        <5>3. Users(c)' \subseteq Users(c)
          BY <2>0, <4>1, <5>2 DEF Users, OthersStay
        <5> QED
          BY <3>1, <5>2, <5>3 DEF Guarded
      <4> QED
        BY <4>2, <4>3
    <3>3. CASE SearchesAgain(t)
      <4>1. pc'[t] = "getConnStat" /\ unguarded' = unguarded
        BY <1>0, <3>3 DEF SearchesAgain, Go
      <4> QED
        BY <2>0, <3>1, <4>1, NoNewUser DEF OthersStay, Using
    <3>4. CASE GivesUp(t)
      <4>1. pc'[t] = back[t] /\ unguarded' = unguarded
        BY <1>0, <3>4 DEF GivesUp, Return, Go
      <4>2. pc'[t] \notin Using
        BY <4>1 DEF CallsOK, Using, Returns
      <4> QED
        BY <2>0, <3>1, <4>1, <4>2, NoNewUser DEF OthersStay
    <3> QED
      BY <2>5, <3>2, <3>3, <3>4, RecordCases
  <2>6. CASE EndStatement(t)
    <3>1. unguarded' = unguarded /\ pc[t] \in Using /\ pc'[t] = back[t]
      BY <1>0, <2>6 DEF EndStatement, Return, At, Go, Using
    <3>2. pc'[t] \notin Using
      BY <3>1 DEF CallsOK, Using, Returns
    <3>3. \A d \in Conns \ {index[t]} : connStat'[d] = connStat[d]
      BY <1>0, <2>0, <2>6 DEF EndStatement
    <3> QED
      BY <2>0, <3>1, <3>2, <3>3, OneUser
  <2> QED
    BY <1>1, <2>1, <2>2, <2>3, <2>4, <2>5, <2>6 DEF DatabaseCall
<1>2. ASSUME NEW t \in Threads, Calm(t) PROVE ShareInv'
  BY <1>2, NoNewUser DEF Calm, PoolPlaces, Using
<1>3. ASSUME NEW s \in Sessions, Throw(s) \/ HangUp(s) \/ Cleanup(s) \/ Leave(s)
      PROVE  ShareInv'
  <2>0. OthersStay(s) /\ s \in Threads
    BY <1>3, SessionStays DEF SessionStep
  <2>1. pc'[s] \notin Using
    BY <1>0, <1>3 DEF Throw, HangUp, Cleanup, Leave, At, Go, Using
  <2>2. CASE Throw(s) \/ HangUp(s) \/ Leave(s)
    <3>1. UNCHANGED <<connStat, unguarded>>
      BY <2>2 DEF Throw, HangUp, Leave
    <3> QED
      BY <2>0, <2>1, <3>1, NoNewUser DEF OthersStay
  <2>3. CASE Cleanup(s)
    <3>1. CASE connStat[index[s]] = 1 /\ threadID[index[s]] = s
      <4>1. Free(index[s], s, 0) /\ pc[s] = "ending" /\ index[s] \in Conns
        BY <1>0, <2>3, <3>1 DEF Cleanup, At
      <4>2. s \notin Users(index[s])
        BY <4>1 DEF Users
      <4>3. /\ \A d \in Conns \ {index[s]} : connStat'[d] = connStat[d]
            /\ unguarded \subseteq unguarded'
            /\ Users(index[s]) = {} \/ index[s] \in unguarded'
        BY <1>0, <4>1, <4>2 DEF Free
      <4>4. /\ {index[s]} \in SUBSET Conns
            /\ \A c \in {index[s]} : Users(c) = {} \/ c \in unguarded'
        BY <4>1, <4>3
      <4>5. \A u \in Threads : pc'[u] \in Using => pc[u] \in Using /\ index'[u] = index[u]
        BY <2>0, <2>1 DEF OthersStay
      <4> QED
        BY <4>3, <4>4, <4>5, FreedUnder
    <3>2. CASE ~(connStat[index[s]] = 1 /\ threadID[index[s]] = s)
      <4>1. UNCHANGED <<connStat, unguarded>>
        BY <2>3, <3>2 DEF Cleanup
      <4> QED
        BY <2>0, <2>1, <4>1, NoNewUser DEF OthersStay
    <3> QED
      BY <3>1, <3>2
  <2> QED
    BY <1>3, <2>2, <2>3
<1>4. ASSUME NEW r \in Refreshers, GetEposPar(r) \/ Resize(r) PROVE ShareInv'
  <2>0. OthersStay(r) /\ r \in Threads
    BY <1>4, RefresherStays DEF RefresherStep
  <2>1. pc'[r] \notin Using
    BY <1>0, <1>4 DEF GetEposPar, Resize, Go, Using
  <2>2. CASE GetEposPar(r)
    <3>1. UNCHANGED <<connStat, unguarded>>
      BY <2>2 DEF GetEposPar, poolVars
    <3> QED
      BY <2>0, <2>1, <3>1, NoNewUser DEF OthersStay
  <2>3. CASE Resize(r)
    <3>1. PICK bad \in SUBSET Conns :
            /\ connStat' = [c \in Conns |-> IF c \in bad THEN 2 ELSE connStat[c]]
            /\ unguarded' = unguarded \cup {c \in bad : Users(c) # {}}
      BY <2>3 DEF Resize
    <3>2. /\ \A d \in Conns \ bad : connStat'[d] = connStat[d]
          /\ unguarded \subseteq unguarded'
          /\ \A c \in bad : Users(c) = {} \/ c \in unguarded'
      BY <3>1
    <3> QED
      BY <2>0, <2>1, <3>2, FreedUnder DEF OthersStay
  <2> QED
    BY <1>4, <2>2, <2>3
<1>5. CASE \E c \in Conns : Expire(c)
  <2>1. UNCHANGED <<connStat, unguarded, pc, index>>
    BY <1>5 DEF Expire, poolVars
  <2> QED
    BY <2>1, NoNewUser
<1>6. CASE FreeExpired
  <2>1. PICK c \in watched, stat \in {0, 2} : Free(c, NoThread, stat)
    BY <1>6 DEF FreeExpired
  <2>2. UNCHANGED <<pc, index>> /\ c \in Conns
    BY <1>6 DEF FreeExpired, PoolOK
  <2>3. NoThread \notin Users(c)
    BY DEF Users
  <2>4. /\ \A d \in Conns \ {c} : connStat'[d] = connStat[d]
        /\ unguarded \subseteq unguarded'
        /\ Users(c) = {} \/ c \in unguarded'
    BY <1>0, <2>1, <2>2, <2>3 DEF Free
  <2>5. {c} \in SUBSET Conns /\ \A d \in {c} : Users(d) = {} \/ d \in unguarded'
    BY <2>2, <2>4
  <2> QED
    BY <2>2, <2>4, <2>5, FreedUnder
<1>7. CASE UNCHANGED vars
  <2>1. UNCHANGED <<connStat, unguarded, pc, index>>
    BY <1>7 DEF vars, poolVars
  <2> QED
    BY <2>1, NoNewUser
<1>8. ASSUME NEW s \in Sessions, SessionStep(s) PROVE ShareInv'
  BY <1>2, <1>3, <1>8, CalmSession
<1>9. ASSUME NEW r \in Refreshers, RefresherStep(r) PROVE ShareInv'
  BY <1>2, <1>4, <1>9, CalmRefresher
<1> QED
  BY <1>1, <1>5, <1>6, <1>7, <1>8, <1>9
     DEF Next, Session, Refresher, SessionStep, RefresherStep, FirstStep

(* The size of the pool has not changed.                                    *)
LEMMA SizeKept ==
  ASSUME TypeInv, [Next]_vars, ~resized'
  PROVE  ~resized /\ MAX_CONNECT_NUM' = MAX_CONNECT_NUM
<1> USE DEF poolVars, reloadVars
<1>1. ASSUME NEW t \in Threads, DatabaseCall(t) PROVE UNCHANGED <<resized, MAX_CONNECT_NUM>>
  BY <1>1 DEF DatabaseCall, LockConnStat, Take, TakeBroken, Reconnect, PassOver, RecordThread,
              EndStatement
<1>2. ASSUME NEW s \in Sessions, SessionStep(s) PROVE UNCHANGED <<resized, MAX_CONNECT_NUM>>
  BY <1>2, FirstCalls DEF SessionStep, Accept, Enter, SetTradeStat, TestTerm, TestLock, EndRead,
              Turn, Throw, HangUp, Cleanup, Leave
<1>3. ASSUME NEW r \in Refreshers, RefresherStep(r), ~GetEposPar(r)
      PROVE  UNCHANGED <<resized, MAX_CONNECT_NUM>>
  BY <1>3 DEF RefresherStep, OnFlashDB, SetSyn, WaitForidlesse, GetTable, Loaded, ResetSyn,
              OnUpdatePar, SetSynPar, Resize, ResetSynPar, OnChangeStat
<1>4. ASSUME NEW r \in Refreshers, GetEposPar(r)
      PROVE  ~resized /\ MAX_CONNECT_NUM' = MAX_CONNECT_NUM
  BY <1>4 DEF GetEposPar
<1>5. CASE (\E c \in Conns : Expire(c)) \/ FreeExpired \/ UNCHANGED vars
  BY <1>5 DEF Expire, FreeExpired, vars
<1> QED
  BY <1>1, <1>2, <1>3, <1>4, <1>5, ThreadKinds
     DEF Next, Session, Refresher, SessionStep, RefresherStep, FirstStep

(* The others do not move, so only the one who does is to be looked at ...  *)
LEMMA RangeKept ==
  ASSUME \A u \in Threads : InRange(u), NEW t \in Threads, OthersStay(t), InRange(t)',
         MAX_CONNECT_NUM' = MAX_CONNECT_NUM
  PROVE  \A u \in Threads : InRange(u)'
  BY DEF InRange, OthersStay

(* ... and a marked connection is answered for as before, unless by him.    *)
LEMMA AnswerKept ==
  ASSUME NEW t \in Threads, OthersStay(t), MAX_CONNECT_NUM' = MAX_CONNECT_NUM,
         NEW c \in Conns, Answered(c), threadID'[c] = threadID[c],
         WillFree(c, t) => WillFree(c, t)'
  PROVE  Answered(c)'
<1>1. PICK u \in Threads : WillFree(c, u)
  BY DEF Answered
<1>2. CASE u = t
  BY <1>1, <1>2 DEF Answered
<1>3. CASE u # t
  <2>1. WillFree(c, u)'
    BY <1>1, <1>3 DEF WillFree, Users, OthersStay
  <2> QED
    BY <2>1 DEF Answered
<1> QED
  BY <1>2, <1>3

(* What the two parts of MarkInv say after a step of t.                     *)
MarkedAfter(t) ==
  /\ InRange(t)'
  /\ \A c \in Conns : connStat'[c] = 1 =>
       \/ Answered(c)'
       \/ connStat[c] = 1 /\ threadID'[c] = threadID[c] /\ (WillFree(c, t) => WillFree(c, t)')

(* The step keeps MarkInv if it does so for t.                              *)
LEMMA MarkKept ==
  ASSUME MarkInv, ~resized, NEW t \in Threads, OthersStay(t),
         MAX_CONNECT_NUM' = MAX_CONNECT_NUM, MarkedAfter(t)
  PROVE  MarkInv'
<1>1. \A u \in Threads : InRange(u)'
  BY RangeKept DEF MarkInv, MarkedAfter
<1>2. \A c \in Conns : connStat'[c] = 1 => Answered(c)'
  BY AnswerKept DEF MarkInv, MarkedAfter
<1> QED
  BY <1>1, <1>2 DEF MarkInv

(* No step loses a connection as long as the pool keeps its size.           *)
LEMMA MarkStep ==
  ASSUME TypeInv, MarkInv, [Next]_vars
  PROVE  MarkInv'
<1> SUFFICES ASSUME ~resized' PROVE MarkInv'
  BY DEF MarkInv
<1>a. ~resized /\ MAX_CONNECT_NUM' = MAX_CONNECT_NUM
  BY SizeKept
<1>b. (\A t \in Threads : InRange(t)) /\ \A c \in Conns : connStat[c] = 1 => Answered(c)
  BY <1>a DEF MarkInv
<1>c. /\ pc \in [Threads -> AllPlaces] /\ connStat \in [Conns -> {0, 1, 2}]
      /\ index \in [Threads -> Conns] /\ threadID \in [Conns -> Threads \cup {NoThread}]
      /\ back \in [Threads -> Returns]
  BY TypeParts DEF PlacesOK, PoolOK, IndexOK, CallsOK
<1>d. /\ MAX_CONNECT_NUM \in Nat /\ Conns \subseteq Nat /\ 0 \in Conns
      /\ \A t \in Threads : index[t] \in Nat
  BY Numbers, ConnRange
<1>1. ASSUME NEW t \in Threads, DatabaseCall(t) PROVE MarkInv'
  <2>0. OthersStay(t) /\ index[t] \in Conns
    BY <1>1, <1>c, CallStays
  <2> SUFFICES MarkedAfter(t)
    BY <1>a, <2>0, MarkKept
  <2>1. CASE LockConnStat(t)
    <3>1. pc[t] = "getConnStat" /\ pc'[t] = "scan" /\ index'[t] = 0
      BY <1>c, <1>d, <2>1 DEF LockConnStat, At, Go
    <3>2. UNCHANGED <<connStat, threadID>>
      BY <2>1 DEF LockConnStat
    <3> QED
      BY <1>a, <1>d, <3>1, <3>2 DEF MarkedAfter, InRange, WillFree, Users
  <2>2. CASE Take(t) \/ TakeBroken(t)
    <3>1. /\ pc[t] = "scan" /\ pc'[t] \in {"got", "reconnect"} /\ index'[t] = index[t]
          /\ index[t] < MAX_CONNECT_NUM /\ threadID' = threadID
          /\ connStat' = [connStat EXCEPT ![index[t]] = 1]
      BY <1>c, <2>2 DEF Take, TakeBroken, At, Go
    <3>2. WillFree(index[t], t)' /\ Answered(index[t])'
      BY <1>a, <3>1 DEF WillFree, Users, Answered
    <3>3. \A c \in Conns : ~WillFree(c, t)
      BY <3>1 DEF WillFree, Users
    <3> QED
      BY <1>a, <1>c, <3>1, <3>2, <3>3 DEF MarkedAfter, InRange
  <2>3. CASE Reconnect(t)
    <3>1. pc[t] = "reconnect" /\ index[t] < MAX_CONNECT_NUM /\ threadID' = threadID
      BY <1>b, <2>3 DEF Reconnect, At, InRange
    <3>2. \A c \in Conns \ {index[t]} : ~WillFree(c, t) /\ connStat'[c] = connStat[c]
      <4>1. \A c \in Conns \ {index[t]} : connStat'[c] = connStat[c]
        BY <1>c, <2>0, <2>3 DEF Reconnect
      <4> QED
        BY <3>1, <4>1 DEF WillFree, Users
    <3>3. CASE pc'[t] = "got" /\ index'[t] = index[t]
      <4>1. Answered(index[t])'
        BY <1>a, <3>1, <3>3 DEF WillFree, Users, Answered
      <4> QED
        BY <1>a, <3>1, <3>2, <3>3, <4>1 DEF MarkedAfter, InRange
    <3>4. CASE pc'[t] = "scan" /\ index'[t] = index[t] + 1 /\ connStat'[index[t]] = 2
      <4>1. InRange(t)'
        BY <1>a, <1>d, <3>1, <3>4 DEF InRange
      <4> QED
        BY <3>1, <3>2, <3>4, <4>1 DEF MarkedAfter
    <3> QED
      BY <1>c, <2>0, <2>3, <3>3, <3>4 DEF Reconnect, Go
  <2>4. CASE PassOver(t)
    <3>1. UNCHANGED <<connStat, threadID>> /\ pc[t] = "scan"
      BY <2>4 DEF PassOver, At
    <3>2. \A c \in Conns : ~WillFree(c, t)
      BY <3>1 DEF WillFree, Users
    <3>3. CASE LooksOn(t)
      <4>1. pc'[t] = "scan" /\ index'[t] = index[t] + 1 /\ index[t] < MAX_CONNECT_NUM
        BY <1>c, <3>1, <3>3 DEF LooksOn
      <4>2. InRange(t)'
        BY <1>a, <1>d, <4>1 DEF InRange
      <4> QED
        BY <3>1, <3>2, <4>2 DEF MarkedAfter
    <3>4. CASE FindsNone(t)
      <4>1. pc'[t] = "none found" /\ index'[t] = index[t] /\ ~(index[t] < MAX_CONNECT_NUM)
        BY <1>c, <3>4 DEF FindsNone, Go
      <4>2. index[t] <= MAX_CONNECT_NUM
        BY <1>b, <3>1 DEF InRange
      <4>3. InRange(t)'
        <5>0. index[t] \in Nat /\ MAX_CONNECT_NUM \in Nat
          BY <1>d
        <5>1. ~(index[t] < MAX_CONNECT_NUM)
          BY <4>1
        <5>2. index[t] = MAX_CONNECT_NUM
          BY <4>2, <5>0, <5>1
        <5> QED
          BY <1>a, <4>1, <5>2 DEF InRange
      <4> QED
        BY <3>1, <3>2, <4>3 DEF MarkedAfter
    <3> QED
      BY <2>4, <3>3, <3>4, PassOverCases
  <2>5. CASE RecordThread(t)
    <3>0. connStat' = connStat
      BY <2>5 DEF RecordThread
    <3>1. CASE Records(t)
      <4>1. /\ pc[t] \in {"got", "none found"} /\ index[t] # MAX_CONNECT_NUM
            /\ threadID' = [threadID EXCEPT ![index[t]] = t]
            /\ pc'[t] = "use" /\ index'[t] = index[t]
        BY <1>c, <3>1 DEF Records, Go
      <4>2. index[t] < MAX_CONNECT_NUM
        BY <1>b, <4>1 DEF InRange
      <4>3. Answered(index[t])'
        BY <1>a, <1>c, <2>0, <4>1, <4>2 DEF WillFree, Users, Answered
      <4>4. \A c \in Conns \ {index[t]} : ~WillFree(c, t) /\ threadID'[c] = threadID[c]
        BY <1>c, <4>1 DEF WillFree, Users
      <4> QED
        BY <3>0, <4>1, <4>3, <4>4 DEF MarkedAfter, InRange
    <3>2. CASE SearchesAgain(t) \/ GivesUp(t)
      <4>1. pc[t] \in {"got", "none found"} /\ index[t] = MAX_CONNECT_NUM /\ threadID' = threadID
        BY <3>2 DEF SearchesAgain, GivesUp
      <4>2. pc[t] = "none found"
        <5>1. pc[t] = "got" => index[t] < MAX_CONNECT_NUM
          BY <1>b DEF InRange
        <5>0. index[t] \in Nat /\ MAX_CONNECT_NUM \in Nat
          BY <1>d
        <5>2. index[t] = MAX_CONNECT_NUM
          BY <4>1
        <5>3. ~(index[t] < MAX_CONNECT_NUM)
          BY <5>0, <5>2
        <5> QED
          BY <4>1, <5>1, <5>3
      <4>3. pc'[t] \in Returns \cup {"getConnStat"}
        BY <1>c, <3>2 DEF SearchesAgain, GivesUp, Return, Go
      <4> QED
        BY <3>0, <4>1, <4>2, <4>3 DEF Returns, MarkedAfter, InRange, WillFree, Users
    <3> QED
      BY <2>5, <3>1, <3>2, RecordCases
  <2>6. CASE EndStatement(t)
    <3>1. pc[t] = "use" /\ threadID' = threadID /\ pc'[t] \in Returns
      BY <1>c, <2>6 DEF EndStatement, Return, At, Go
    <3>2. /\ connStat'[index[t]] # 1
          /\ \A c \in Conns \ {index[t]} : connStat'[c] = connStat[c] /\ ~WillFree(c, t)
      <4>1. PICK n \in {0, 2} : connStat' = [connStat EXCEPT ![index[t]] = n]
        BY <2>6 DEF EndStatement
      <4> QED
        BY <1>c, <2>0, <3>1, <4>1 DEF WillFree, Users
    <3> QED
      BY <3>1, <3>2 DEF Returns, MarkedAfter, InRange
  <2> QED
    BY <1>1, <2>1, <2>2, <2>3, <2>4, <2>5, <2>6 DEF DatabaseCall
<1>2. ASSUME NEW t \in Threads, Calm(t) PROVE MarkInv'
  <2>1. OthersStay(t) /\ UNCHANGED <<connStat, threadID>>
    BY <1>2 DEF Calm, OthersStay
  <2>2. InRange(t)' /\ \A c \in Conns : ~WillFree(c, t)
    BY <1>2 DEF Calm, PoolPlaces, Holding, Using, InRange, WillFree, Users
  <2> QED
    BY <1>a, <2>1, <2>2, MarkKept DEF MarkedAfter
<1>3. ASSUME NEW s \in Sessions, Throw(s) \/ HangUp(s) \/ Cleanup(s) \/ Leave(s)
      PROVE  MarkInv'
  <2>0. OthersStay(s) /\ s \in Threads /\ index[s] \in Conns
    BY <1>3, <1>c, SessionStays, ThreadKinds DEF SessionStep
  <2> SUFFICES MarkedAfter(s)
    BY <1>a, <2>0, MarkKept
  <2>1. InRange(s)' /\ threadID' = threadID
    BY <1>3, <1>c, <2>0 DEF Throw, HangUp, Cleanup, Leave, At, Go, InRange
  <2>2. CASE Throw(s)
    <3>1. connStat' = connStat /\ pc[s] = "use" /\ pc'[s] = "hangUp"
      BY <1>c, <2>0, <2>2 DEF Throw, At, Go
    <3> QED
      BY <2>1, <3>1 DEF MarkedAfter, WillFree, Users
  <2>3. CASE HangUp(s)
    <3>1. connStat' = connStat /\ pc[s] = "hangUp" /\ pc'[s] = "ending" /\ index'[s] = 0
      BY <1>c, <1>d, <2>0, <2>3 DEF HangUp, At, Go
    <3>2. \A c \in Conns : 0 <= c
      BY <1>d
    <3> QED
      BY <2>1, <3>1, <3>2 DEF MarkedAfter, WillFree, Users
  <2>4. CASE Cleanup(s)
    <3>1. pc[s] = "ending" /\ pc'[s] = "ending" /\ index'[s] = index[s] + 1
      BY <1>c, <2>0, <2>4 DEF Cleanup, At
    <3>2. \A c \in Conns \ {index[s]} : connStat'[c] = connStat[c]
      <4>1. \/ connStat' = [connStat EXCEPT ![index[s]] = 0]
            \/ connStat' = connStat
        BY <2>4 DEF Cleanup, Free
      <4> QED
        BY <1>c, <2>0, <4>1
    <3>3. connStat'[index[s]] = 1 => connStat[index[s]] = 1 /\ threadID[index[s]] # s
      <4>1. CASE connStat[index[s]] = 1 /\ threadID[index[s]] = s
        <5>1. connStat' = [connStat EXCEPT ![index[s]] = 0]
          BY <2>4, <4>1 DEF Cleanup, Free
        <5> QED
          BY <1>c, <2>0, <5>1
      <4>2. CASE ~(connStat[index[s]] = 1 /\ threadID[index[s]] = s)
        BY <2>4, <4>2 DEF Cleanup
      <4> QED
        BY <4>1, <4>2
    <3>4. \A c \in Conns \ {index[s]} : WillFree(c, s) => WillFree(c, s)'
      <4>1. \A c \in Conns \ {index[s]} : index[s] <= c => index[s] + 1 <= c
        BY <1>d, <2>0
      <4> QED
        BY <2>1, <3>1, <4>1 DEF WillFree, Users
    <3>5. threadID[index[s]] # s => ~WillFree(index[s], s)
      BY <3>1 DEF WillFree, Users
    <3> QED
      BY <2>1, <3>2, <3>3, <3>4, <3>5 DEF MarkedAfter
  <2>5. CASE Leave(s)
    <3>1. connStat' = connStat /\ pc[s] = "ending" /\ index[s] >= MAX_CONNECT_NUM
      BY <2>5 DEF Leave, At
    <3>2. \A c \in Conns : connStat[c] = 1 => c < MAX_CONNECT_NUM
      BY <1>b DEF Answered
    <3>3. \A c \in Conns : connStat[c] = 1 => ~(index[s] <= c)
      BY <1>d, <2>0, <3>1, <3>2
    <3> QED
      BY <2>1, <3>1, <3>3 DEF MarkedAfter, WillFree, Users
  <2> QED
    BY <1>3, <2>2, <2>3, <2>4, <2>5
<1>4. ASSUME NEW r \in Refreshers, GetEposPar(r) \/ Resize(r) PROVE MarkInv'
  <2>0. OthersStay(r) /\ r \in Threads
    BY <1>4, RefresherStays, ThreadKinds DEF RefresherStep
  <2>1. /\ pc[r] \in {"getEposPar", "resize"} /\ pc'[r] \in {"resize", "idle", "resetSynPar"}
        /\ threadID' = threadID
    BY <1>4, <1>c, <2>0 DEF GetEposPar, Resize, At, Go, poolVars
  <2>2. \A c \in Conns : connStat'[c] = 1 => connStat[c] = 1
    <3>1. CASE GetEposPar(r)
      BY <3>1 DEF GetEposPar, poolVars
    <3>2. CASE Resize(r)
      BY <3>2 DEF Resize
    <3> QED
      BY <1>4, <3>1, <3>2
  <2>3. MarkedAfter(r)
    BY <2>1, <2>2 DEF MarkedAfter, InRange, WillFree, Users
  <2> QED
    BY <1>a, <2>0, <2>3, MarkKept
<1>5. CASE (\E c \in Conns : Expire(c)) \/ FreeExpired \/ UNCHANGED vars
  <2>1. UNCHANGED <<threadID, pc, index>>
    BY <1>5 DEF Expire, FreeExpired, vars, poolVars
  <2>2. \A c \in Conns : connStat'[c] = 1 => connStat[c] = 1
    <3>1. CASE FreeExpired
      <4>1. PICK d \in watched, n \in {0, 2} : connStat' = [connStat EXCEPT ![d] = n]
        BY <3>1 DEF FreeExpired, Free
      <4> QED
        BY <1>c, <4>1
    <3>2. CASE (\E c \in Conns : Expire(c)) \/ UNCHANGED vars
      BY <3>2 DEF Expire, vars, poolVars
    <3> QED
      BY <1>5, <3>1, <3>2
  <2>3. \A t \in Threads : InRange(t)'
    BY <1>a, <1>b, <2>1 DEF InRange
  <2>4. \A c \in Conns, t \in Threads : WillFree(c, t) => WillFree(c, t)'
    BY <2>1 DEF WillFree, Users
  <2>5. \A c \in Conns : Answered(c) => Answered(c)'
    BY <1>a, <2>4 DEF Answered
  <2> QED
    BY <1>b, <2>2, <2>3, <2>5 DEF MarkInv
<1>6. ASSUME NEW s \in Sessions, SessionStep(s) PROVE MarkInv'
  BY <1>2, <1>3, <1>6, CalmSession, ThreadKinds
<1>7. ASSUME NEW r \in Refreshers, RefresherStep(r) PROVE MarkInv'
  BY <1>2, <1>4, <1>7, CalmRefresher, ThreadKinds
<1> QED
  BY <1>1, <1>5, <1>6, <1>7, ThreadKinds
     DEF Next, Session, Refresher, SessionStep, RefresherStep, FirstStep

-----------------------------------------------------------------------------
(* The invariant holds when the threads start.                              *)
LEMMA InitInv == Init => IInv
<1> SUFFICES ASSUME Init PROVE IInv
  OBVIOUS
<1> USE DEF Init
<1>1. TypeInv
  <2>1. GlobalsOK
    BY ServerAssumption DEF GlobalsOK, Sizes, Limits
  <2>2. PoolOK
    BY DEF PoolOK, Nobody
  <2>3. PlacesOK
    BY ThreadKinds DEF PlacesOK, AllPlaces, SessionPlaces, RefresherPlaces
  <2>4. IndexOK
    BY ConnRange DEF IndexOK
  <2>5. CallsOK
    BY ServerAssumption DEF CallsOK, Returns
  <2>6. ReloadOK
    BY ServerAssumption DEF ReloadOK, Sizes
  <2>7. FlagsOK
    BY DEF FlagsOK
  <2>8. PlaceInv
    BY ThreadKinds DEF PlaceInv, CallPlaces
  <2> QED
    BY <2>1, <2>2, <2>3, <2>4, <2>5, <2>6, <2>7, <2>8, TypeParts
<1>2. OnlineCount
  <2>1. Counted = {} /\ ONLINE_NUM = 0
    BY ThreadKinds DEF Counted
  <2> QED
    BY <2>1, FS_EmptySet, ServerAssumption DEF OnlineCount
<1>3. LockInv
  BY ThreadKinds DEF LockInv, Holding, Nobody
<1>4. ShareInv
  <2>1. \A c \in Conns : Users(c) = {}
    BY DEF Users
  <2> QED
    BY <2>1 DEF ShareInv, Guarded
<1>5. MarkInv
  BY DEF MarkInv, InRange
<1>6. SynInv
  BY ThreadKinds DEF SynInv
<1> QED
  BY <1>1, <1>2, <1>3, <1>4, <1>5, <1>6 DEF IInv

(* Every step keeps it; hence it holds always.                              *)
LEMMA AlwaysInv == Spec => []IInv
<1>1. ASSUME IInv, [Next]_vars PROVE IInv'
  <2>1. OnlineCount' /\ ONLINE_NUM' \in Nat
    BY <1>1, CountStep DEF IInv
  <2>2. TypeInv'
    BY <1>1, <2>1, TypeParts, GlobalsOKStep, PoolOKStep, PlacesOKStep, IndexOKStep, CallsOKStep,
       ReloadOKStep, FlagsOKStep, PlaceInvStep DEF IInv
  <2> QED
    BY <1>1, <2>1, <2>2, LockStep, ShareStep, MarkStep, SynStep DEF IInv
<1>2. IInv /\ [Next]_vars => IInv'
  BY <1>1
<1> QED
  BY InitInv, <1>2, PTL DEF Spec

(* The variables keep their types: no thread's index leaves the array of    *)
(* connections although another thread may change MAX_CONNECT_NUM while it  *)
(* scans, and ONLINE_NUM never falls below zero.                            *)
THEOREM TypeCorrect == Spec => []TypeOK
<1>1. IInv => TypeOK
  BY DEF IInv, TypeInv
<1> QED
  BY AlwaysInv, <1>1, PTL

(* ONLINE_NUM counts the sessions that run, and is more than one above      *)
(* MAX_ONLINE_NUM only since an update lowered that limit below it.         *)
THEOREM OnlineNumCounts == Spec => []OnlineCount
<1>1. IInv => OnlineCount
  BY DEF IInv
<1> QED
  BY AlwaysInv, <1>1, PTL

(* getConnStat gives no connection to two threads.                          *)
THEOREM NoSharedConnection == Spec => []SharedOnlyWhenFreed
<1>1. IInv => SharedOnlyWhenFreed
  <2> SUFFICES ASSUME IInv, NEW c \in Conns, c \notin unguarded
               PROVE  Cardinality(Users(c)) <= 1
    BY DEF SharedOnlyWhenFreed
  <2>1. Guarded(c)
    BY DEF IInv, ShareInv
  <2>2. CASE Users(c) = {}
    BY <2>2, FS_EmptySet
  <2>3. CASE Users(c) # {}
    <3>1. PICK t \in Users(c) : Users(c) = {t}
      BY <2>1, <2>3 DEF Guarded
    <3> QED
      BY <3>1, FS_Singleton
  <2> QED
    BY <2>2, <2>3
<1> QED
  BY AlwaysInv, <1>1, PTL

(* A connection that is marked is used, or will be freed by the session     *)
(* that left it, as long as the pool keeps its size.                        *)
THEOREM NoConnectionLost == Spec => []MarkedIsUsed
<1>1. IInv => MarkedIsUsed
  <2> SUFFICES ASSUME IInv, NEW c \in Conns, connStat[c] = 1, ~resized
               PROVE  \/ Users(c) # {}
                      \/ \E s \in Sessions :
                           /\ pc[s] = "hangUp" \/ (pc[s] = "ending" /\ index[s] <= c)
                           /\ threadID[c] = s
    BY DEF MarkedIsUsed
  <2>1. PICK t \in Threads : WillFree(c, t)
    BY DEF IInv, MarkInv, Answered
  <2> QED
    BY <2>1 DEF WillFree
<1> QED
  BY AlwaysInv, <1>1, PTL

(* The tables stay locked after a reload only when an update failed.        *)
THEOREM UnlockedUnlessFailed == Spec => []LockedOnlyByFailure
<1>1. IInv => LockedOnlyByFailure
  BY DEF IInv, SynInv, WillUnlock, LockedOnlyByFailure, CallPlaces
<1> QED
  BY AlwaysInv, <1>1, PTL

(* cs_g_connStat does what it is for: one thread at a time scans the pool   *)
(* or opens a connection again.                                             *)
OneScans == \A t, u \in Threads : pc[t] \in Holding /\ pc[u] \in Holding => t = u

(* Two threads are never inside the critical section of getConnStat.        *)
THEOREM ScanIsExclusive == Spec => []OneScans
<1>1. IInv => OneScans
  BY DEF IInv, LockInv, OneScans
<1> QED
  BY AlwaysInv, <1>1, PTL
=============================================================================
