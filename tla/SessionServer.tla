--------------------------- MODULE SessionServer ---------------------------
(***************************************************************************)
(* The CTSI server: one thread per terminal session, a pool of database     *)
(* connections shared by all threads, the tables kept in global vectors,    *)
(* and the two threads (dialog, refresh port) that reload the tables or the *)
(* parameters.  Only taking a connection is done under cs_g_connStat: it is *)
(* given back, cleaned up at the end of a session and freed by the hourly   *)
(* watchdog without a lock, and its owner is recorded after the lock has    *)
(* been released.  syn_flag is a plain variable that readers of the tables  *)
(* test once, before they read.                                             *)
(***************************************************************************)
EXTENDS Naturals, FiniteSets

CONSTANTS Sessions,      \* terminal sessions, and the ids of their threads
          Refreshers,    \* the threads that may reload: dialog and refresh port
          ConnSizes,     \* values of MAX_CONNECT_NUM in the configuration file
          OnlineLimits,  \* values of MAX_ONLINE_NUM in the configuration file
          ConnTries,     \* tries of getConnStat, 5
          NumTables,     \* loaders called by getTable
          HourPasses,    \* whether an hour passes after a connection was recorded
          MaxReloads,    \* bound on the reloads and updates begun; 0 is no bound
          NoThread       \* threadID of a connection that was never used

Threads == Sessions \cup Refreshers
Conns == 0 .. CHOOSE n \in ConnSizes : \A k \in ConnSizes : k <= n

ASSUME ServerAssumption ==
  /\ ConnSizes \subseteq Nat \ {0}
  /\ \E n \in ConnSizes : \A k \in ConnSizes : k <= n
  /\ IsFiniteSet(Sessions) /\ Sessions \cap Refreshers = {}
  /\ OnlineLimits \subseteq Nat /\ OnlineLimits # {}
  /\ ConnTries \in Nat \ {0} /\ NumTables \in Nat \ {0}
  /\ MaxReloads \in Nat
  /\ HourPasses \in BOOLEAN /\ NoThread \notin Threads

VARIABLES
  ONLINE_NUM, TRADE_STAT, syn_flag, MAX_CONNECT_NUM, MAX_ONLINE_NUM,
  connStat,              \* per connection: 0 free, 1 in use, 2 broken
  threadID,              \* per connection: the last thread recorded as its user
  lock,                  \* the holder of cs_g_connStat
  pc,                    \* per thread: its place
  index, tries,          \* per thread: i and j of getConnStat
  back, ok,              \* per thread: where the database call returns, and how
  sock,                  \* per session: whether its socket is open
  tables,                \* per refresher: tables loaded by getTable so far
  mine,                  \* per refresher: syn_flag_is_zero
  watched,               \* the connections chkAdoConn is about to free
  unguarded,             \* history: connections freed while another thread used them,
                         \* or used without having been marked
  maxConNum,             \* per refresher: the size of the pool before the update
  resized,               \* history: the size of the pool has changed
  lowered,               \* history: an update put the limit below the sessions that ran,
                         \* and they have not been within it since
  reloads,               \* those begun, counted against MaxReloads
  failedUpdate           \* history: the last update of the parameters failed

poolVars == <<connStat, threadID, lock, index, tries, unguarded>>
callVars == <<back, ok>>
limits == <<MAX_ONLINE_NUM, lowered>>
reloadVars == <<syn_flag, MAX_CONNECT_NUM, maxConNum, resized, tables, mine, failedUpdate,
                limits, reloads>>
vars == <<poolVars, callVars, reloadVars, ONLINE_NUM, TRADE_STAT, pc, sock, watched>>

Nobody == NoThread

At(t, place) == pc[t] = place
Go(t, place) == pc' = [pc EXCEPT ![t] = place]

(* OnOK: the pool is opened and the tables are loaded before the threads    *)
(* start; a connection that could not be opened is marked broken.           *)
Init ==
  /\ ONLINE_NUM = 0 /\ TRADE_STAT = 0 /\ syn_flag = 0
  /\ MAX_CONNECT_NUM \in ConnSizes
  /\ connStat \in [Conns -> {0, 2}]
  /\ \A c \in Conns : c >= MAX_CONNECT_NUM => connStat[c] = 0
  /\ threadID = [c \in Conns |-> NoThread]
  /\ lock = Nobody
  /\ pc = [t \in Threads |-> IF t \in Sessions THEN "none" ELSE "idle"]
  /\ index = [t \in Threads |-> 0] /\ tries = [t \in Threads |-> 0]
  /\ back = [t \in Threads |-> "menu"] /\ ok = [t \in Threads |-> FALSE]
  /\ sock = [s \in Sessions |-> "closed"]
  /\ tables = [r \in Refreshers |-> 0] /\ mine = [r \in Refreshers |-> FALSE]
  /\ watched = {}
  /\ MAX_ONLINE_NUM \in OnlineLimits /\ lowered = FALSE
  /\ unguarded = {} /\ failedUpdate = FALSE /\ resized = FALSE
  /\ maxConNum = [r \in Refreshers |-> 0] /\ reloads = 0

-----------------------------------------------------------------------------
(* A database call of thread t: getConnStat, the statement, the release.    *)

(* The threads that hold connection c, or are reconnecting it. *)
Users(c) == {t \in Threads : index[t] = c /\ pc[t] \in {"reconnect", "got", "use"}}

(* A call is begun: it will return to `place`.                              *)
Call(t, place) ==
  /\ Go(t, "getConnStat")
  /\ back' = [back EXCEPT ![t] = place]

(* It is over: its local variables are gone.  Three callers look at the     *)
(* result; getDBtime's is ignored, and ok stays that of getEposTerm.        *)
Return(t, result) ==
  /\ Go(t, back[t])
  /\ ok' = [ok EXCEPT ![t] =
               IF back[t] = "setTradeStat" THEN @
                 ELSE result /\ back[t] \in {"getEncryptType", "getDBtime", "loaded"}]
  /\ back' = [back EXCEPT ![t] = "menu"]
  /\ index' = [index EXCEPT ![t] = 0] /\ tries' = [tries EXCEPT ![t] = 0]

(* cs_g_connStat.Lock(); the scan starts at connection 0.                   *)
LockConnStat(t) ==
  /\ At(t, "getConnStat") /\ lock = Nobody
  /\ lock' = t
  /\ index' = [index EXCEPT ![t] = 0]
  /\ Go(t, "scan")
  /\ UNCHANGED <<connStat, threadID, tries, unguarded, callVars, reloadVars, ONLINE_NUM,
                 TRADE_STAT, sock, watched>>

Take_StaysFree(t) ==
  /\ At(t, "scan") /\ index[t] < MAX_CONNECT_NUM
  /\ connStat[index[t]] = 0
  /\ Go(t, "got") /\ lock' = Nobody
  /\ UNCHANGED <<connStat, threadID, index, tries, unguarded, callVars, reloadVars, ONLINE_NUM,
                 TRADE_STAT, sock, watched>>

(* The first free connection is marked, and the lock is released.           *)
Take(t) ==
  /\ At(t, "scan") /\ index[t] < MAX_CONNECT_NUM
  /\ connStat[index[t]] = 0
  /\ connStat' = [connStat EXCEPT ![index[t]] = 1]
  /\ Go(t, "got") /\ lock' = Nobody
  /\ UNCHANGED <<threadID, index, tries, unguarded, callVars, reloadVars, ONLINE_NUM,
                 TRADE_STAT, sock, watched>>

(* A broken connection is marked and opened again ...                       *)
TakeBroken(t) ==
  /\ At(t, "scan") /\ index[t] < MAX_CONNECT_NUM
  /\ connStat[index[t]] = 2
  /\ connStat' = [connStat EXCEPT ![index[t]] = 1]
  /\ Go(t, "reconnect")
  /\ UNCHANGED <<threadID, lock, index, tries, unguarded, callVars, reloadVars, ONLINE_NUM,
                 TRADE_STAT, sock, watched>>

(* ... which succeeds, or fails and lets the scan go on.                    *)
Reconnect(t) ==
  /\ At(t, "reconnect")
  /\ \/ /\ connStat' = [connStat EXCEPT ![index[t]] = 1]
        /\ Go(t, "got") /\ lock' = Nobody
        /\ UNCHANGED index
     \/ /\ connStat' = [connStat EXCEPT ![index[t]] = 2]
        /\ Go(t, "scan")
        /\ index' = [index EXCEPT ![t] = @ + 1]
        /\ UNCHANGED lock
  /\ UNCHANGED <<threadID, tries, unguarded, callVars, reloadVars, ONLINE_NUM,
                 TRADE_STAT, sock, watched>>

(* A connection in use is passed over; at the end the lock is released.     *)
PassOver(t) ==
  /\ At(t, "scan")
  /\ IF index[t] < MAX_CONNECT_NUM
       THEN /\ connStat[index[t]] = 1
            /\ index' = [index EXCEPT ![t] = @ + 1]
            /\ UNCHANGED <<pc, lock>>
       ELSE /\ Go(t, "none found") /\ lock' = Nobody
            /\ UNCHANGED index
  /\ UNCHANGED <<connStat, threadID, tries, unguarded, callVars, reloadVars, ONLINE_NUM,
                 TRADE_STAT, sock, watched>>

RecordThread_OnceMore(t) ==
  /\ pc[t] \in {"got", "none found"}
  /\ IF index[t] # MAX_CONNECT_NUM
       THEN /\ threadID' = [threadID EXCEPT ![index[t]] = t]
            /\ Go(t, "use")
            /\ unguarded' = IF At(t, "got") THEN unguarded ELSE unguarded \cup {index[t]}
            /\ UNCHANGED <<index, tries, back, ok>>
       ELSE /\ IF tries[t] < ConnTries
                 THEN /\ Go(t, "getConnStat")
                      /\ tries' = [tries EXCEPT ![t] = @ + 1]
                      /\ UNCHANGED <<index, back, ok>>
                 ELSE Return(t, FALSE)
            /\ UNCHANGED <<threadID, unguarded>>
  /\ UNCHANGED <<connStat, lock, reloadVars, ONLINE_NUM,
                 TRADE_STAT, sock, watched>>

(* if(i!=MAX_CONNECT_NUM), after the lock was released and with the limit   *)
(* read again: the thread is recorded as the user, or the search is         *)
(* repeated after 300 ms, five times in all.                                *)
RecordThread(t) ==
  /\ pc[t] \in {"got", "none found"}
  /\ IF index[t] # MAX_CONNECT_NUM
       THEN /\ threadID' = [threadID EXCEPT ![index[t]] = t]
            /\ Go(t, "use")
            /\ unguarded' = IF At(t, "got") THEN unguarded ELSE unguarded \cup {index[t]}
            /\ UNCHANGED <<index, tries, back, ok>>
       ELSE /\ IF tries[t] + 1 < ConnTries
                 THEN /\ Go(t, "getConnStat")
                      /\ tries' = [tries EXCEPT ![t] = @ + 1]
                      /\ UNCHANGED <<index, back, ok>>
                 ELSE Return(t, FALSE)
            /\ UNCHANGED <<threadID, unguarded>>
  /\ UNCHANGED <<connStat, lock, reloadVars, ONLINE_NUM,
                 TRADE_STAT, sock, watched>>

(* The statement ran, failed, or gave a session no row it can use: the      *)
(* connection is free, or broken.                                           *)
EndStatement(t) ==
  /\ At(t, "use")
  /\ \E stat \in {0, 2}, result \in BOOLEAN :
       /\ result => stat = 0
       /\ t \in Refreshers => result = (stat = 0)
       /\ connStat' = [connStat EXCEPT ![index[t]] = stat]
       /\ Return(t, result)
  /\ UNCHANGED <<threadID, lock, unguarded, reloadVars, ONLINE_NUM,
                 TRADE_STAT, sock, watched>>

(* Converting a field throws, and the session's catch(...) ends the session *)
(* with the connection still marked.                                        *)
Throw(s) ==
  /\ At(s, "use")
  /\ Go(s, "hangUp")
  /\ back' = [back EXCEPT ![s] = "menu"] /\ tries' = [tries EXCEPT ![s] = 0]
  /\ ok' = [ok EXCEPT ![s] = FALSE]
  /\ UNCHANGED <<connStat, threadID, lock, index, unguarded, reloadVars, ONLINE_NUM,
                 TRADE_STAT, sock, watched>>

DatabaseCall(t) ==
  \/ LockConnStat(t) \/ Take(t) \/ TakeBroken(t) \/ Reconnect(t) \/ PassOver(t)
  \/ RecordThread(t) \/ EndStatement(t)

-----------------------------------------------------------------------------
(* Sessions.                                                                *)

(* OpenServer: a connection is refused when too many sessions are counted.  *)
Accept(s) ==
  /\ At(s, "none") /\ sock[s] = "closed"
  /\ ONLINE_NUM <= MAX_ONLINE_NUM
  /\ sock' = [sock EXCEPT ![s] = "open"]
  /\ Go(s, "created")
  /\ UNCHANGED <<poolVars, callVars, reloadVars, ONLINE_NUM, TRADE_STAT, watched>>

Enter_Unchecked(s) ==
  /\ At(s, "created")
  /\ Go(s, "getAgreeFlag") /\ ONLINE_NUM' = ONLINE_NUM + 1
  /\ UNCHANGED <<poolVars, callVars, reloadVars, TRADE_STAT, sock, watched>>

(* SessionThread counts itself, or returns when the limit has been passed   *)
(* meanwhile; it then leaves the socket open.                               *)
Enter(s) ==
  /\ At(s, "created")
  /\ IF ONLINE_NUM > MAX_ONLINE_NUM
       THEN Go(s, "none") /\ UNCHANGED ONLINE_NUM
       ELSE Go(s, "getAgreeFlag") /\ ONLINE_NUM' = ONLINE_NUM + 1
  /\ UNCHANGED <<poolVars, callVars, reloadVars, TRADE_STAT, sock, watched>>

(* Menu_main_hdl makes its first calls without isLock: getAgreeFlag, unless *)
(* the terminal does not answer, getEncryptType, which needs a row for the  *)
(* terminal, and setEncryptType when the type has to be written.            *)
GetAgreeFlag(s) ==
  /\ At(s, "getAgreeFlag")
  /\ Call(s, "getEncryptType") \/ (Go(s, "hangUp") /\ UNCHANGED back)
  /\ UNCHANGED <<poolVars, ok, reloadVars, ONLINE_NUM, TRADE_STAT, sock, watched>>

GetEncryptType(s) ==
  /\ At(s, "getEncryptType")
  /\ IF ok[s] THEN Call(s, "setEncryptType") ELSE Go(s, "hangUp") /\ UNCHANGED back
  /\ ok' = [ok EXCEPT ![s] = FALSE]
  /\ UNCHANGED <<poolVars, reloadVars, ONLINE_NUM, TRADE_STAT, sock, watched>>

SetEncryptType(s) ==
  /\ At(s, "setEncryptType")
  /\ Call(s, "getEposTerm") \/ (Go(s, "getEposTerm") /\ UNCHANGED back)
  /\ UNCHANGED <<poolVars, ok, reloadVars, ONLINE_NUM, TRADE_STAT, sock, watched>>

(* getEposTerm, which isLock refuses when the tables stay locked for six    *)
(* seconds.  It asks the host for the daily limit (get_dayAmt) with its     *)
(* connection still marked; that is part of "use".                          *)
GetEposTerm(s) ==
  /\ At(s, "getEposTerm")
  /\ \/ syn_flag = 0 /\ Call(s, "getDBtime") /\ UNCHANGED ok
     \/ /\ syn_flag = 1
        /\ Go(s, "getDBtime") /\ ok' = [ok EXCEPT ![s] = FALSE]
        /\ UNCHANGED back
  /\ UNCHANGED <<poolVars, reloadVars, ONLINE_NUM, TRADE_STAT, sock, watched>>

(* getDBtime, without isLock; nobody looks at how it ends.                  *)
GetDBtime(s) ==
  /\ At(s, "getDBtime")
  /\ Call(s, "setTradeStat")
  /\ UNCHANGED <<poolVars, ok, reloadVars, ONLINE_NUM, TRADE_STAT, sock, watched>>

(* Trading is paused outside the service hours, and when there is no time,  *)
(* and resumed within them.                                                 *)
SetTradeStat(s) ==
  /\ At(s, "setTradeStat")
  /\ TRADE_STAT' \in {0, 1}
  /\ Go(s, "testTerm")
  /\ UNCHANGED <<poolVars, callVars, reloadVars, ONLINE_NUM, sock, watched>>

(* A pause ends the session, and so does an unknown terminal.               *)
TestTerm(s) ==
  /\ At(s, "testTerm")
  /\ IF TRADE_STAT = 1 \/ ~ok[s] THEN Go(s, "hangUp") ELSE Go(s, "menu")
  /\ ok' = [ok EXCEPT ![s] = FALSE]
  /\ UNCHANGED <<poolVars, back, reloadVars, ONLINE_NUM, TRADE_STAT, sock, watched>>

(* get_menu_list and getMenu: isLock, then the vectors are read.            *)
TestLock(s) ==
  /\ At(s, "menu")
  /\ IF syn_flag = 0 THEN Go(s, "reading") ELSE Go(s, "hangUp")
  /\ UNCHANGED <<poolVars, callVars, reloadVars, ONLINE_NUM, TRADE_STAT, sock, watched>>

EndRead(s) ==
  /\ At(s, "reading")
  /\ Go(s, "turn")
  /\ UNCHANGED <<poolVars, callVars, reloadVars, ONLINE_NUM, TRADE_STAT, sock, watched>>

(* The menu loop: a pause ends the session before the next operation; the   *)
(* operation calls the database without isLock and goes back to the menu.   *)
Turn(s) ==
  /\ At(s, "turn")
  /\ \/ TRADE_STAT = 0 /\ Call(s, "menu")
     \/ Go(s, "hangUp") /\ UNCHANGED back
  /\ UNCHANGED <<poolVars, ok, reloadVars, ONLINE_NUM,
                 TRADE_STAT, sock, watched>>

(* The session is over; its connections are looked through from the first.  *)
HangUp(s) ==
  /\ At(s, "hangUp")
  /\ index' = [index EXCEPT ![s] = 0]
  /\ Go(s, "ending")
  /\ UNCHANGED <<connStat, threadID, lock, tries, unguarded, callVars, reloadVars, ONLINE_NUM,
                 TRADE_STAT, sock, watched>>

(* Freeing a connection that another thread uses leaves it unguarded.       *)
Free(c, t, stat) ==
  /\ connStat' = [connStat EXCEPT ![c] = stat]
  /\ unguarded' = IF Users(c) \ {t} = {} THEN unguarded ELSE unguarded \cup {c}

Cleanup_None(s) ==
  /\ At(s, "ending") /\ index[s] < MAX_CONNECT_NUM
  /\ index' = [index EXCEPT ![s] = @ + 1]
  /\ UNCHANGED <<connStat, unguarded, threadID, lock, tries, callVars, reloadVars, ONLINE_NUM,
                 TRADE_STAT, pc, sock, watched>>

(* SessionThread frees what it still has in use, without the lock.          *)
Cleanup(s) ==
  /\ At(s, "ending") /\ index[s] < MAX_CONNECT_NUM
  /\ LET c == index[s]
     IN IF connStat[c] = 1 /\ threadID[c] = s
          THEN Free(c, s, 0)
          ELSE UNCHANGED <<connStat, unguarded>>
  /\ index' = [index EXCEPT ![s] = @ + 1]
  /\ UNCHANGED <<threadID, lock, tries, callVars, reloadVars, ONLINE_NUM,
                 TRADE_STAT, pc, sock, watched>>

(* ONLINE_NUM--; the destructor of CMenuHdl hangs up.                       *)
Leave(s) ==
  /\ At(s, "ending") /\ index[s] >= MAX_CONNECT_NUM
  /\ ONLINE_NUM' = ONLINE_NUM - 1
  /\ lowered' = (lowered /\ ONLINE_NUM' > MAX_ONLINE_NUM + 1)
  /\ Go(s, "none") /\ sock' = [sock EXCEPT ![s] = "closed"]
  /\ index' = [index EXCEPT ![s] = 0]
  /\ UNCHANGED <<connStat, threadID, lock, tries, unguarded, callVars, syn_flag,
                 MAX_CONNECT_NUM, MAX_ONLINE_NUM, maxConNum, resized, tables, mine,
                 failedUpdate, reloads, TRADE_STAT, watched>>

Session(s) ==
  \/ Accept(s) \/ Enter(s) \/ GetAgreeFlag(s) \/ GetEncryptType(s) \/ SetEncryptType(s)
  \/ GetEposTerm(s) \/ GetDBtime(s) \/ SetTradeStat(s) \/ TestTerm(s)
  \/ TestLock(s) \/ EndRead(s) \/ Turn(s) \/ Throw(s) \/ DatabaseCall(s)
  \/ HangUp(s) \/ Cleanup(s) \/ Leave(s)

-----------------------------------------------------------------------------
(* chkAdoConn: a connection in use whose recorded time is an hour old (it   *)
(* may be the time of an earlier use) is closed, opened again and marked    *)
(* free or broken, without the lock.                                        *)
Expire(c) ==
  /\ HourPasses
  /\ watched = {} /\ c < MAX_CONNECT_NUM /\ connStat[c] = 1
  /\ threadID[c] # NoThread
  /\ watched' = {c}
  /\ UNCHANGED <<poolVars, callVars, reloadVars, ONLINE_NUM, TRADE_STAT, pc, sock>>

FreeExpired ==
  /\ \E c \in watched, stat \in {0, 2} : Free(c, NoThread, stat)
  /\ watched' = {}
  /\ UNCHANGED <<threadID, lock, index, tries, callVars, reloadVars, ONLINE_NUM,
                 TRADE_STAT, pc, sock>>

-----------------------------------------------------------------------------
(* Reloading, by the dialog thread and by the refresh port's thread.        *)

(* A reload or an update begins; the bound only keeps the model small.      *)
Begin ==
  IF MaxReloads = 0 THEN UNCHANGED reloads
                    ELSE reloads < MaxReloads /\ reloads' = reloads + 1

(* OnFlashDB: whoever finds syn_flag at 0 sets it and will reset it.        *)
OnFlashDB(r) ==
  /\ At(r, "idle") /\ Begin
  /\ mine' = [mine EXCEPT ![r] = syn_flag = 0]
  /\ Go(r, IF syn_flag = 0 THEN "setSyn" ELSE "wait")
  /\ UNCHANGED <<poolVars, back, ok, syn_flag, MAX_CONNECT_NUM, maxConNum, resized,
                 tables, failedUpdate, limits, ONLINE_NUM,
                 TRADE_STAT, sock, watched>>

SetSyn(r) ==
  /\ At(r, "setSyn")
  /\ syn_flag' = 1
  /\ Go(r, "wait")
  /\ UNCHANGED <<poolVars, callVars, MAX_CONNECT_NUM, maxConNum, resized, tables, mine,
                 failedUpdate, limits, reloads, ONLINE_NUM,
                 TRADE_STAT, sock, watched>>

Idlesse_AllOpen == \A c \in Conns : c < MAX_CONNECT_NUM => connStat[c] = 0

(* waitForidlesse looks at all connections under the lock.  Nobody else can *)
(* mark a connection meanwhile, so its look is one step.                    *)
Idlesse == \A c \in Conns : c < MAX_CONNECT_NUM => connStat[c] # 1

WaitForidlesse(r) ==
  /\ pc[r] \in {"wait", "waitPar"}
  /\ lock = Nobody /\ Idlesse
  /\ Go(r, IF At(r, "wait") THEN "getTable" ELSE "getEposPar")
  /\ UNCHANGED <<poolVars, callVars, reloadVars, ONLINE_NUM, TRADE_STAT, sock, watched>>

(* getTable calls the loaders one after the other, each with a connection,  *)
(* and stops at the first that fails.                                       *)
GetTable(r) ==
  /\ At(r, "getTable")
  /\ IF tables[r] < NumTables
       THEN /\ Call(r, "loaded")
            /\ UNCHANGED ok
       ELSE /\ Go(r, "resetSyn")
            /\ UNCHANGED <<back, ok>>
  /\ UNCHANGED <<poolVars, reloadVars, ONLINE_NUM,
                 TRADE_STAT, sock, watched>>

Loaded(r) ==
  /\ At(r, "loaded")
  /\ tables' = [tables EXCEPT ![r] = IF ok[r] THEN @ + 1 ELSE NumTables]
  /\ Go(r, "getTable") /\ ok' = [ok EXCEPT ![r] = FALSE]
  /\ UNCHANGED <<poolVars, back, syn_flag, MAX_CONNECT_NUM, maxConNum, resized, mine,
                 failedUpdate, limits, reloads, ONLINE_NUM,
                 TRADE_STAT, sock, watched>>

(* Only the thread that set syn_flag resets it.                             *)
ResetSyn(r) ==
  /\ At(r, "resetSyn")
  /\ syn_flag' = IF mine[r] THEN 0 ELSE syn_flag
  /\ mine' = [mine EXCEPT ![r] = FALSE] /\ tables' = [tables EXCEPT ![r] = 0]
  /\ Go(r, "idle")
  /\ UNCHANGED <<poolVars, callVars, MAX_CONNECT_NUM, maxConNum, resized,
                 failedUpdate, limits, reloads, ONLINE_NUM,
                 TRADE_STAT, sock, watched>>

(* OnUpdatePar: the size of the pool is noted, trading is toggled to a      *)
(* pause, then the tables are locked.                                       *)
OnUpdatePar(r) ==
  /\ At(r, "idle") /\ Begin
  /\ maxConNum' = [maxConNum EXCEPT ![r] = MAX_CONNECT_NUM]
  /\ TRADE_STAT' = 1 - TRADE_STAT
  /\ Go(r, "setSynPar")
  /\ UNCHANGED <<poolVars, back, ok, syn_flag, MAX_CONNECT_NUM, resized, tables, mine,
                 failedUpdate, limits, ONLINE_NUM, sock, watched>>

SetSynPar(r) ==
  /\ At(r, "setSynPar")
  /\ syn_flag' = 1
  /\ Go(r, "waitPar")
  /\ UNCHANGED <<poolVars, callVars, MAX_CONNECT_NUM, maxConNum, resized, tables, mine,
                 failedUpdate, limits, reloads, ONLINE_NUM,
                 TRADE_STAT, sock, watched>>

(* getEposPar: the limits take the values of the file, or 0 when the key or *)
(* the file is missing.  The update returns at once when a later key is     *)
(* missing.                                                                 *)
GetEposPar(r) ==
  /\ At(r, "getEposPar")
  /\ MAX_CONNECT_NUM' \in ConnSizes \cup {0}
  /\ MAX_ONLINE_NUM' \in OnlineLimits \cup {0}
  /\ \/ Go(r, "resize") /\ UNCHANGED <<maxConNum, failedUpdate>>
     \/ /\ maxConNum' = [maxConNum EXCEPT ![r] = 0]
        /\ Go(r, "idle") /\ failedUpdate' = TRUE
  /\ resized' = (resized \/ MAX_CONNECT_NUM' # MAX_CONNECT_NUM)
  /\ lowered' = (ONLINE_NUM > MAX_ONLINE_NUM' + 1)
  /\ UNCHANGED <<poolVars, callVars, syn_flag, tables, mine, reloads, ONLINE_NUM,
                 TRADE_STAT, sock, watched>>

(* New connections are opened, those beyond a lower limit are closed.       *)
Resize(r) ==
  /\ At(r, "resize")
  /\ \E bad \in SUBSET {c \in Conns : maxConNum[r] <= c /\ c < MAX_CONNECT_NUM} :
       /\ connStat' = [c \in Conns |-> IF c \in bad THEN 2 ELSE connStat[c]]
       /\ unguarded' = unguarded \cup {c \in bad : Users(c) # {}}
  /\ maxConNum' = [maxConNum EXCEPT ![r] = 0]
  /\ Go(r, "resetSynPar")
  /\ UNCHANGED <<threadID, lock, index, tries, callVars, syn_flag, MAX_CONNECT_NUM, resized,
                 tables, mine, failedUpdate, limits, reloads, ONLINE_NUM,
                 TRADE_STAT, sock, watched>>

ResetSynPar_Kept(r) ==
  /\ At(r, "resetSynPar")
  /\ Go(r, "toggle")
  /\ failedUpdate' = FALSE
  /\ UNCHANGED <<poolVars, callVars, syn_flag, MAX_CONNECT_NUM, maxConNum, resized,
                 tables, mine, limits, reloads, ONLINE_NUM, TRADE_STAT, sock, watched>>

ResetSynPar(r) ==
  /\ At(r, "resetSynPar")
  /\ syn_flag' = 0 /\ failedUpdate' = FALSE
  /\ Go(r, "toggle")
  /\ UNCHANGED <<poolVars, callVars, MAX_CONNECT_NUM, maxConNum, resized, tables, mine,
                 limits, reloads, ONLINE_NUM, TRADE_STAT, sock, watched>>

(* The second toggle of TRADE_STAT, whatever the sessions made of it, or    *)
(* the operator's button.                                                   *)
OnChangeStat(r) ==
  /\ pc[r] \in {"toggle", "idle"}
  /\ TRADE_STAT' = 1 - TRADE_STAT
  /\ Go(r, "idle")
  /\ UNCHANGED <<poolVars, callVars, reloadVars, ONLINE_NUM, sock, watched>>

Refresher(r) ==
  \/ OnFlashDB(r) \/ SetSyn(r) \/ WaitForidlesse(r) \/ GetTable(r) \/ DatabaseCall(r)
  \/ Loaded(r) \/ ResetSyn(r)
  \/ OnUpdatePar(r) \/ SetSynPar(r) \/ GetEposPar(r) \/ Resize(r) \/ ResetSynPar(r)
  \/ OnChangeStat(r)

-----------------------------------------------------------------------------
Next ==
  \/ \E s \in Sessions : Session(s)
  \/ \E c \in Conns : Expire(c)
  \/ FreeExpired
  \/ \E r \in Refreshers : Refresher(r)

Spec == Init /\ [][Next]_vars

(* Windows runs every thread; the terminals' menus time out, so a session   *)
(* that is in a menu goes on or hangs up.  A statement of a session need    *)
(* not end: get_dayAmt waits for the host without a timeout.  The watchdog  *)
(* finds it then.                                                           *)
FairSpec ==
  /\ Spec
  /\ \A s \in Sessions : WF_vars(Session(s) /\ pc[s] \notin {"none", "use"})
  /\ \A r \in Refreshers : WF_vars(Refresher(r) /\ pc[r] # "idle")
  /\ WF_vars(\E c \in Conns : Expire(c)) /\ WF_vars(FreeExpired)

-----------------------------------------------------------------------------
(* Properties.                                                              *)

SessionPlaces == {"none", "created", "getAgreeFlag", "getEncryptType", "setEncryptType",
                  "getEposTerm", "getDBtime", "setTradeStat", "testTerm", "menu", "reading",
                  "turn", "hangUp", "ending"}
RefresherPlaces == {"idle", "setSyn", "wait", "getTable", "loaded", "resetSyn", "setSynPar",
                    "waitPar", "getEposPar", "resize", "resetSynPar", "toggle"}
CallPlaces == {"getConnStat", "scan", "reconnect", "got", "none found", "use"}
Returns == {"getEncryptType", "setEncryptType", "getEposTerm", "getDBtime", "setTradeStat",
            "menu", "loaded"}

(* The variables keep their types; in particular no thread's index leaves   *)
(* the array of connections.                                                *)
TypeOK ==
  /\ ONLINE_NUM \in Nat /\ TRADE_STAT \in {0, 1} /\ syn_flag \in {0, 1}
  /\ MAX_CONNECT_NUM \in ConnSizes \cup {0}
  /\ connStat \in [Conns -> {0, 1, 2}]
  /\ threadID \in [Conns -> Threads \cup {NoThread}]
  /\ lock \in Threads \cup {Nobody}
  /\ pc \in [Threads -> SessionPlaces \cup RefresherPlaces \cup CallPlaces]
  /\ \A s \in Sessions : pc[s] \in SessionPlaces \cup CallPlaces
  /\ \A r \in Refreshers : pc[r] \in RefresherPlaces \cup CallPlaces
  /\ index \in [Threads -> Conns] /\ tries \in [Threads -> 0 .. ConnTries - 1]
  /\ back \in [Threads -> Returns]
  /\ ok \in [Threads -> BOOLEAN]
  /\ sock \in [Sessions -> {"open", "closed"}]
  /\ tables \in [Refreshers -> 0 .. NumTables]
  /\ mine \in [Refreshers -> BOOLEAN] /\ maxConNum \in [Refreshers -> ConnSizes \cup {0}]
  /\ watched \subseteq Conns
  /\ unguarded \subseteq Conns
  /\ failedUpdate \in BOOLEAN /\ resized \in BOOLEAN /\ reloads \in Nat
  /\ MAX_ONLINE_NUM \in OnlineLimits \cup {0} /\ lowered \in BOOLEAN

Counted == {s \in Sessions : pc[s] \notin {"none", "created"}}

(* ONLINE_NUM is the number of sessions that run, although they are counted *)
(* by themselves and refused by another thread, and at most one above the   *)
(* limit, except after an update of the parameters lowered the limit below  *)
(* them; then their number has to come within it first.                     *)
OnlineCount ==
  /\ ONLINE_NUM = Cardinality(Counted)
  /\ ONLINE_NUM > MAX_ONLINE_NUM + 1 => lowered

(* getConnStat never gives one connection to two threads: two threads share *)
(* one only after the end of a session, the watchdog or an update freed it  *)
(* under the thread that used it.                                           *)
SharedOnlyWhenFreed ==
  \A c \in Conns : c \in unguarded \/ Cardinality(Users(c)) <= 1

(* No connection is lost: one that is marked as in use is used by a thread, *)
(* or was left by a session that threw and has yet to clean up, as long as  *)
(* the pool keeps its size.                                                 *)
MarkedIsUsed ==
  \A c \in Conns : connStat[c] = 1 /\ ~resized =>
    \/ Users(c) # {}
    \/ \E s \in Sessions : /\ pc[s] = "hangUp" \/ (pc[s] = "ending" /\ index[s] <= c)
                           /\ threadID[c] = s

(* When nobody reloads, the tables are locked only by a failed update.      *)
LockedOnlyByFailure ==
  (\A r \in Refreshers : pc[r] = "idle") /\ syn_flag = 1 => failedUpdate

(* No thread but r is about to take a connection; one may hang with its own. *)
Quiet(r) == \A t \in Threads \ {r} : pc[t] \notin CallPlaces \ {"use"}

(* Sessions take connections without looking at syn_flag and can keep       *)
(* waitForidlesse waiting for as long as they go on, and so can the other   *)
(* refresher with one reload after the other.  Once they leave the pool     *)
(* alone, every reload and every update ends, whatever the database and a   *)
(* session that hangs with its connection do, if the pool keeps its size.   *)
ReloadEnds ==
  \A r \in Refreshers :
    <>[]Quiet(r) => (pc[r] # "idle" ~> (pc[r] = "idle" \/ resized))
=============================================================================
