# Verification of the ibox terminal

This directory holds TLA+ models of the programs in this repository, the TLC
configurations that check them on small instances, and TLAPS proofs for every
value of the constants. `PROJECT.json` lists the runs, their mutants, the map
from definitions to source lines, the findings, the hazards and the theorems.

Run a configuration with `tlc -workers 2 -config MCLocker.cfg MCLocker`, and
check a proof module with `tlapm PollWorkerProofs.tla`.

## 1. Inventory

The repository holds two programs and five small language examples.

**IBOX, the parcel locker terminal (`src/ssmapp自营`).** An MFC program. A Flash
movie is the user interface; it sends commands to C++ threads and shows their
replies.

| Part | State | Operations | Interacts through |
|---|---|---|---|
| `CQueue` (Queue.cpp) | linked list, two locks, two counters | `AddTail`, `GetHead`, `IsEmpty` | three instances: to Flash, from Flash, log |
| Flash link (ssmAppDlg.cpp, `TRSHOW`) | message serial, `g_FlashSerialDone` | number, queue, send, resend, take the answer | `g_QueueToFlash`; the `ResponseOK` command |
| Command thread (`MessageFromFlash`, `ExecFunc`) | `m_iState`, `m_iWorkMode`, current box, bar code, pick-up code | some sixty `ExecFunc_*` commands | takes `g_QueueFromFlash`, replies with `TRSHOW` |
| Polling workers | a running and a cancel flag each | bar code, ID card, IC card, door closing, open-door check | flags shared with the command thread, unlocked |
| Boxes (`CBox`, Box.h) | per box: size, package, overdue, hidden, sensor, failure counts, status | setters, `UpdateStatus`, `GetClassifyBoxID` | command thread and monitor, unlocked |
| Tables (MySQL) | Package, pickuphistory, recycle, postman, TransQueue | save, load, move, delete | one connection shared by all threads |
| Host transactions | `m_iSerial`, `m_tranCode`, `m_barCode[0]` | `Pack`, `Transaction`, `SaveResponse`, the delayed queue | TCP to the host; members shared by two threads |
| `NetworkMonitor` thread | timers | heartbeat, status reports, `TransactionQueue`, off-line download, reboot | acts while `m_iState` is idle |

**CTSI, a payment-terminal server (`src/CTSI`).**

| Part | State | Operations | Interacts through |
|---|---|---|---|
| Listener, `SessionThread` (TissonCTSIDLG.cpp) | `ONLINE_NUM`, sockets | accept, count, serve the menu, hang up, clean up | one thread per terminal |
| Connection pool (`CDB::getConnStat`) | per connection: status, thread, time; `MAX_CONNECT_NUM` | take, reopen, give back | taken under a lock, given back and freed without it |
| `chkAdoConn` | | frees connections in use for an hour | the pool |
| `OnFlashDB`, `OnUpdatePar` and their `My_` twins | `syn_flag`, `TRADE_STAT`, vectors filled from tables | lock, wait until the pool is idle, reload, resize | dialog thread and refresh port |
| Top-up of a bus card (YCTYPTrade.cpp, Trade.cpp) | the row of `YCTYP_TXN`, `yct_data` | debit, insert, load, submit, mark, confirm or reverse, mark | payment host, card reader, platform of the card issuer, next log-in |
| Other request handlers (Trade.cpp and its siblings, over 75,000 lines) | locals | one request, one remote call, one answer | payment host, SOAP services |

**What is hard here.** Flags and members that several threads read and write
without a lock; waits for devices and for the host between reading and using
such a member; answers that come late or twice; a table that survives a restart
while the number that orders it does not; database statements that fail half-way
through an operation whose physical half, an open door or a loaded card, cannot
be undone; a session that dies between two of the parties of a payment.
`PROJECT.json` lists each of these at its line.

**What makes each part correct.**

- `CQueue`: no use of freed memory, FIFO order, no accepted message lost.
- Flash link: what counts as confirmed was handled; no message blocks the link.
- Workers: one thread per device; a cancel ends it; no door opens while the
  closing thread still watches the previous one.
- Boxes and tables: one parcel per box, one box per code; a deposit is never
  offered an occupied box; a record leaves only with its parcel, into a history.
- Host transactions: nothing is lost or overtaken; resending ends.
- Postmen: a parcel is overdue only if the host said so of this parcel; a postman
  is offered his own overdue boxes; a box leaves the lists with its parcel.
- Session server: the session limit holds; one user per connection; no connection
  is lost; a reload ends and unlocks the tables.
- Top-up: no customer gets both the amount and the money back, and none is
  confirmed without the amount; every unfinished row is settled.

## 2. Modules

| Module | Models | Extended by |
|---|---|---|
| `FifoQueue` | abstract specification: a FIFO queue | |
| `MessageQueue` | `CQueue`, one action per shared access | `MCMessageQueue`, `MessageQueueProofs` |
| `FlashLink` | `TRSHOW`, `MessageToFlash`, `OnCompleteTran`, `ResponseOK` | `MCFlashLink`, `FlashLinkProofs` |
| `PollWorker` | the five polling threads and the commands that start and stop them | `MCPollWorker`, `PollWorkerProofs` |
| `Locker` | boxes, Package table, deposit, pick-up, recycling, administration, the monitor's refresh | `MCLocker`, `LockerProofs` |
| `TransQueue` | `Pack`, `Transaction`, `SaveResponse`, the TransQueue table, status reports, restarts | `MCTransQueue`, `TransQueueProofs` |
| `Postmen` | log-ins by password and telephone, the postman table, overdue lists and flags, the nightly download | `MCPostmen`, `PostmenProofs` |
| `SessionServer` | listener, sessions, connection pool, watchdog, reload and update of the parameters | `MCSessionServer`, `SessionServerProofs` |
| `Purchase` | abstract specification: charge, hand over, keep or pay back | |
| `YctTopUp` | `YCT_NormalTrade`, `NotFinishChk`, the host's confirmation and reversal, the row of `YCTYP_TXN` | `MCYctTopUp`, `YctTopUpProofs` |

**MessageQueue.** Nodes are addresses that are never reused, so that a freed
node is recognised. `AddTail` of a producer and `GetHead` of the consumer are
split at every shared access: the two counter reads of the length test, the
lock, the count, the test of `pHead`, the reset of the counters, the link, the
unlock. The counters are taken modulo `Modulus`, since they are unsigned.
`MessageQueue` implements `FifoQueue` with the linked and untaken messages as
the abstract queue.

**FlashLink.** The queue is a sequence here, which `MessageQueue` justifies.
`AddTail` may refuse, because its callers ignore the result; that goes for the
message that closes the application too, which the sender hands on without asking
for an answer (`CloseApp`). Flash is external:
it handles the invocations it gets in order and answers each one, at any time.
`CallFunction` may throw before or after Flash got the message, or hang.
`GetFlashSerial` increments and reads in two steps; the history variable `twins`
records that two messages got one number.

**PollWorker.** A worker tests its running flag, sets it, loops and clears it,
each a step of its own, at any distance from the command that created it. So two
starts in a row can both pass the test, and `OpenDoorState` can find a flag clear
that a created thread is about to set. The code does not exclude either. The
history variable `raced` holds the kinds of which a thread passed its test while
another stood between its test and its flag, and `missed` the door-closing threads
that were created but had not set their flag when `OpenDoorState` looked; the
properties say that these are the only ways to a double run and to a thread that
watches the previous door.

**Locker.** One action per command handler. Devices, sensors and statements
answer nondeterministically; lock faults and failing updates have the budget
`MaxFaults`. `UpdateDataToDB`, which follows the opening of a door for a take,
runs statement by statement: the SELECT of the box's rows (`SelectRows`), and for
each row the INSERT into a history, the DELETE by mail number and the Commit or
Rollback (`InsertRow`, `DeletePackage`, `CommitRow`), then the box is hidden if one
of them failed (`EndUpdate`). The monitor's `TransactionQueue` commits its own
statements on the same connection, and with them whatever the command thread has
done so far (`MonitorCommits`, remembered in `foreign`); `Restart`, at any step,
undoes what was not committed and resets the members, the flags and the screen.
The schema is not in the repository; the tables are taken to be of a transactional
engine, as the code's use of Commit and Rollback supposes. `UpdateBoxStatus` is one step in the
command thread, and four in the
monitor, which interleaves with the handlers; it is skipped while
`m_iIsUpdateingBoxStatus` is set, as in the code. The Flash movie is the variable
`screen`: a deposit is log-in, bar code, door by size, close, confirm; a pick-up
is code, door; it refreshes the cabinet status before it asks for a door by size,
and may return to the idle screen between any two commands. Only what the last
`UpdateDataToDB` put into a history table is kept (`archived`), since nothing reads
them; the history variable `entrusted` remembers the parcels that were deposited
and not entered in one since. The
overdue lists are a set here; a box whose digits end a longer number in the list
may damage it, and then any list may result (`Postmen` has the details).

**TransQueue.** Two threads share `m_tranCode`, `m_barCode[0]` and `m_iSerial`;
setting, packing, sending, saving the answer and inserting are separate steps, and
`FreshSerialNO` reads and writes in two. `Transaction` queues a failed transaction
only if it was called with `bInsertQueueWhileFail`; `ConfirmDepositState` calls it
without the flag when `m_iIsPostFailOpenDoor` is set, and then only tells the screen
(`DepositFails`, remembered in `toldFailed`). The SQL schema is not in the repository:
rows with equal serial numbers are allowed, as the statements in the code
neither assume nor ensure otherwise. The retry limit is left out, because every
caller passes `RETRY_ENDLESS`. `Restart` resets the members as the constructor does
and keeps the tables. Two history variables record what the code does not
prevent: `clash`, a row got the serial number of another one, and `mixed`, one
thread set the shared members while the other relied on them.

**Postmen.** The host's list of overdue parcels is kept three times, as flags of
`CBox`, as a text of box numbers in the postman's row and as `Flag='2'` of the
parcels; one action per way of logging in and per outcome of the queries to the
host, one per parcel coming or going, and the monitor's download, which asks for
one stored postman after the other. The text is a sequence of numbers, and
`Removed` says what `Replace("b,", "")` does to it: a number that ends with the
digits of `b` loses them together with its comma and runs into the next number.
`Removed` and `Expired` are recursive functions over the list, so that they can be
reasoned about; numbers have up to `MaxDigits` digits. A row of the
TransQueue table holds the name of a box, and `SaveTimeoutPackageToDB` looks for its number there; `BoxName` says what
number each name reads as.
`disturbed` records that this happened, or that an UPDATE failed; `unsure` that a
log-in by telephone got no list, in which case the code leaves the flags alone.

**SessionServer.** A database call is a subroutine of any thread: lock, scan,
take, record, use, give back. A new session makes five of them: `getAgreeFlag`,
`getEncryptType`, `setEncryptType` and `getDBtime` do not look at `syn_flag`, and
`getEposTerm` does. `getEposTerm` keeps its connection while it asks the host for the
daily limit, which has no timeout, so a statement of a session need not end. Freeing
(`Cleanup`, `FreeExpired`) takes no lock, as
in the code, and `unguarded` records which connections were freed under a user.
`getEposPar` rewrites `MAX_CONNECT_NUM` and `MAX_ONLINE_NUM`, with 0 when a key or the
file is missing; `resized` and `lowered` record what that does to the pool and to the
sessions that run.
The tables are abstracted to how many of them a reload has loaded. The branch of
`OnUpdatePar` that reopens all connections is left out: it is taken only when
`DB_CON_STR` is the empty string, with which the program does not start.

**YctTopUp.** One row per top-up, and per session its place and its copy of the
row. The parties are what they remember: `account` and `told` (payment host),
`loaded` (card), `platform`. A session may die at every step (`Crash`), and a
terminal may have two sessions at work. The model is the version 3 protocol
(`YCT_VER` 3): there `ST_NormalEnqPay` returns 0, -1 or 1 only, so that the branches
of `YCT_NormalTrade` for 10, 11 and other results are unreachable and left out. A
top-up is of a CPU or an M1 card, debited or the refund of a deposit. The platform
answers with a trade type that need not be a top-up: for 0x02, 0x22, 0x30, 0x31,
0x40 and 0x60 `ST_NormalEnqPay` returns 0 without a load (`OtherTradeType`), and 0x21,
or 0x60 with a transfer, moves the balance of the old purse by a load of nothing
(`TransferBalance`); `unserved` remembers these top-ups. The module
implements `Purchase` with account, card and confirmations as the abstract state.

## 3. Runs

| Run | Bounds | Checks |
|---|---|---|
| `queue` | 2 producers, 4 calls, limit 1, counters reset beyond 2 | `TypeOK`, `NoBadPointer`, `LengthTestSound`, `BoundedOvershoot`, `FifoSpec`, `Delivered` |
| `flash` | 2 threads, 3 messages, 2 sendings, 2 looks | `TypeOK`, `ConfirmedWasHandled`, `EveryMessageEnds` |
| `poll` | bar code and closing thread, 2 starts each, 1 opening, 2 waits | `TypeOK`, `NoDoubleRun`, `NoWorkerWhileOpening`, `CancelStops` |
| `locker` | 2 boxes, 2 parcels, 2 codes, 1 fault, restarts | `TypeOK`, `PackageKeys`, `DepositFindsFreeBox`, `RowsLeaveByTaking` |
| `locker_faults` | 1 box, 2 parcels, 2 faults, failing queries, monitor, restarts | `NothingForgotten` |
| `locker_occupied` | 2 boxes, 2 parcels, monitor | violates `DepositFindsFreeBox` |
| `trans` | 2 transactions, 1 report, 1 fault, 1 restart, serials up to 3 | `TypeOK`, `NothingLost`, `FailsOnceMore`, `MarkedWasAccepted`, `QueueDrains` |
| `postmen` | 2 postmen, 2 parcels, boxes 1 and 11 of 11 whose names are crossed, lists of up to two parcels | `TypeOK`, `OverdueWasReported`, `OwnOverdueOnly`, `RemovalExact` |
| `session` | 2 sessions, 1 refresher, 1 connection, limits 0 and 1, 1 reload or update | `TypeOK`, `OnlineCount`, `SharedOnlyWhenFreed`, `MarkedIsUsed` |
| `reload` | 1 session, 1 refresher, 1 connection, any number of calls and reloads | `LockedOnlyByFailure`, `ReloadEnds` |
| `yct` | 1 top-up, 2 sessions of which 1 may block, 3 tries | `TypeOK`, `RefundedNotLoaded`, `ConfirmedWasLoaded`, `FinalStatusTrue`, `SubmittedOrListed`, `IsPurchase`, `UnfinishedIsSettled` |
| `yct_resubmit` | 1 top-up, 1 session | violates `SubmittedAgain` |

The largest are `session` (4.4 million distinct states), `locker_faults` (3.7 million),
`trans` (1.6 million), `reload` (686,000), `locker` (531,000), `poll` (499,000),
`postmen` (354,000) and `flash` (327,000).

Why the bounds suffice: the queue's cases are empty, one node, short and long
lists and a counter reset, all within four calls; a stale answer in the Flash
link needs two messages and two sendings; a double run, a refused start and a start
after a cancel need two starts; two boxes and two parcels let every key of the
Package table collide; two parcels that share a box, after a SELECT failed, give
`UpdateDataToDB` two rows, and two faults let one of them fail in two ways or each
in one; order and identity in TransQueue need two rows; boxes 1
and 11 are the smallest numbers of which one ends with the digits of the other;
with two sessions and limits of 0 and 1 a session is refused, both run, the limit is
lowered below them, and one waits for the connection of the other; one session is
enough to keep a reload waiting, and the theorems have any number of refreshers; two sessions meet at
every pair of places of one top-up, and top-ups share nothing but the choice of
the row that is fetched. `ConnTries` is 1 instead of 5: more tries repeat the scan.

Reductions. In `queue` the action constraint `Numbered` gives each call its own
number as message; `CQueue` never looks at a message, so distinct messages
subsume all others. In `postmen` the state constraint `Undisturbed` stops at states
in which the lists are disturbed, of which the properties say nothing. Symmetry:
mails and codes in `Locker`, postmen and mails in `Postmen`, sessions in `session`;
runs that check liveness use none. Every property has a mutant in
`PROJECT.json`, a plausible mistake in the mapped code, under which its run fails.

**Fairness.** Weak fairness of each thread's own steps: the operating system
schedules it, and none waits for a lock that another keeps. Nothing is assumed of
Flash. `QueueDrains` assumes on its left side that the host stays reachable and
the terminal idle. `EveryMessageEnds` excuses a `CallFunction` that hangs, since it
has no timeout. In `SessionServer` a session in a menu goes on or hangs up, because
the menus time out, and the watchdog comes back every hour; a statement of a session
need not end. `ReloadEnds` is stated for a refresher `r` from some time on `Quiet(r)`:
no other thread is then about to take a connection, though one may hang with its own.
Without it the sessions' calls, which do not look at the lock flag, or the other
refresher's can keep `waitForidlesse` waiting for ever. In `YctTopUp` only the sessions
of `LiveSessions` are fair, the
others may block for ever; `UnfinishedIsSettled` assumes on its left side that
crashes, failing readers and failing statements end, and nothing of the host's
answers.

**Findings.** (1) While the monitor stands in `UpdateBoxStatus`, the refreshes before
two deposits in a row are skipped; the statuses are those from before the first one,
and the second is offered its box, which a comment calls impossible
(`locker_occupied`). (2) A result
that could not be submitted because the platform was unreachable has left no
message in its row; the next check gives it status 7 and `yct_ack` 1, and it is
never submitted again, although a comment says so (`yct_resubmit`).

**Limits that the properties state.** Some properties hold up to a case the code
does not exclude, and name it: `NoDoubleRun` except for kinds that `raced`, and
`NoWorkerWhileOpening` except for the threads it `missed`; `ConfirmedWasHandled` until
two messages have one number; `NothingForgotten` claims both directions until the
monitor committed half a transaction, and one always; `NothingLost` until two rows
have one serial number, and except for what the screen was told under
`m_iIsPostFailOpenDoor`; `MarkedWasAccepted` until the members are mixed;
`OverdueWasReported` and `RemovalExact` until an UPDATE fails or the substring of a
longer number is removed; `OwnOverdueOnly` except after a log-in by telephone
without a list; `OnlineCount` lets an update lower the limit below the sessions that
run; `SharedOnlyWhenFreed` except for connections freed under their
user; `MarkedIsUsed` while the pool keeps its size; `LockedOnlyByFailure` except after
a failed update; `ConfirmedWasLoaded` except for doubtful loads and for the trade types
for which the code reports success without loading the amount. A hazard that a
property excepts is listed in `PROJECT.json` without that property, and its note says
what the property delimits.

The code also shows
behaviours the models contain and no property claims away: `AddTail` refuses a
message in a short queue when the consumer runs between its two counter reads;
a row that the host never answers blocks the rows behind it;
with `m_iIsPostFailOpenDoor` a failed deposit keeps its row and is neither queued nor
sent again, although the comment at TranProDlg.cpp:2718 says that all are queued;
after a restart the serial numbers begin again, and the TransQueue table is not
FIFO; the download never deletes a refused account; a thread that finds the
session limit passed leaves its socket open; a session reads tables that a reload
is refilling, and overwrites an operator's pause; the answer to a debit is lost
and no row is written; a load that failed before a crash ends as status 7 and is
not given back.

## 4. Proofs

Every invariant and every action property that a run checks is also a theorem,
for every value of the constants that the modules' named assumptions allow
(`QueueAssumption`, `FreeAssumption`, `FlashAssumption`, `WorkerAssumption`,
`LockerAssumption`, `TransAssumption`, `PostmenAssumption`, `AnswersAssumption`,
`ServerAssumption`, `TopUpAssumption`, `NoRowAssumption`); so are the two
refinements. The assumptions
give types to the constants and keep the dummy values apart; those that say more
are named below. Each proof module defines `IInv`, proves it of the initial states
and of every step, one lemma per action or group of actions, and derives the
theorems. Each invariant was checked by TLC on a small instance before it was proved.

**`MessageQueueProofs`**: `TypeOK`, `NoBadPointer`, `LengthTestSound`,
`BoundedOvershoot` and the refinement of `FifoQueue`, for any finite set of
producers, any limits and any number of calls below the modulus. The invariant
says who holds which lock at which place (`LockInv`), how the counters relate to
the list and to the calls under way (`CountInv`), that the linked nodes form the
list from `pHead` to `pTail` (`ShapeInv`), what each thread knows at its place
(`PlaceInv`), that nodes under construction are fresh (`FreshInv`), and how the
history relates to the contents (`HistoryInv`). It is needed because pointer safety
rests on the counters: `GetHead` leaves out the tail lock when they say the list is
long. `BoundedOvershoot` needs an argument of its own, since a producer may pass
the length test with counters read long ago. `MayPass(v)` is the set of producers
that have passed it, that have read `m_iRecvNum` at `v` or less, or that hold an
`m_iProcessNum` from before a reset. `OvershootInv` says that
`m_iRecvNum + |MayPass(v)|` stays at most `v + |Producers|` for every `v` from
`m_iProcessNum + MAX_QUEUE_SIZE - 1` on. Counting a message moves one from the set
into the counter; reading `m_iRecvNum` joins the set only from that number on;
`GetHead` only narrows the range of `v`; and a reset leaves one message counted,
whose producer is not in the set. `TailLockExcludes` reads off `LockInv` what
`m_QueueTailLock` guarantees: one thread at a time inside `AddTail`'s section, and
none while `GetHead` of a short queue holds the lock.

**`PollWorkerProofs`**: `TypeOK`, `NoDoubleRun` and
`NoWorkerWhileOpening`, for any scheduling of new threads. The invariant adds to the
properties: of a kind without a race at most one thread is past its test
(`InsideAlone`), and a polling thread owns the flag (`PollingFlagged`), so that nobody
else clears it; while `OpenDoorState` moves on, every door-closing thread that has
neither ended nor been refused is in `missed` (`OpeningSeesAll`); instances beyond the
started ones have not begun (`NotBegun`); and the bounded counters have room while the
handler is inside (`RoomLeft`).

**`FlashLinkProofs`**: `TypeOK` and `ConfirmedWasHandled`. A confirmation compares
numbers only, and an answer may arrive long after its message was given up. So the
invariant speaks of every number under way, in the queue, at the sender, inside
Flash or in an answer: live messages have different numbers (`NumberInv`), and
whatever carries the number of an answer was handled (`AnswerInv`), unless
`GetFlashSerial` gave out a number twice (`twins`).
`CallsAccountedFor` is the safety half of `EveryMessageEnds` and holds even then:
every call of `TRSHOW` and `CLOSEAPP` is in exactly one place (being built, in the
queue, in `OnCompleteTran`'s hand, confirmed, given up or refused), and Flash sees
no message before it was taken from the queue and none that `AddTail` refused. For
this the messages of the threads and of the queue are different (`AccountInv`).

**`LockerProofs`**: `TypeOK` and `NothingForgotten` without a hypothesis;
`PackageKeys` and `RowsLeaveByTaking` when no SELECT fails (`~QueryMayFail`);
`DepositFindsFreeBox` when in addition no monitor runs. The run `locker_occupied`
shows that this last hypothesis cannot be dropped. The first one excludes that the
check of a bar code or of a pick-up code is skipped because its query failed, which
the code takes for "not found". The invariant remembers
what an earlier screen has established: a scanned parcel is not in the table until
its deposit is confirmed, and the mails that `UpdateDataToDB` has still to delete are
of the opened box (`KeyInv`), which makes its DELETE by mail number hit no other; the
box chosen by its status has no row (`FreeInv`). `NothingForgotten` rests on the
transaction: between its statements the thread knows which mail it is at and that the
history it writes is that of its mode (`MoveInv`), and every committed combination of
them, whole, undone by a restart or half kept by the monitor, leaves the records true
(`LedgerStep`).

**`TransQueueProofs`**: `TypeOK`, `NothingLost`, `MarkedWasAccepted` and
`FailsOnceMore`, with and without `m_iIsPostFailOpenDoor`. The row the monitor works on is in the table and, without a clash,
alone with its serial number (`LossInv`); the shared members still say what the
thread that relies on them has sent (`MembersInv`); and a transaction that may still
be sent has been refused less often than the bound (`RefusalInv`).

**`PostmenProofs`**: `TypeOK`, `OverdueWasReported`, `OwnOverdueOnly` and
`RemovalExact`, for cabinets of up to 999 boxes. The lists have any length, and what
`Removed`, `Expired` and the reference `Without` compute is shown by induction on the
length. The library's induction theorems take an operator as parameter, which the
installed provers cannot instantiate; `SetInduction` says the same of a set of
numbers and follows from the existence of a least element (`WFMin`). `RemovedFacts`
says that the text replacement yields a list of numbers always, and the list without
the box when no other number ends with its digits. The
invariant says of every listed, marked or flagged box where it comes from
(`ListedReported`, `FlaggedReported`), also for lists of postmen without a row.

**`SessionServerProofs`**: `TypeOK`, `OnlineCount`, `SharedOnlyWhenFreed`,
`MarkedIsUsed` and `LockedOnlyByFailure`, for any finite set of sessions; the pool has
a largest size. A guarded connection is marked while it has a user, and the holder of
the lock is the thread that scans (`ShareInv`, `LockInv`); a marked connection has a
thread that will free it, and the places say where its scan is (`MarkInv`); while the
tables are locked some thread will unlock them or the last update failed (`SynInv`).
The limits are those of any configuration file and change with every update.
`OnlineCount` is a cardinality and goes by `FiniteSetTheorems`. `ScanIsExclusive`
states mutual exclusion in `getConnStat`.

**`YctTopUpProofs`**: `TypeOK`, `RefundedNotLoaded`, `ConfirmedWasLoaded`,
`FinalStatusTrue`, `SubmittedOrListed` and the refinement of `Purchase`, for any
sessions and top-ups. What remains of a loading that failed and of one that
succeeded, in the row, in a session or at the host, never exists together
(`OneOutcome`), although the session that saw the card may die and others go by the
row alone. For that, one session at most has debited a top-up and not finished
(`OneOwner`), nothing is there of a top-up nobody began (`Traced`), and final states
and acknowledgements are true in the sessions' copies as well (`StatusTrue`,
`AckTrue`). `SettlementIsFinal` is an action property that follows from the
refinement: no step touches the money of a top-up that was loaded or confirmed, or
loads or confirms one that was reversed. The same cannot be said of the row: TLC
shows that a session with a stale copy can write another status over "confirmed",
so the theorems about rows say that what a row states is true, not that it stays.

Only model-checked: the liveness properties `Delivered`, `EveryMessageEnds`,
`CancelStops`, `QueueDrains`, `ReloadEnds` and `UnfinishedIsSettled` (the prover does
not handle fairness and ENABLED).

## 5. Not modelled

- Device drivers, the Flash movie, the host, the platform and MySQL are external.
  All threads of the terminal share one MySQL connection without a lock; what the
  client library does then is undefined, and the models have statements that
  succeed or fail.
- Message texts, encryption, XML, logging, configuration and display queries
  hold no state that the properties tell apart.
- Heartbeat to Flash, timed reboot, the codes sent to a postman's telephone.
- CTSI: the handlers other than the bus card top-up. They translate a request,
  make one remote call and answer; nothing survives the call, and a model of one
  would restate its format. The cancellation of a load and the transfer of a
  balance between cards (YCT3_BalanceTransfer.cpp) follow the scheme of the top-up
  and are the next candidates.
- Vendored and generated code (gSOAP, TinyXML, OpenSSL headers, ciphers, ADO and
  ActiveX wrappers, camera SDK), which is most of the repository's lines, and the
  language examples.

The map therefore covers a small share of the repository's lines: what is mapped
is the code with shared state, several steps or several actors.

## 6. Plan

1. *Done*: the modules of section 2, and proofs of every invariant, action property
   and refinement that the runs check.
2. *Composition*: `Locker` with `TransQueue`, so that the host's view of a box follows
   the terminal's; `FlashLink` over `MessageQueue`.
3. *CTSI*: the cancellation of a load and the transfer of a balance between cards.
