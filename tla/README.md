# MarkMeMultithreadedServer: a verification project

TLA+ models of the server under `src/MarkMeMultithreadedServer/`, the TLC
runs that check them and the TLAPS proofs about them. Paths and line numbers
are those of the sources in that directory.

## 1. The system

The server keeps, per client address, an id, a password and the last
coordinates the client stored. A client opens a TCP connection, sends one
request as text, gets at most one reply, and the connection ends.

| request | effect | reply |
|---|---|---|
| `/init` | creates the row of the client's address if there is none and gives it a new password | `<id> <password>` |
| `/store <coordinates>` | stores the coordinates (in intention: finding 1) | none |
| `/get <id> <password>` | | coordinates, `err 1` (no such friend), `err 2` (nothing stored) |
| `/store_and_get <lat> <long> <id> <password>` | stores, then as `/get` | as `/get` |
| `/check <id> <password>` | | `ok` or `wrong` |

### Components

| component | state | operations | must be right |
|---|---|---|---|
| `Session` | socket, buffer, a connection to the database, a `SQLDatabase` | `start`, `receiveDataHandle`, and per command `initUser`, `storeCoordinates`, `getFriendCoordinates`, `checkFriendIdAndPassword`, `sendToUser` | one row per address; replies are true; a client changes its own row only |
| `Server` | acceptor, one accept outstanding | `startAccept`, `handleAccept` | always accepts again; each connection is started once |
| `SQLDatabase` | results and error code of the last query | `execute`, `callback` | results are those of the query one thinks |
| `SQLConnection`, `UniqueSQLConnection` | handle, file name, connected | `open`, `open(file)`, `close`, destructor, guard | a connected object has an open handle of its own; handles are closed |
| `main` | arguments | `setup_args`, `init_server_db`, `start`, restart loop | the settings are those given; the server comes back after an exception |
| `TaskManager` | threads, queue, mutex, condition variable, `stopped_` | constructor, destructor, `addTask`, `emplaceTask` | tasks run once; destruction ends |
| `SimpleLogger` | file name, mutex | `log`, `logToFile`, `setFileName`, `getFileName` | lines are whole, in the order of their times, in the right file |

All servers share one `io_service` and one port. `main` calls `start`, which
makes the servers and runs the `io_service` on the calling thread: every
handler of every session and server runs on that thread, to its end, before
the next. In spite of the program's name there is no second thread;
`TaskManager` is not used by the server, and `SimpleLogger`, made for threads, has
one caller. The sessions share the SQLite file,
which they open and close for each command. An exception that a handler lets
out leaves `io_service.run()` and `start()`, which destroys all servers and
sessions; `main` then starts again.

### What is hard

* Completions of different sessions are interleaved; correctness of
  check-then-insert in `initUser` rests on the single thread.
* A read may deliver part of a request (`Session.cpp:20`, 37).
* A peer may reset at any time; `remote_endpoint()` then throws
  (`Session.cpp:186`, 217) and everybody's session is lost.
* Statements and opens can fail; several results are not looked at
  (`Session.cpp:190`, 193, 194, `SQLConnection.hpp:37`, `main.cpp:131`).
* `SQLDatabase` keeps old results and old error codes (`SQLDatabase.cpp:25`, 30).
* The process can die between two statements; the file survives.
* A failed open leaves the address of a closed handle in `db_`
  (`SQLConnection.cpp:13-15`), and SQLite reuses addresses.
* Threads share a pool (`TaskManager`) and a logger (`SimpleLogger`), each
  under a mutex that some of its state is changed without, or that must cover
  several output operators.

The list, each hazard at its line and with the properties that watch it, is
`hazards` in `PROJECT.json`.

## 2. Modules

    SQLDatabase --- Users ---+
                             +--- Session --- Server --- MarkMe --- MarkMeService --- MCMarkMe
    Requests ----------------+                              |            |
                                                            |            +--- LocationService
                                                            |            |
                                                      MarkMeProofs --- MarkMeServiceProofs

    SQLConnection --- MCSQLConnection, SQLConnectionProofs
    SetupArgs ------- MCSetupArgs, SetupArgsProofs
    SimpleLogger ---- MCSimpleLogger, SimpleLoggerProofs
    TaskPool --- TaskManager --- MCTaskManager, TaskManagerProofs

(each module EXTENDS those to its left; MarkMeService INSTANCEs LocationService,
TaskManager INSTANCEs TaskPool; MarkMeServiceProofs EXTENDS MarkMeService and
MarkMeProofs.)

**Requests** - the protocol. A message is the sequence of its whitespace
separated tokens, as `std::istringstream` yields them; `Arg` is what `>>`
leaves in its target, empty after the end. `Segments(m)` is everything one
`async_read_some` can deliver of `m`: a prefix of its tokens, the last of
which may be cut (`Cut[t]`: the prefixes of `t` an instance considers). The
checks `CheckCoordinatesFormat` and `CheckFriendFormat` are tests of membership
in sets of tokens: the numbers, the digit strings, the alphanumeric strings.
A string of digits is turned into a row id by SQLite's affinity (`RowId`).

**SQLDatabase** - one call of `execute`: skipped on a closed connection (old
results and old error code stay), done, or failed, possibly after some rows
were delivered. `Queried` gives every object a SELECT can leave behind.

**Users** - the table, a sequence of rows indexed by id (AUTOINCREMENT, and
nothing deletes), and the statements the server runs on it.

**Session** - a record per connection (`phase`, `ip`, `alive`, `message`,
`connected`, `database`, `reply`; `sent` is what the client wrote, for the
properties). A handler is divided where a peer can reset or the process can
die, at each call into the socket and into SQLite:

| steps | code |
|---|---|
| `ReceiveDataHandle` | error test, parsing, dispatch: `Session.cpp:30-121` |
| `InitUser` `SelectUser` `InsertUser` `ReselectUser` `SetPassword` | `initUser`, 184-213 |
| `StoreCoordinates` `UpdateCoordinates` | `storeCoordinates`, 215-224, and what follows it in 91-104 |
| `OpenForFriend` `FindFriend` `FetchCoordinates` | `getFriendCoordinates`, `checkFriendIdAndPassword`, 226-281 |
| `SendToUser` | `sendToUser`, 173-182, and the end of the handler |
| `DataArrives` `ReadFails` `Reset` | the kernel and the peer |

**Server** - one record per `Server` object: its outstanding accept and the
session it completed with. `HandleAccept` is `handleAccept`, with `startAccept`.

**MarkMe** - the program: `main`'s states, `InitServerDb`, `Start`, `Throw` (an
exception unwinds `start()`), `Crash`, the next-state relation, fairness, the
properties, and the inductive invariant.

**LocationService** - what clients may expect while SQLite does not fail: a map
from addresses to accounts (id, password, coordinates) and requests that act on
it at single moments. `/init` is `Enroll`, if the address has no account, and
`Renew`; `/store_and_get` is `Store` and `Answer`; `/get` and `/check` are
`Answer`. A client may leave, and the server restart, at any moment; then what a
request has done so far stays, and nothing else.

**MarkMeService** - the refinement mapping. The account of an address is its
row (`Accounts`); a client has asked from `DataArrives` on, is `"stored"` when
a `/store_and_get` is past its UPDATE, `"answered"` when its reply is determined
and about to be sent, and `"away"` when its session is not in use. `Enroll` is
then line 193, `Renew` 204, `Store` 220, `Answer` the query that settles the
reply (line 231, 245 or 266); SELECTs of `/init` are stutters, and so is each
opening of the file. The reply of `/get` comes from two queries, and the service
gives it at the moment of the second: the friend that the first one found is
still one then, because no other handler runs in between.

**SQLConnection** - connection objects against handles. A handle is an address:
`opened` says which file each one is open on in SQLite, `conn` what each object
believes. An address that was closed can be given out again, to any object. An
open can fail with a handle, which is closed at once while `db_` keeps the
address, or without one. The actions are the constructors, `open()`,
`open(file)`, `close()`, the guard's two ends and the destructor, in any order
that C++ lifetimes allow, on every object.

**SetupArgs** - the loop of `setup_args`, one action per branch. An argument is
the sequence of the words between its `=` signs; `Greedy` is where the regular
expression of line 77 splits it; `Stoi` says what `std::stoi` makes of a word.
`Given` is what the help text writes, `Option` the part of it that the loop
recognises, `Bad` an argument it refuses; none of them refers to the loop.

**SimpleLogger** - threads that call the four operations. An output expression
is divided where another thread could come in if there were no mutex: the time
is read (`Stamp`), the head of the line is written, then its tail. The console
and each file are sequences of such pieces (`written`). `OpenFails` is the early
return of `logToFile`.

**TaskManager** - the thread pool. `at` says where each thread is, `mtx` who
holds the mutex, `stopped` what the workers see of `stopped_`; `owner` is the thread
that makes and destroys the pool, `submitted` a history. The steps of a worker are
`Lock` (48, and the return of `wait`), `Test` (38), `Block` (49: unlock and sleep in one
step), `Check` (51), `Pop` (55-56), `Unlock` (57), `Return` and `Throw` (58: an exception
is `std::terminate`). `Push` is a whole critical section of `addTask` or
`emplaceTask`, which differ only in how the function is copied; `NotifyOne` is the
call after it. Tasks may add tasks. The destructor is `Destroy`, `NotifyAll`, `Join`.
Line 67 writes `stopped_` in a data race with lines 38 and 51: `StopSeen` lets
the workers see it at any time after it was issued, also after `notify_all` has
found nobody asleep. The owner destroys the pool only when no call of another
thread is in it, as any owner must. Every thread that shares the mutex is in the
model, so a critical section that touches nothing but the queue is one step.

**TaskPool** - what a pool promises, without locks and sleep: tasks start in the
order in which they were added, at most one per thread; none after the pool was
closed; it ends after the running ones. `TaskManager` implements it with
`closed` = `stopped_` is seen and no thread is between line 51 and line 57.

In the modules of the server, actions that start or end a handler are guarded by `Idle`: the one
thread that runs `io_service` is in no handler. What the environment may do is
the constant `Faults`: `reset` (peers close or reset), `accept` (an accept
fails), `open` (`sqlite3_open` fails), `sql` (a statement fails), `crash`.
Operators named for a slip (`IdleManyThreads`, `IdsOfFriendAnyPassword`, ...)
are variants that the specification does not use: each is what a plausible bug
would make of the definition after it, and shows that a property notices.

### Abstractions

Passwords, hashes and numbers are values; the text of queries is the
substitution they are written with, and the characters `checkFriendFormat` and
`checkCoordinatesFormat` let through contain no quote. Each statement is
atomic (SQLite's promise). The number of rows is bounded by `MaxUsers`, after
which an INSERT fails as on a full disk; `Sessions` bounds the connections open
at one time (`AcceptCompletes` needs a free one), `Tasks` the calls of
`addTask`, `Handles` the handles of SQLite that are open at one time, `MaxCalls`
the calls of a thread to the logger and `MaxClock` its clock. There are no other
bounds in guards. The clock of the logger does not go back: `local_time` does,
at the end of summer time, and then stamps do too. Command lines are sequences of
words; a word that has no `=` in it stands for its text.
A `start()` whose bind fails throws and is called again: no variable changes, so
it is not an action. `Connected` clients have one of `IPs` and keep it.

## 3. Runs

| run | instance | shows |
|---|---|---|
| `safety` | 2 sessions, 2 addresses, 2 servers, 2 passwords, 3 commands, up to 2 rows; resets, crashes | `TypeOK`, `UniqueIp`, `TruthfulReply`, `EnrolledIsStored`, `RequestInv`, `OnlyOwnerChangesRow`, `ImplementsService` |
| `sqlite_errors` | 2 sessions, 2 addresses, 1 server, all 5 commands, up to 2 rows; failing opens and statements, full disk, missing table | `IInv`, `TruthfulReply`, `OnlyOwnerChangesRow`, `DuplicateOnlyAfterFailedSelect` |
| `liveness` | 2 sessions, 1 address, 2 servers, 2 commands; resets, failed accepts | `ConnectionsAreHeld`, `Rearmed`, `Served`, `Released` |
| `store_refused` | no faults | violation: finding 1 |
| `logged_stored` | no faults | violation: finding 2 |
| `refused_unopened` | failing opens only | violation: finding 3 |
| `task_pool` | 3 threads, 2 callers, 3 tasks; spurious wake-ups, tasks that add tasks and throw | `IInv`, `NoEmptyPop`, `EachTaskOnce`, `EnoughAwake`, `NobodySleepsAgain`, `ImplementsPool`, `TasksAreTaken`, `DestructorEnds` |
| `task_pool_stop` | 2 threads, 1 caller, no faults | violation: finding 4 |
| `sql_connection` | 3 objects, 3 addresses of handles, 2 files; opens that fail in both ways | `IInv`, `LostOnlyByReopening` |
| `setup_args` | command lines of 0 to 4 arguments, with up to three `=`, empty words, numbers below, at and above the limits, words that are no numbers | `IInv`, `LastOptionWins`, `RefusedForAReason` |
| `port_zero` | the same | violation: finding 5 |
| `logger` | 2 threads with 2 calls each, 2 files, 2 ticks; files that do not open | `IInv`, `WholeLines`, `StampsAscend`, `WrittenWhereNamed`, `EachCallOnce`, `CallsReturn` |

Why these bounds are enough to be interesting: two sessions give every order
of two handlers' completions; two addresses give a row of one's own and one of
somebody else's; two passwords let a password be replaced by another; two rows
allow a duplicate and a full disk. Numbers and commands that are prefixes of
others (`2.75` and `2.7`, `/store_and_get` and `/store`) make a cut request
look like another one. Failed accepts are left to `liveness`, where they matter.
Sessions, addresses and servers are symmetric in the safety runs, and objects,
handles and files in `sql_connection`; there is no symmetry where liveness is
checked. Deadlock is checked in every run of the server and of the connections: a
client can always connect or a handler go on. It is not in the others: the pool
ends when it is destroyed or terminated, `setup_args` returns, and the threads of
the logger come to the end of their calls. Three threads of the pool are a
sleeping, a running and a woken one, with two callers between their push and
their notification. Three objects and three handles let a stale address in one
object be the handle of a second while a third takes part. Four arguments
are one more than the program reads, and three let one option replace another
with a third between them.

What the properties say:

* `UniqueIp` - as long as no statement fails an address has one row, through
  crashes between SELECT and INSERT, resets and restarts.
* `DuplicateOnlyAfterFailedSelect` - when statements can fail, a second row
  comes only from an `initUser` whose SELECT failed (line 190; its error code is
  not read). This is the exact extent of that weakness.
* `OnlyOwnerChangesRow` - what a row holds changes only in the UPDATE of a
  session whose client has the row's address; rows are not lost.
* `TruthfulReply` - what is about to be sent agrees with the table at that
  moment: ids, passwords, coordinates, refusals. Refusals may be false only
  when the file did not open (finding 3).
* `EnrolledIsStored` - a client that is answered to a well-formed
  `/store_and_get` was read whole up to its numbers, however the request was cut.
  Unless SQLite failed, the row of its address holds them, if it has one; and if it
  names its own account and is not refused, it gets back the numbers it has just
  sent. An answer does not mean that anything was stored: an address without a row
  is answered too (finding 2), and so is a request whose UPDATE failed.
* `Rearmed`, `Served`, `Released` - a server accepts again after each completed
  or failed accept and after each restart; a well-formed request that was
  received is answered unless an exception restarts the server; a session
  whose read completed is freed.
* `ImplementsService` - the refinement: whatever the queries of other requests
  between those of one, resets, restarts and crashes, clients see accounts and
  requests that act at single moments. It fails if two handlers may overlap, if a
  SELECT sees half of another's work, or if a reply tells of two moments.
* `ConnectionsAreHeld` - while `start()` runs every server has an accept outstanding
  or a completion queued for `handleAccept`, and each accepted connection that no
  read was started for is held by exactly one of these. It fails if a failed accept
  returns before `startAccept`.
* `RequestInv` - what each step of a handler knows of its request; the
  inductive invariant behind `ImplementsService` and `EnrolledIsStored`.
* `IInv` of `SQLConnection` - a connected object holds an open handle, on the
  file it names, that no other object holds: no query runs on a closed handle
  (`sqlite3_exec` would then leave `err` of `SQLDatabase.cpp:29` uninitialised),
  and no `close()` takes away somebody else's, although `db_` may be stale.
* `LostOnlyByReopening` - a handle is leaked only by `open(file)` on a connected
  object (line 29 overwrites `db_`). The server never calls `open(file)`.
* `LastOptionWins`, `RefusedForAReason` - the loop of `setup_args` against a
  description without a loop. `LastOptionWins` is what the help text promises
  (`-db=[filename]`, line 63), for settings none of whose arguments has an `=` inside
  its value. The code does not keep that promise for the others: `-db=a=b` is an
  unknown option, which is reported, and the program goes on with the default file.
  `LastOptionWins` bounds that disagreement (no other argument is lost) and does
  not approve of it. The invariant (`SettingsAreRead`) says what the code does with
  such arguments. A value that ends in its only `=` is taken as it is: `-db=a=`
  names the file `a=`, and `-srv=2=` is two servers, as `stoi` stops at the `=`.
* `EachCallOnce` - what one call of the logger writes is in one sink, once; a
  thread's lines are in the order of its calls; `log` has written when it returns.
  A `logToFile` whose file does not open may write nothing, but not elsewhere.
* `WholeLines`, `StampsAscend`, `WrittenWhereNamed`, `CallsReturn` - what the
  mutex of the logger is for: no line inside another one, stamps in order, no
  write to a file after `setFileName` has replaced it, no early return that keeps
  the mutex.
* `NoEmptyPop` - lines 55-56 meet a task although `stopped_` may have ended the
  wait and changes without the mutex.
* `EachTaskOnce` - a task is in the queue or was taken by one thread, in order.
* `EnoughAwake` - while a thread sleeps there is, for each queued task, another
  thread on its way to the queue or a notification still to come: no task waits
  for a busy thread when an idle one could run it.
* `NobodySleepsAgain` - when `stopped_` is seen before `notify_all` and no thread is
  between its test and its sleep, no thread sleeps or falls asleep after
  `notify_all`. It says nothing of a thread that is there when `stopped_` is set:
  that one may sleep for ever, and the owner waits for it in `join` (finding 4).
* `ImplementsPool` - the refinement: at most the one thread that is past line 51 takes
  a task after `stopped_` is seen, and nothing runs in a destroyed pool.
* `TasksAreTaken` - an added task leaves the queue unless the pool is destroyed.
* `DestructorEnds` - when `stopped_` is seen before `notify_all` and no thread is between
  its test and its sleep, the destructor ends. Finding 4 is what happens otherwise.

### Fairness

`io_service` runs completions first in, first out on one thread. A queued
completion stays queued, and handlers are finite, so it is run: strong fairness
on `ReceiveDataHandle` and `HandleAccept`, which are disabled while another
handler runs and enabled again after it. The thread continues a handler it has
begun, and `main` its loop: weak fairness on `HandlerGoesOn`, `InitServerDb`,
`Start`. The kernel reports a broken connection: weak fairness on `ReadFails`.
Nothing is assumed of clients: they need not connect, nor send.

In the pool each thread continues when it can (weak fairness on its steps), a
store becomes visible, and tasks return. The mutex need not be fair. Nobody need
add a task, destroy the pool, or wake spuriously. In the logger a thread inside a
call goes on when it can; threads make finitely many calls, so the mutex need not
be fair there either.

## 4. Findings

1. `/store` never stores. `Session.cpp:52` extracts one token, `Session.cpp:148`
   wants whitespace inside: "Error: Wrong coordinates format" (line 57) is
   printed for coordinates of the right format. Run `store_refused`.
2. "Coordinates: ... are stored." (line 93) is logged when no row was updated.
   Run `logged_stored`: a `/store_and_get` from an address without a row.
3. A database that cannot be opened is reported to the client as a friend that
   does not exist, past the test at line 234 made for database errors. Run
   `refused_unopened`.
4. The destructor of `TaskManager` may hang. It sets `stopped_` without the mutex
   (`TaskManager.hpp:67`): a thread that tested the predicate of line 49 before and
   sleeps after the notification of line 68 is never woken. Run `task_pool_stop`.
5. Port 0 is accepted. `main.cpp:110` tests `server_port < 0` where the message of
   line 111 says "Error: Server port must be POSITIVE integer." (and line 94 tests
   `count_servers <= 0`). Run `port_zero`.

## 5. Proofs

`MarkMeProofs` proves, for every number of sessions, servers, addresses,
passwords and rows, every set of messages and every combination of faults:

| theorem | statement |
|---|---|
| `Invariance` | `Spec => []IInv` |
| `TypeCorrect` | `Spec => []TypeOK` |
| `OneRowPerAddress` | `Spec => []UniqueIp` |
| `RepliesAreTrue` | `Spec => []TruthfulReply` |
| `RowsAreTheirOwners` | `Spec => OnlyOwnerChangesRow` |
| `DuplicatesAreErrors` | `Spec => DuplicateOnlyAfterFailedSelect` |
| `NoConnectionIsForgotten` | `Spec => []ConnectionsAreHeld` |

They assume `RequestsAssumption`, `SessionAssumption` and `ServerAssumption`:
the sets of tokens are nested as the characters they allow, and the
distinguished values (`NULL`, `NoEntry`, `NoIp`, `NoSession`) are not ordinary ones.
TLC evaluates them in each run.

None of the properties is inductive. `UniqueIp`, for example, needs that at the
INSERT the SELECT before it found nothing *and* that no other handler ran
since. `IInv` adds:

* `OneHandler` - at most one session is inside its handler (from `Idle`);
* `AcceptedOnce` - two servers never hold the same session, and a session
  that waits for `handleAccept` has not begun to read;
* `NothingOutlivesStart` - outside `start()` there are no sessions and no
  acceptors;
* `SessionOK` - per phase, what the handler knows: before its first query
  there are no results; at the INSERT no row has the address, unless the SELECT
  failed; at the UPDATE of the password the id in hand is that of a row of the
  client's own address; between the two queries of `/get` the friend is known;
  the reply is true.

`SessionStep` is the frame argument, once for all steps of a session: only the
session in its handler knows anything of the table (`QuietFacts`), so a step
that writes cannot invalidate what another one knows. One lemma per action
establishes its hypotheses. `QueriedFacts` and `SelectFacts` say what a query
leaves in the object, `TableFacts`, `PasswordFacts` and `CoordinatesFacts` what
a statement does to the table.

`RepliesAreTrue` has the exception of `TruthfulReply`: a refusal may be false if the
file did not open. `NoConnectionIsForgotten` is the part of `Rearmed` that is in the
prover's reach: whatever fails, an accept is outstanding or a `handleAccept` that will
arm the server is queued, and it will start the session. It is inductive together
with `IInv` (`HeldStep`): `AcceptedOnce` makes the holder the only one, and
`NothingOutlivesStart` covers what an exception or a crash unwinds; `HandlerMoves`
and `HandlingAccepts` say that handlers of sessions accept nothing.

`TaskManagerProofs` proves, for every number of threads, callers and tasks:

| theorem | statement |
|---|---|
| `NeverPopsEmpty` | `Spec => []NoEmptyPop` |
| `TasksRunOnce` | `Spec => []EachTaskOnce` |
| `TasksFindThreads` | `Spec => []EnoughAwake`, for finitely many threads |
| `Implementation` | `Spec => ImplementsPool`, for at least one thread |
| `MutexIsReleased` | `Spec => []HolderInside` |
| `StopReachesAll` | `Spec => NobodySleepsAgain` |

They assume `TaskManagerAssumption`: `NoTask` and `NoThread` are not ordinary values
and no caller is a worker. The inductive invariant `IInv` says who holds the mutex
(`MutexHeld`), when a worker has a task in hand (`TaskInHand`), that no task is pushed
twice (`DistinctTasks`), what the holder knows of the queue (`PredicateKnown`: it is
empty when the holder goes to sleep, not empty when it pops) and what the phases of
the destructor imply (`StopKnown`). `EnoughAwake` is a count: `AwakeStep` shows for
each action that threads awake and queued tasks change together. `MutexIsReleased` is the
converse of `MutexHeld`: a locked mutex has a holder inside a critical section.
`TasksRunOnce` is about the queue and the threads; that a task which left the queue is
in a thread's hands until it has run is `TaskInHand`. `StopReachesAll` is the safety half of
`DestructorEnds`: from the states that property starts in, nobody sleeps or will sleep
again, so that `join` only waits for threads that can go on. A pool without
threads (`TaskManager(0)`) can be destroyed before its store is seen, hence the
hypothesis of `Implementation`.

`MarkMeServiceProofs` proves, under the assumptions of `MarkMeProofs`:

| theorem | statement |
|---|---|
| `RequestsAreFollowed` | `Spec => []RequestInv` |
| `EnrolledAreStored` | `Spec => []EnrolledIsStored` |
| `RefusalsAreTrue` | `Spec => []RefusalMeansNoSuchFriend`, if `open` is not in `Faults` |
| `Implementation` | `Spec => ImplementsService`, if `Faults` has neither `open` nor `sql` |

`RequestInv` is inductive together with `IInv`, which says nothing of
requests. It says which command a handler's step belongs to and which checks the
request passed, that the step has an open file unless opens fail and, while SQLite
does not fail, that a stored pair of numbers is in the row of its address, if there is
one. `RequestStep` is its frame argument. `EnrolledAreStored` adds
`FriendIsAfterCoordinates`: a received request with a valid friend after the
coordinates has its coordinates whole, as only the last token of a segment can be cut;
with `TruthfulReply` the answer about the client's own account is what it stored.
`RefusalsAreTrue` combines `TruthfulReply` with the open file: it shows that a failed
open is the only cause of finding 3, and failing statements are none. For `Implementation` the table is
related to the accounts by `AccountFacts` (with unique addresses the row of an
address is determined) and one lemma per statement (`AccountsInserted`,
`AccountsWithPassword`, `AccountsWithCoordinates`); `NoServiceStep` is for the steps
that the service does not see, `...Service` is a lemma per action. The
hypothesis cannot be dropped: with failing statements an address may get two
rows, and with failing opens refusals may be false (finding 3).

`SQLConnectionProofs`, for any number of objects, handles and files:
`Invariance` (`Spec => []IInv`), `HandlesAreClosed` (`Spec => LostOnlyByReopening`) and
`ServerLosesNone` (`ServerSpec => [](Lost = {})`: with the calls that the server makes,
which are the constructors, `open()`, the guard and the destructors, no handle is ever
lost, whatever opens fail).
`HoldsItsHandle` is inductive by itself: an open takes a free address, so no other
connected object has it, and only a connected object closes. They assume
`SQLConnectionAssumption`: `nullptr` and the empty name are not ordinary values.

`SetupArgsProofs`, for all command lines and any `Stoi`: `Invariance`,
`SettingsAreGiven` (`LastOptionWins`), `RefusalsAreJust` (`RefusedForAReason`) and
`AcceptedIsUsable` (`SettingsAreUsable`: the program goes on with at least one server,
no negative port and a file name that is not empty, which `open()` would not try), from
`SetupArgsAssumption`. The invariant relates the settings to the arguments recognised so
far (`SettingsAreRead`); `NothingBadSoFar` is what the loop knows of them. `GivenFacts`
goes from there to `LastOptionWins`: where nothing is misread, what is given is what is
recognised.

`SimpleLoggerProofs`, for any threads, names and bounds: `Invariance`, `LinesAreWhole`,
`LinesAreInOrder`, `LinesGoWhereNamed` and `CallsWriteOnce` (`EachCallOnce`), from `SimpleLoggerAssumption`. The invariant
adds that the holder of the mutex is the thread inside an operation (`MutexHeld`),
that no stamp is ahead of the clock or of a thread about to write (`StampInv`), and
that a sink with a begun line ends with its head (`LineInv`). For `CallsWriteOnce` it is
strengthened by `WrittenInv`: each piece in a sink is of a call that was made, and of
the running call only what it has passed is written; `OnceStep` then shows that a new piece is unlike every one there.

Only model-checked: the liveness properties `Rearmed`, `Served`, `Released`,
`TasksAreTaken`, `DestructorEnds` and `CallsReturn`, which rest on fairness and are
outside the prover's reach. `NoConnectionIsForgotten` and `StopReachesAll` are the safety
halves of two of them; what is left to the runs is that fair steps are taken. Every
invariant and every action property that a passing run checks is stated by a theorem.
`RefusalMeansNoSuchFriend` is violated in its run, where opens fail, and proved without
failing opens. `HolderInside`, `SettingsAreUsable` and `Lost = {}` under `ServerSpec` are
proved without a run of their own.

## 6. Not modelled

* SQLite itself: only its header (`sqlite3.h`, 11,716 of the 12,642 lines under
  `src/MarkMeMultithreadedServer/`) is in the repository; it holds declarations and
  comments and no behaviour to translate. Its functions are modelled by their
  results where `src/` calls them. Of the other lines, most that are not mapped are
  includes, blank lines and declarations. Two processes on one file are not
  modelled.
* Logging by the server: no property is about it but finding 2, which reads the
  step that logs. The server logs from one thread and only in Debug builds.
* The texts of messages, `print_help`, and `formatQueryString`, which puts values
  into the texts of queries.
* A `TaskManager` whose constructor cannot start a thread.
* How good `generatePassword`'s randomness is: any password may be drawn.
* The conversion of the port from `int` to 16 bits, which is Boost's; a `-srv` too
  large for `reserve` (`main.cpp:147`), and a bind that fails: `start()` throws and is
  called again, and no state changes.

## 7. Plan

1. **Done**: the server (`Requests`, `SQLDatabase`, `Users`, `Session`, `Server`,
   `MarkMe`), its safety, liveness and findings, `IInv` and its theorems.
2. **Done**: `TaskManager` and `TaskPool`, the refinement, and their theorems.
3. **Done**: `SQLConnection`, `SetupArgs`, `SimpleLogger`, and their theorems.
4. **Done**: `LocationService`, `MarkMeService`, the refinement and its theorem,
   `EnrolledIsStored` as a theorem.
5. **Done**: the safety halves of liveness properties (`NoConnectionIsForgotten`,
   `StopReachesAll`), `RefusalsAreTrue`, `CallsWriteOnce`, `ServerLosesNone`,
   `AcceptedIsUsable`.
6. Left: a second server process on the same database file (statements of two
   `MarkMe` interleave; `UniqueIp` is then expected to fail); the format checks on
   characters against a reference definition; a service specification for the case
   that SQLite fails.
