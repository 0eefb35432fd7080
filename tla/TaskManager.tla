---------------------------- MODULE TaskManager ----------------------------
(***************************************************************************)
(* The class TaskManager: a pool of threads that take tasks from a queue   *)
(* under a mutex and sleep on a condition variable while there are none.   *)
(* The destructor writes stopped_ without the mutex, notifies all threads  *)
(* and joins them.  A task that throws ends the process.                   *)
(***************************************************************************)
EXTENDS Sequences, Naturals, FiniteSets

CONSTANTS
  Workers,    \* the threads of the pool
  Callers,    \* other threads, that add tasks
  Tasks,      \* the calls of addTask; each adds its own task
  NoTask,
  NoThread,
  Faults      \* what the instance lets happen: "spurious" wake-ups, tasks that "throw"

ASSUME TaskManagerAssumption ==
  /\ NoTask \notin Tasks
  /\ NoThread \notin Workers
  /\ Workers \cap Callers = {}

Threads == Workers \cup Callers

VARIABLES
  at,         \* where each thread is
  func,       \* the task a worker took
  mtx,        \* the worker that holds mtx_
  tasks,      \* tasks_
  stopped,    \* stopped_, as the workers see it
  owner,      \* where the thread is that owns the object
  submitted   \* history: the tasks in the order in which they were pushed

vars == <<at, func, mtx, tasks, stopped, owner, submitted>>

\* Inside the block of lines 47-57, with the mutex.
Locked == {"test", "block", "check", "pop", "unlock"}
WorkerPlaces ==
  {"unborn", "lock", "asleep", "run", "notify", "done", "dead"} \cup Locked
CallerPlaces == {"idle", "notify", "dead"}
OwnerPlaces == {"constructing", "working", "notifying", "joining", "destroyed", "terminated"}

TypeOK ==
  /\ at \in [Threads -> WorkerPlaces \cup CallerPlaces]
  /\ \A w \in Workers : at[w] \in WorkerPlaces
  /\ \A c \in Callers : at[c] \in CallerPlaces
  /\ func \in [Workers -> Tasks \cup {NoTask}]
  /\ mtx \in Workers \cup {NoThread}
  /\ tasks \in Seq(Tasks)
  /\ stopped \in BOOLEAN
  /\ owner \in OwnerPlaces
  /\ submitted \in Seq(Tasks)

Init ==
  /\ at = [th \in Threads |-> IF th \in Workers THEN "unborn" ELSE "idle"]
  /\ func = [w \in Workers |-> NoTask]
  /\ mtx = NoThread
  /\ tasks = <<>>
  /\ stopped = FALSE
  /\ owner = "constructing"
  /\ submitted = <<>>

Goes(th, here, there) == at[th] = here /\ at' = [at EXCEPT ![th] = there]
-----------------------------------------------------------------------------
\* The constructor

StartThread(w) ==
  /\ owner = "constructing"
  /\ Goes(w, "unborn", "lock")
  /\ UNCHANGED <<func, mtx, tasks, stopped, owner, submitted>>

Constructed ==
  /\ owner = "constructing"
  /\ \A w \in Workers : at[w] # "unborn"
  /\ owner' = "working"
  /\ UNCHANGED <<at, func, mtx, tasks, stopped, submitted>>
-----------------------------------------------------------------------------
\* A worker

\* unique_lock, and the return of condition_variable::wait
Lock(w) ==
  /\ mtx = NoThread
  /\ mtx' = w
  /\ Goes(w, "lock", "test")
  /\ UNCHANGED <<func, tasks, stopped, owner, submitted>>

\* Variant: the predicate looks at the queue only.
TestTasksOnly(w) ==
  /\ Goes(w, "test", IF tasks # <<>> THEN "check" ELSE "block")
  /\ UNCHANGED <<func, mtx, tasks, stopped, owner, submitted>>

\* has_tasks_or_stopped_
Test(w) ==
  /\ Goes(w, "test", IF tasks # <<>> \/ stopped THEN "check" ELSE "block")
  /\ UNCHANGED <<func, mtx, tasks, stopped, owner, submitted>>

\* condition_variable::wait unlocks and sleeps in one step
Block(w) ==
  /\ Goes(w, "block", "asleep")
  /\ mtx' = NoThread
  /\ UNCHANGED <<func, tasks, stopped, owner, submitted>>

\* Variant: the predicate is not tested again.
SpuriousWakeupUntested(w) ==
  /\ "spurious" \in Faults
  /\ mtx = NoThread
  /\ mtx' = w
  /\ Goes(w, "asleep", "check")
  /\ UNCHANGED <<func, tasks, stopped, owner, submitted>>

SpuriousWakeup(w) ==
  /\ "spurious" \in Faults
  /\ Goes(w, "asleep", "lock")
  /\ UNCHANGED <<func, mtx, tasks, stopped, owner, submitted>>

\* if (stopped_) return, which unlocks
Check(w) ==
  /\ Goes(w, "check", IF stopped THEN "done" ELSE "pop")
  /\ mtx' = IF stopped THEN NoThread ELSE mtx
  /\ UNCHANGED <<func, tasks, stopped, owner, submitted>>

\* Variant: the front is moved from and stays in the queue.
PopOnlyFront(w) ==
  /\ Goes(w, "pop", "unlock")
  /\ func' = [func EXCEPT ![w] = Head(tasks)]
  /\ UNCHANGED <<mtx, tasks, stopped, owner, submitted>>

Pop(w) ==
  /\ Goes(w, "pop", "unlock")
  /\ func' = [func EXCEPT ![w] = Head(tasks)]
  /\ tasks' = Tail(tasks)
  /\ UNCHANGED <<mtx, stopped, owner, submitted>>

Unlock(w) ==
  /\ Goes(w, "unlock", "run")
  /\ mtx' = NoThread
  /\ UNCHANGED <<func, tasks, stopped, owner, submitted>>

\* func() returns
Return(w) ==
  /\ Goes(w, "run", "lock")
  /\ func' = [func EXCEPT ![w] = NoTask]
  /\ UNCHANGED <<mtx, tasks, stopped, owner, submitted>>

\* An exception leaves the thread's function: std::terminate.
Throw(w) ==
  /\ "throw" \in Faults
  /\ at[w] = "run"
  /\ at' = [th \in Threads |-> "dead"]
  /\ owner' = "terminated"
  /\ UNCHANGED <<func, mtx, tasks, stopped, submitted>>
-----------------------------------------------------------------------------
\* addTask and emplaceTask, called by another thread or from a task

CallsAdd(th) ==
  \/ th \in Callers /\ at[th] = "idle" /\ owner = "working"
  \/ th \in Workers /\ at[th] = "run"

\* Variant: only the first task of an empty queue is worth a notification.
PushNotifyIfEmpty(th, t) ==
  /\ CallsAdd(th)
  /\ mtx = NoThread
  /\ \A i \in 1..Len(submitted) : submitted[i] # t
  /\ tasks' = Append(tasks, t)
  /\ submitted' = Append(submitted, t)
  /\ at' = IF tasks = <<>> THEN [at EXCEPT ![th] = "notify"] ELSE at
  /\ UNCHANGED <<func, mtx, stopped, owner>>

\* The critical section of addTask: lock, push, unlock.
Push(th, t) ==
  /\ CallsAdd(th)
  /\ mtx = NoThread
  /\ \A i \in 1..Len(submitted) : submitted[i] # t
  /\ tasks' = Append(tasks, t)
  /\ submitted' = Append(submitted, t)
  /\ at' = [at EXCEPT ![th] = "notify"]
  /\ UNCHANGED <<func, mtx, stopped, owner>>

Asleep == {w \in Workers : at[w] = "asleep"}
AddReturns(th) == [at EXCEPT ![th] = IF th \in Workers THEN "run" ELSE "idle"]

\* Variant: nobody is notified.
NotifyNobody(th) ==
  /\ at[th] = "notify"
  /\ at' = AddReturns(th)
  /\ UNCHANGED <<func, mtx, tasks, stopped, owner, submitted>>

\* notify_one: any one of those asleep, or nobody
NotifyOne(th) ==
  /\ at[th] = "notify"
  /\ \/ Asleep = {} /\ at' = AddReturns(th)
     \/ \E w \in Asleep : at' = [AddReturns(th) EXCEPT ![w] = "lock"]
  /\ UNCHANGED <<func, mtx, tasks, stopped, owner, submitted>>
-----------------------------------------------------------------------------
\* The destructor, which runs when no other thread is in a call

Destroy ==
  /\ owner = "working"
  /\ \A c \in Callers : at[c] = "idle"
  /\ owner' = "notifying"
  /\ UNCHANGED <<at, func, mtx, tasks, stopped, submitted>>

\* Nothing orders the plain store to stopped_ with the workers' loads: they see
\* it at some time after it was issued, be it before or after notify_all.
StopSeen ==
  /\ owner \in {"notifying", "joining"}
  /\ ~stopped
  /\ stopped' = TRUE
  /\ UNCHANGED <<at, func, mtx, tasks, owner, submitted>>

\* Variant: notify_one where notify_all is needed.
NotifyAllWakesOne ==
  /\ owner = "notifying"
  /\ owner' = "joining"
  /\ \/ Asleep = {} /\ at' = at
     \/ \E w \in Asleep : at' = [at EXCEPT ![w] = "lock"]
  /\ UNCHANGED <<func, mtx, tasks, stopped, submitted>>

NotifyAll ==
  /\ owner = "notifying"
  /\ owner' = "joining"
  /\ at' = [th \in Threads |-> IF th \in Asleep THEN "lock" ELSE at[th]]
  /\ UNCHANGED <<func, mtx, tasks, stopped, submitted>>

\* Variant: the destructor waits for the first thread to end, not for all.
JoinSome ==
  /\ owner = "joining"
  /\ \E w \in Workers : at[w] = "done"
  /\ owner' = "destroyed"
  /\ UNCHANGED <<at, func, mtx, tasks, stopped, submitted>>

Join ==
  /\ owner = "joining"
  /\ \A w \in Workers : at[w] = "done"
  /\ owner' = "destroyed"
  /\ UNCHANGED <<at, func, mtx, tasks, stopped, submitted>>
-----------------------------------------------------------------------------
WorkerStep(w) ==
  Lock(w) \/ Test(w) \/ Block(w) \/ Check(w) \/ Pop(w) \/ Unlock(w) \/ Return(w)

OwnerStep == Constructed \/ StopSeen \/ NotifyAll \/ Join

Next ==
  \/ \E w \in Workers :
       StartThread(w) \/ WorkerStep(w) \/ SpuriousWakeup(w) \/ Throw(w)
  \/ \E th \in Threads : NotifyOne(th) \/ \E t \in Tasks : Push(th, t)
  \/ OwnerStep
  \/ Destroy

Spec == Init /\ [][Next]_vars

\* Threads run: whatever a thread can do at once it does.  Nobody need add a task,
\* nor destroy the pool, nor wake spuriously; tasks return.
FairSpec ==
  /\ Spec
  /\ \A w \in Workers : WF_vars(StartThread(w)) /\ WF_vars(WorkerStep(w))
  /\ \A th \in Threads : WF_vars(NotifyOne(th))
  /\ WF_vars(Constructed) /\ WF_vars(StopSeen) /\ WF_vars(NotifyAll) /\ WF_vars(Join)
-----------------------------------------------------------------------------
\* Safety

\* front() and pop() never meet an empty queue (lines 55-56): their only test
\* is the predicate of the wait, and "stopped_" may have satisfied it.
NoEmptyPop == \A w \in Workers : at[w] = "pop" => tasks # <<>>

\* How many of the submitted tasks left the queue.
Taken == Len(submitted) - Len(tasks)

\* No task is in the hands of two threads, or of one and still queued, and the queue
\* is the end of the sequence of the tasks added: they leave it in order.  (That a
\* thread that took a task has it until it has run is TaskInHand.)
EachTaskOnce ==
  /\ Len(tasks) <= Len(submitted)
  /\ \A i \in 1..Len(tasks) : tasks[i] = submitted[Taken + i]
  /\ \A w \in Workers :
       func[w] # NoTask => \E i \in 1..Taken : func[w] = submitted[i]
  /\ \A v, w \in Workers : func[v] = func[w] /\ func[v] # NoTask => v = w

\* Threads that are on their way to look at the queue.
Looking == {w \in Workers : at[w] \in {"lock", "test", "check", "pop"}}
Notifying == {th \in Threads : at[th] = "notify"}

\* While a thread sleeps, each queued task has a thread of its own that was
\* woken for it or is about to be: no task waits for a busy thread when an idle
\* one could run it.  (addTask notifies after it has unlocked, line 80.)
EnoughAwake ==
  (Asleep # {} /\ ~stopped) => Len(tasks) <= Cardinality(Looking) + Cardinality(Notifying)

\* The store of stopped_ was seen, and nobody sleeps or is past the test of the
\* predicate and about to, those apart whom notify_all has still to wake.
NobodySleeps ==
  /\ owner \in {"notifying", "joining", "destroyed"} /\ stopped
  /\ \A w \in Workers : at[w] # "block"
  /\ owner # "notifying" => Asleep = {}

\* If the workers see stopped_ (line 67) before notify_all, at a time when none of them
\* stands between its test and its sleep, then no thread that join waits for falls
\* asleep again: not the one that wakes spuriously, nor the one that returns from
\* its task to an empty queue.  A wake-up is lost only by a thread that does stand
\* there when stopped_ is set (see StoppedEndsWait), and in no other way.
NobodySleepsAgain == [][NobodySleeps => NobodySleeps' \/ owner' = "terminated"]_vars

\* TaskManager is a pool: it is closed from the moment when all threads see
\* stopped_ and none of them is past the test of line 51.
Taking == {w \in Workers : at[w] \in {"pop", "unlock"}}

Pool == INSTANCE TaskPool WITH
  Threads <- Workers,
  added <- submitted,
  started <- Taken,
  running <- func,
  closed <- stopped /\ Taking = {},
  ended <- owner = "destroyed"

\* Tasks start in order, at most once, and none after the pool was closed or
\* destroyed; the destructor waits for the running ones.
ImplementsPool == Pool!Spec
-----------------------------------------------------------------------------
\* The inductive invariant

MutexHeld == \A w \in Workers : at[w] \in Locked => mtx = w

\* The mutex is never left locked, except by std::terminate.
HolderInside == mtx # NoThread => at[mtx] \in Locked \cup {"dead"}

DistinctTasks == \A i, j \in 1..Len(submitted) : submitted[i] = submitted[j] => i = j

\* A worker has a task from the pop to the return of func().
TaskInHand ==
  \A w \in Workers :
    /\ at[w] \in {"unlock", "run", "notify"} => func[w] # NoTask
    /\ func[w] # NoTask => at[w] \in {"unlock", "run", "notify", "dead"}

\* What a worker knows of the queue while it holds the mutex.
PredicateKnown ==
  \A w \in Workers :
    /\ at[w] = "block" => tasks = <<>>
    /\ at[w] = "check" => tasks # <<>> \/ stopped
    /\ at[w] = "pop" => tasks # <<>>

StopKnown ==
  /\ stopped => owner \notin {"constructing", "working"}
  /\ \A w \in Workers : at[w] = "done" => stopped
  /\ owner = "destroyed" => \A w \in Workers : at[w] = "done"
  /\ owner \notin {"working", "terminated"} => \A c \in Callers : at[c] = "idle"

IInv ==
  /\ TypeOK /\ MutexHeld /\ DistinctTasks /\ TaskInHand
  /\ PredicateKnown /\ StopKnown /\ EachTaskOnce
-----------------------------------------------------------------------------
\* Liveness

Queued(t) == \E i \in 1..Len(tasks) : tasks[i] = t

\* A task that was added leaves the queue, unless the pool is destroyed.
TasksAreTaken == \A t \in Tasks : Queued(t) ~> (~Queued(t) \/ owner # "working")

\* The destructor ends if its store is seen before notify_all and at that time no
\* thread stands between its test and its sleep (line 49): those asleep are woken,
\* the others see stopped_ before they sleep.
DestructorEnds ==
  (owner = "notifying" /\ stopped /\ \A w \in Workers : at[w] # "block")
    ~> owner \in {"destroyed", "terminated"}

\* What the wait says of itself (line 49): a thread waits for has_tasks_or_stopped_.
StoppedEndsWait ==
  \A w \in Workers : (stopped /\ at[w] = "asleep") ~> at[w] # "asleep"
=============================================================================
