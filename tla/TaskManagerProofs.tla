------------------------- MODULE TaskManagerProofs -------------------------
(***************************************************************************)
(* Proofs about TaskManager, for any number of threads, callers and tasks. *)
(***************************************************************************)
EXTENDS TaskManager, FiniteSetTheorems, TLAPS

USE DEF Threads, Locked, WorkerPlaces, CallerPlaces, OwnerPlaces

\* The invariant holds when the constructor begins.
LEMMA InitInv == Init => IInv
<1>. SUFFICES ASSUME Init PROVE IInv
  OBVIOUS
<1>1. TypeOK
  <2>1. at \in [Threads -> WorkerPlaces \cup CallerPlaces]
    BY Zenon DEF Init
  <2>2. /\ \A w \in Workers : at[w] \in WorkerPlaces
        /\ \A c \in Callers : at[c] \in CallerPlaces
    BY TaskManagerAssumption DEF Init
  <2>3. tasks \in Seq(Tasks) /\ submitted \in Seq(Tasks)
    BY DEF Init
  <2>4. func \in [Workers -> Tasks \cup {NoTask}]
    BY DEF Init
  <2>. QED  BY <2>1, <2>2, <2>3, <2>4 DEF Init, TypeOK
<1>2. tasks = <<>> /\ submitted = <<>> /\ Len(tasks) = 0 /\ Len(submitted) = 0 /\ Taken = 0
  BY DEF Init, Taken
<1>3. DistinctTasks /\ EachTaskOnce
  BY <1>2 DEF Init, DistinctTasks, EachTaskOnce
<1>4. MutexHeld /\ TaskInHand /\ PredicateKnown /\ StopKnown
  BY TaskManagerAssumption DEF Init, MutexHeld, TaskInHand, PredicateKnown, StopKnown
<1>. QED  BY <1>1, <1>3, <1>4 DEF IInv

\* A step that neither pushes nor pops leaves all that is said of the tasks.
LEMMA QueueFrame ==
  ASSUME IInv, UNCHANGED <<func, tasks, submitted>>
  PROVE  DistinctTasks' /\ EachTaskOnce'
  BY DEF IInv, DistinctTasks, EachTaskOnce, Taken

LEMMA StartThreadInv ==
  ASSUME IInv, NEW w \in Workers, StartThread(w)
  PROVE  IInv'
<1>1. DistinctTasks' /\ EachTaskOnce'
  BY QueueFrame DEF StartThread
<1>2. TypeOK'
  BY TaskManagerAssumption DEF IInv, TypeOK, StartThread, Goes
<1>3. MutexHeld'
  BY TaskManagerAssumption DEF IInv, TypeOK, MutexHeld, StartThread, Goes
<1>4. TaskInHand'
  BY DEF IInv, TypeOK, TaskInHand, StartThread, Goes
<1>5. PredicateKnown'
  BY DEF IInv, TypeOK, PredicateKnown, StartThread, Goes
<1>6. StopKnown'
  BY TaskManagerAssumption DEF IInv, TypeOK, StopKnown, StartThread, Goes
<1>. QED  BY <1>1, <1>2, <1>3, <1>4, <1>5, <1>6 DEF IInv

LEMMA LockInv ==
  ASSUME IInv, NEW w \in Workers, Lock(w)
  PROVE  IInv'
<1>1. DistinctTasks' /\ EachTaskOnce'
  BY QueueFrame DEF Lock
<1>2. TypeOK'
  BY TaskManagerAssumption DEF IInv, TypeOK, Lock, Goes
<1>3. MutexHeld'
  BY TaskManagerAssumption DEF IInv, TypeOK, MutexHeld, Lock, Goes
<1>4. TaskInHand'
  BY DEF IInv, TypeOK, TaskInHand, Lock, Goes
<1>5. PredicateKnown'
  BY DEF IInv, TypeOK, PredicateKnown, Lock, Goes
<1>6. StopKnown'
  BY TaskManagerAssumption DEF IInv, TypeOK, StopKnown, Lock, Goes
<1>. QED  BY <1>1, <1>2, <1>3, <1>4, <1>5, <1>6 DEF IInv

LEMMA TestInv ==
  ASSUME IInv, NEW w \in Workers, Test(w)
  PROVE  IInv'
<1>1. DistinctTasks' /\ EachTaskOnce'
  BY QueueFrame DEF Test
<1>2. TypeOK'
  BY TaskManagerAssumption DEF IInv, TypeOK, Test, Goes
<1>3. MutexHeld'
  BY TaskManagerAssumption DEF IInv, TypeOK, MutexHeld, Test, Goes
<1>4. TaskInHand'
  BY DEF IInv, TypeOK, TaskInHand, Test, Goes
<1>5. PredicateKnown'
  BY DEF IInv, TypeOK, PredicateKnown, Test, Goes
<1>6. StopKnown'
  BY TaskManagerAssumption DEF IInv, TypeOK, StopKnown, Test, Goes
<1>. QED  BY <1>1, <1>2, <1>3, <1>4, <1>5, <1>6 DEF IInv

LEMMA BlockInv ==
  ASSUME IInv, NEW w \in Workers, Block(w)
  PROVE  IInv'
<1>1. DistinctTasks' /\ EachTaskOnce'
  BY QueueFrame DEF Block
<1>2. TypeOK'
  BY TaskManagerAssumption DEF IInv, TypeOK, Block, Goes
<1>3. MutexHeld'
  BY TaskManagerAssumption DEF IInv, TypeOK, MutexHeld, Block, Goes
<1>4. TaskInHand'
  BY DEF IInv, TypeOK, TaskInHand, Block, Goes
<1>5. PredicateKnown'
  BY DEF IInv, TypeOK, PredicateKnown, Block, Goes
<1>6. StopKnown'
  BY TaskManagerAssumption DEF IInv, TypeOK, StopKnown, Block, Goes
<1>. QED  BY <1>1, <1>2, <1>3, <1>4, <1>5, <1>6 DEF IInv

LEMMA CheckInv ==
  ASSUME IInv, NEW w \in Workers, Check(w)
  PROVE  IInv'
<1>1. DistinctTasks' /\ EachTaskOnce'
  BY QueueFrame DEF Check
<1>2. TypeOK'
  BY TaskManagerAssumption DEF IInv, TypeOK, Check, Goes
<1>3. MutexHeld'
  BY TaskManagerAssumption DEF IInv, TypeOK, MutexHeld, Check, Goes
<1>4. TaskInHand'
  BY DEF IInv, TypeOK, TaskInHand, Check, Goes
<1>5. PredicateKnown'
  BY DEF IInv, TypeOK, PredicateKnown, Check, Goes
<1>6. StopKnown'
  BY TaskManagerAssumption DEF IInv, TypeOK, StopKnown, Check, Goes
<1>. QED  BY <1>1, <1>2, <1>3, <1>4, <1>5, <1>6 DEF IInv

LEMMA UnlockInv ==
  ASSUME IInv, NEW w \in Workers, Unlock(w)
  PROVE  IInv'
<1>1. DistinctTasks' /\ EachTaskOnce'
  BY QueueFrame DEF Unlock
<1>2. TypeOK'
  BY TaskManagerAssumption DEF IInv, TypeOK, Unlock, Goes
<1>3. MutexHeld'
  BY TaskManagerAssumption DEF IInv, TypeOK, MutexHeld, Unlock, Goes
<1>4. TaskInHand'
  BY DEF IInv, TypeOK, TaskInHand, Unlock, Goes
<1>5. PredicateKnown'
  BY DEF IInv, TypeOK, PredicateKnown, Unlock, Goes
<1>6. StopKnown'
  BY TaskManagerAssumption DEF IInv, TypeOK, StopKnown, Unlock, Goes
<1>. QED  BY <1>1, <1>2, <1>3, <1>4, <1>5, <1>6 DEF IInv

LEMMA SpuriousWakeupInv ==
  ASSUME IInv, NEW w \in Workers, SpuriousWakeup(w)
  PROVE  IInv'
<1>1. DistinctTasks' /\ EachTaskOnce'
  BY QueueFrame DEF SpuriousWakeup
<1>2. TypeOK'
  BY TaskManagerAssumption DEF IInv, TypeOK, SpuriousWakeup, Goes
<1>3. MutexHeld'
  BY TaskManagerAssumption DEF IInv, TypeOK, MutexHeld, SpuriousWakeup, Goes
<1>4. TaskInHand'
  BY DEF IInv, TypeOK, TaskInHand, SpuriousWakeup, Goes
<1>5. PredicateKnown'
  BY DEF IInv, TypeOK, PredicateKnown, SpuriousWakeup, Goes
<1>6. StopKnown'
  BY TaskManagerAssumption DEF IInv, TypeOK, StopKnown, SpuriousWakeup, Goes
<1>. QED  BY <1>1, <1>2, <1>3, <1>4, <1>5, <1>6 DEF IInv

LEMMA ThrowInv ==
  ASSUME IInv, NEW w \in Workers, Throw(w)
  PROVE  IInv'
<1>1. DistinctTasks' /\ EachTaskOnce'
  BY QueueFrame DEF Throw
<1>2. TypeOK'
  BY TaskManagerAssumption DEF IInv, TypeOK, Throw
<1>3. MutexHeld'
  BY TaskManagerAssumption DEF IInv, TypeOK, MutexHeld, Throw
<1>4. TaskInHand'
  BY TaskManagerAssumption DEF IInv, TypeOK, TaskInHand, Throw
<1>5. PredicateKnown'
  BY TaskManagerAssumption DEF IInv, TypeOK, PredicateKnown, Throw
<1>6. StopKnown'
  BY TaskManagerAssumption DEF IInv, TypeOK, StopKnown, Throw
<1>. QED  BY <1>1, <1>2, <1>3, <1>4, <1>5, <1>6 DEF IInv

LEMMA NotifyOneInv ==
  ASSUME IInv, NEW th \in Threads, NotifyOne(th)
  PROVE  IInv'
<1>1. DistinctTasks' /\ EachTaskOnce'
  BY QueueFrame DEF NotifyOne
<1>2. TypeOK'
  BY TaskManagerAssumption DEF IInv, TypeOK, NotifyOne, Asleep, AddReturns
<1>3. MutexHeld'
  BY TaskManagerAssumption DEF IInv, TypeOK, MutexHeld, NotifyOne, Asleep, AddReturns
<1>4. TaskInHand'
  BY TaskManagerAssumption DEF IInv, TypeOK, TaskInHand, NotifyOne, Asleep, AddReturns
<1>5. PredicateKnown'
  BY TaskManagerAssumption DEF IInv, TypeOK, PredicateKnown, NotifyOne, Asleep, AddReturns
<1>6. StopKnown'
  BY TaskManagerAssumption DEF IInv, TypeOK, StopKnown, NotifyOne, Asleep, AddReturns
<1>. QED  BY <1>1, <1>2, <1>3, <1>4, <1>5, <1>6 DEF IInv

LEMMA ConstructedInv ==
  ASSUME IInv, Constructed
  PROVE  IInv'
<1>1. DistinctTasks' /\ EachTaskOnce'
  BY QueueFrame DEF Constructed
<1>2. TypeOK'
  BY TaskManagerAssumption DEF IInv, TypeOK, Constructed
<1>3. MutexHeld'
  BY TaskManagerAssumption DEF IInv, TypeOK, MutexHeld, Constructed
<1>4. TaskInHand'
  BY TaskManagerAssumption DEF IInv, TypeOK, TaskInHand, Constructed
<1>5. PredicateKnown'
  BY TaskManagerAssumption DEF IInv, TypeOK, PredicateKnown, Constructed
<1>6. StopKnown'
  BY TaskManagerAssumption DEF IInv, TypeOK, StopKnown, Constructed
<1>. QED  BY <1>1, <1>2, <1>3, <1>4, <1>5, <1>6 DEF IInv

LEMMA DestroyInv ==
  ASSUME IInv, Destroy
  PROVE  IInv'
<1>1. DistinctTasks' /\ EachTaskOnce'
  BY QueueFrame DEF Destroy
<1>2. TypeOK'
  BY TaskManagerAssumption DEF IInv, TypeOK, Destroy
<1>3. MutexHeld'
  BY TaskManagerAssumption DEF IInv, TypeOK, MutexHeld, Destroy
<1>4. TaskInHand'
  BY TaskManagerAssumption DEF IInv, TypeOK, TaskInHand, Destroy
<1>5. PredicateKnown'
  BY TaskManagerAssumption DEF IInv, TypeOK, PredicateKnown, Destroy
<1>6. StopKnown'
  BY TaskManagerAssumption DEF IInv, TypeOK, StopKnown, Destroy
<1>. QED  BY <1>1, <1>2, <1>3, <1>4, <1>5, <1>6 DEF IInv

LEMMA StopSeenInv ==
  ASSUME IInv, StopSeen
  PROVE  IInv'
<1>1. DistinctTasks' /\ EachTaskOnce'
  BY QueueFrame DEF StopSeen
<1>2. TypeOK'
  BY TaskManagerAssumption DEF IInv, TypeOK, StopSeen
<1>3. MutexHeld'
  BY TaskManagerAssumption DEF IInv, TypeOK, MutexHeld, StopSeen
<1>4. TaskInHand'
  BY TaskManagerAssumption DEF IInv, TypeOK, TaskInHand, StopSeen
<1>5. PredicateKnown'
  BY TaskManagerAssumption DEF IInv, TypeOK, PredicateKnown, StopSeen
<1>6. StopKnown'
  BY TaskManagerAssumption DEF IInv, TypeOK, StopKnown, StopSeen
<1>. QED  BY <1>1, <1>2, <1>3, <1>4, <1>5, <1>6 DEF IInv

LEMMA NotifyAllInv ==
  ASSUME IInv, NotifyAll
  PROVE  IInv'
<1>1. DistinctTasks' /\ EachTaskOnce'
  BY QueueFrame DEF NotifyAll
<1>2. TypeOK'
  BY TaskManagerAssumption DEF IInv, TypeOK, NotifyAll, Asleep
<1>3. MutexHeld'
  BY TaskManagerAssumption DEF IInv, TypeOK, MutexHeld, NotifyAll, Asleep
<1>4. TaskInHand'
  BY TaskManagerAssumption DEF IInv, TypeOK, TaskInHand, NotifyAll, Asleep
<1>5. PredicateKnown'
  BY TaskManagerAssumption DEF IInv, TypeOK, PredicateKnown, NotifyAll, Asleep
<1>6. StopKnown'
  BY TaskManagerAssumption DEF IInv, TypeOK, StopKnown, NotifyAll, Asleep
<1>. QED  BY <1>1, <1>2, <1>3, <1>4, <1>5, <1>6 DEF IInv

LEMMA JoinInv ==
  ASSUME IInv, Join
  PROVE  IInv'
<1>1. DistinctTasks' /\ EachTaskOnce'
  BY QueueFrame DEF Join
<1>2. TypeOK'
  BY TaskManagerAssumption DEF IInv, TypeOK, Join
<1>3. MutexHeld'
  BY TaskManagerAssumption DEF IInv, TypeOK, MutexHeld, Join
<1>4. TaskInHand'
  BY TaskManagerAssumption DEF IInv, TypeOK, TaskInHand, Join
<1>5. PredicateKnown'
  BY TaskManagerAssumption DEF IInv, TypeOK, PredicateKnown, Join
<1>6. StopKnown'
  BY TaskManagerAssumption DEF IInv, TypeOK, StopKnown, Join
<1>. QED  BY <1>1, <1>2, <1>3, <1>4, <1>5, <1>6 DEF IInv

LEMMA PushInv ==
  ASSUME IInv, NEW th \in Threads, NEW t \in Tasks, Push(th, t)
  PROVE  IInv'
<1>1. /\ tasks' = Append(tasks, t) /\ tasks' \in Seq(Tasks)
      /\ submitted' = Append(submitted, t) /\ submitted' \in Seq(Tasks)
      /\ Len(tasks') = Len(tasks) + 1 /\ Len(submitted') = Len(submitted) + 1
      /\ Len(tasks) \in Nat /\ Len(submitted) \in Nat
  BY DEF IInv, TypeOK, Push
<1>2. /\ \A i \in 1..Len(tasks) : tasks'[i] = tasks[i]
      /\ \A i \in 1..Len(submitted) : submitted'[i] = submitted[i]
      /\ tasks'[Len(tasks) + 1] = t /\ submitted'[Len(submitted) + 1] = t
  BY <1>1 DEF IInv, TypeOK
<1>3. DistinctTasks'
  BY <1>1, <1>2 DEF IInv, DistinctTasks, Push
<1>4. EachTaskOnce'
  <2>1. Taken' = Taken /\ Taken \in Nat
    BY <1>1 DEF IInv, Taken, EachTaskOnce
  <2>2. \A i \in 1..Len(tasks') : tasks'[i] = submitted'[Taken' + i]
    <3>. SUFFICES ASSUME NEW i \in 1..Len(tasks') PROVE tasks'[i] = submitted'[Taken' + i]
      OBVIOUS
    <3>1. CASE i \in 1..Len(tasks)
      <4>1. Taken + i \in 1..Len(submitted)
        BY <1>1, <2>1, <3>1 DEF Taken
      <4>. QED  BY <1>2, <2>1, <3>1, <4>1 DEF IInv, EachTaskOnce
    <3>2. CASE i = Len(tasks) + 1
      <4>1. Taken + i = Len(submitted) + 1
        BY <1>1, <3>2 DEF Taken
      <4>. QED  BY <1>2, <2>1, <3>2, <4>1
    <3>3. i \in 1..Len(tasks) \/ i = Len(tasks) + 1
      BY <1>1
    <3>. QED  BY <1>1, <3>1, <3>2, <3>3
  <2>3. \A w \in Workers : func'[w] # NoTask => \E i \in 1..Taken' : func'[w] = submitted'[i]
    <3>1. 1..Taken \subseteq 1..Len(submitted)
      BY <1>1 DEF Taken
    <3>. QED  BY <1>2, <2>1, <3>1 DEF IInv, EachTaskOnce, Push
  <2>4. Len(tasks') <= Len(submitted') /\ UNCHANGED func
    BY <1>1 DEF IInv, EachTaskOnce, Push
  <2>. QED  BY <2>2, <2>3, <2>4 DEF IInv, EachTaskOnce
<1>5. TypeOK'
  BY <1>1, TaskManagerAssumption DEF IInv, TypeOK, Push, CallsAdd
<1>6. MutexHeld'
  BY TaskManagerAssumption DEF IInv, TypeOK, MutexHeld, Push, CallsAdd
<1>7. TaskInHand'
  BY TaskManagerAssumption DEF IInv, TypeOK, TaskInHand, Push, CallsAdd
<1>8. PredicateKnown'
  <2>1. tasks' # <<>>
    BY <1>1
  <2>2. \A w \in Workers : at'[w] # "block"
    BY TaskManagerAssumption DEF IInv, TypeOK, MutexHeld, Push, CallsAdd
  <2>. QED  BY <2>1, <2>2 DEF PredicateKnown
<1>9. StopKnown'
  BY TaskManagerAssumption DEF IInv, TypeOK, StopKnown, Push, CallsAdd
<1>. QED  BY <1>3, <1>4, <1>5, <1>6, <1>7, <1>8, <1>9 DEF IInv

\* The pop takes the oldest task that was not taken.
LEMMA PopFacts ==
  ASSUME IInv, NEW w \in Workers, Pop(w)
  PROVE  /\ tasks # <<>> /\ tasks' = Tail(tasks) /\ tasks' \in Seq(Tasks)
         /\ Len(tasks') = Len(tasks) - 1 /\ Len(tasks) \in Nat \ {0} /\ Len(submitted) \in Nat
         /\ \A i \in 1..Len(tasks') : tasks'[i] = tasks[i + 1]
         /\ func' = [func EXCEPT ![w] = tasks[1]] /\ tasks[1] \in Tasks
         /\ UNCHANGED submitted
         /\ Taken' = Taken + 1 /\ Taken \in Nat /\ Taken' <= Len(submitted)
         /\ tasks[1] = submitted[Taken']
<1>1. /\ tasks # <<>> /\ tasks' = Tail(tasks) /\ tasks' \in Seq(Tasks)
      /\ Len(tasks') = Len(tasks) - 1 /\ Len(tasks) \in Nat \ {0} /\ Len(submitted) \in Nat
      /\ \A i \in 1..Len(tasks') : tasks'[i] = tasks[i + 1]
      /\ func' = [func EXCEPT ![w] = tasks[1]] /\ tasks[1] \in Tasks
      /\ UNCHANGED submitted
  BY DEF IInv, TypeOK, PredicateKnown, Pop, Goes
<1>2. Taken' = Taken + 1 /\ Taken \in Nat /\ Taken' <= Len(submitted)
  BY <1>1 DEF IInv, Taken, EachTaskOnce
<1>3. tasks[1] = submitted[Taken']
  BY <1>1, <1>2 DEF IInv, EachTaskOnce
<1>. QED  BY <1>1, <1>2, <1>3

LEMMA PopInv ==
  ASSUME IInv, NEW w \in Workers, Pop(w)
  PROVE  IInv'
<1>0. /\ tasks' \in Seq(Tasks)
      /\ Len(tasks') = Len(tasks) - 1 /\ Len(tasks) \in Nat \ {0} /\ Len(submitted) \in Nat
      /\ \A i \in 1..Len(tasks') : tasks'[i] = tasks[i + 1]
      /\ func' = [func EXCEPT ![w] = tasks[1]] /\ tasks[1] \in Tasks
      /\ UNCHANGED submitted
      /\ Taken' = Taken + 1 /\ Taken \in Nat /\ Taken' <= Len(submitted)
      /\ tasks[1] = submitted[Taken']
  BY PopFacts
<1>1. DistinctTasks'
  BY <1>0 DEF IInv, DistinctTasks
<1>2. EachTaskOnce'
  <2>1. \A i \in 1..Len(tasks') : tasks'[i] = submitted'[Taken' + i]
    <3>. SUFFICES ASSUME NEW i \in 1..Len(tasks') PROVE tasks'[i] = submitted'[Taken' + i]
      OBVIOUS
    <3>0. /\ Len(tasks') = Len(tasks) - 1 /\ Len(tasks) \in Nat \ {0}
          /\ Taken' = Taken + 1 /\ Taken \in Nat
      BY <1>0
    <3>1. i + 1 \in 1..Len(tasks) /\ Taken + (i + 1) = Taken' + i
      BY <3>0
    <3>. QED  BY <1>0, <3>1 DEF IInv, EachTaskOnce
  <2>2. \A v \in Workers : func'[v] # NoTask => \E i \in 1..Taken' : func'[v] = submitted'[i]
    <3>. SUFFICES ASSUME NEW v \in Workers, func'[v] # NoTask
                  PROVE  \E i \in 1..Taken' : func'[v] = submitted'[i]
      OBVIOUS
    <3>1. CASE v = w
      <4>1. func'[v] = submitted'[Taken']
        BY <1>0, <3>1 DEF IInv, TypeOK
      <4>2. Taken' \in 1..Taken'
        BY <1>0
      <4>. QED  BY <4>1, <4>2
    <3>2. CASE v # w
      <4>1. func'[v] = func[v]
        BY <1>0, <3>2 DEF IInv, TypeOK
      <4>2. PICK i \in 1..Taken : func[v] = submitted[i]
        BY <4>1 DEF IInv, EachTaskOnce
      <4>3. i \in 1..Taken'
        BY <1>0, <4>2
      <4>. QED  BY <1>0, <4>1, <4>2, <4>3
    <3>. QED  BY <3>1, <3>2
  <2>3. \A v \in Workers : func[v] # NoTask => func[v] # tasks[1]
    <3>. SUFFICES ASSUME NEW v \in Workers, func[v] # NoTask, func[v] = tasks[1] PROVE FALSE
      OBVIOUS
    <3>1. PICK i \in 1..Taken : func[v] = submitted[i]
      BY DEF IInv, EachTaskOnce
    <3>2. i \in 1..Len(submitted) /\ Taken' \in 1..Len(submitted) /\ i # Taken'
      BY <1>0 DEF Taken
    <3>. QED  BY <1>0, <3>1, <3>2 DEF IInv, DistinctTasks
  <2>4. \A u, v \in Workers : func'[u] = func'[v] /\ func'[u] # NoTask => u = v
    BY <1>0, <2>3 DEF IInv, TypeOK, EachTaskOnce
  <2>. QED  BY <1>0, <2>1, <2>2, <2>4 DEF EachTaskOnce, IInv
<1>3. TypeOK'
  BY <1>0, TaskManagerAssumption DEF IInv, TypeOK, Pop, Goes
<1>4. MutexHeld'
  BY TaskManagerAssumption DEF IInv, TypeOK, MutexHeld, Pop, Goes
<1>5. TaskInHand'
  BY <1>0, TaskManagerAssumption DEF IInv, TypeOK, TaskInHand, Pop, Goes
<1>6. PredicateKnown'
  <2>1. \A v \in Workers : at'[v] \notin {"block", "check", "pop"}
    BY TaskManagerAssumption DEF IInv, TypeOK, MutexHeld, Pop, Goes
  <2>. QED  BY <2>1 DEF PredicateKnown
<1>7. StopKnown'
  BY TaskManagerAssumption DEF IInv, TypeOK, StopKnown, Pop, Goes
<1>. QED  BY <1>1, <1>2, <1>3, <1>4, <1>5, <1>6, <1>7 DEF IInv

LEMMA ReturnInv ==
  ASSUME IInv, NEW w \in Workers, Return(w)
  PROVE  IInv'
<1>1. func' = [func EXCEPT ![w] = NoTask] /\ UNCHANGED <<tasks, submitted>>
  BY DEF Return
<1>2. DistinctTasks' /\ EachTaskOnce'
  BY <1>1 DEF IInv, TypeOK, DistinctTasks, EachTaskOnce, Taken
<1>3. TypeOK'
  BY TaskManagerAssumption DEF IInv, TypeOK, Return, Goes
<1>4. MutexHeld'
  BY DEF IInv, TypeOK, MutexHeld, Return, Goes
<1>5. TaskInHand'
  BY DEF IInv, TypeOK, TaskInHand, Return, Goes
<1>6. PredicateKnown'
  BY DEF IInv, TypeOK, PredicateKnown, Return, Goes
<1>7. StopKnown'
  BY TaskManagerAssumption DEF IInv, TypeOK, StopKnown, Return, Goes
<1>. QED  BY <1>2, <1>3, <1>4, <1>5, <1>6, <1>7 DEF IInv

\* No step breaks the invariant.
LEMMA NextInv == IInv /\ [Next]_vars => IInv'
<1>. SUFFICES ASSUME IInv, [Next]_vars PROVE IInv'
  OBVIOUS
<1>1. ASSUME NEW w \in Workers,
             StartThread(w) \/ WorkerStep(w) \/ SpuriousWakeup(w) \/ Throw(w)
      PROVE  IInv'
  BY <1>1, StartThreadInv, LockInv, TestInv, BlockInv, CheckInv, PopInv, UnlockInv,
     ReturnInv, SpuriousWakeupInv, ThrowInv DEF WorkerStep
<1>2. ASSUME NEW th \in Threads, NotifyOne(th) \/ \E t \in Tasks : Push(th, t)
      PROVE  IInv'
  BY <1>2, NotifyOneInv, PushInv
<1>3. CASE OwnerStep \/ Destroy
  BY <1>3, ConstructedInv, StopSeenInv, NotifyAllInv, JoinInv, DestroyInv DEF OwnerStep
<1>4. CASE UNCHANGED vars
  BY <1>4 DEF vars, IInv, TypeOK, MutexHeld, DistinctTasks, TaskInHand, PredicateKnown,
              StopKnown, EachTaskOnce, Taken
<1>. QED  BY <1>1, <1>2, <1>3, <1>4 DEF Next

\* In every reachable state the invariant holds (TaskManager.hpp:45-99).
THEOREM Invariance == Spec => []IInv
  BY InitInv, NextInv, PTL DEF Spec

\* front() and pop() (lines 55-56) never meet an empty queue.
THEOREM NeverPopsEmpty == Spec => []NoEmptyPop
<1>1. IInv => NoEmptyPop
  BY DEF IInv, PredicateKnown, NoEmptyPop
<1>. QED  BY <1>1, Invariance, PTL

\* A task that addTask pushed is taken by one thread at most and is then no longer
\* queued, and tasks leave the queue in the order in which they were added.
THEOREM TasksRunOnce == Spec => []EachTaskOnce
<1>1. IInv => EachTaskOnce
  BY DEF IInv
<1>. QED  BY <1>1, Invariance, PTL

-----------------------------------------------------------------------------
\* Every queued task has a thread that was woken for it

\* The threads that are awake for the queue are finitely many.
LEMMA AwakeFinite ==
  ASSUME IsFiniteSet(Threads)
  PROVE  /\ IsFiniteSet(Looking) /\ Cardinality(Looking) \in Nat
         /\ IsFiniteSet(Notifying) /\ Cardinality(Notifying) \in Nat
<1>1. Looking \subseteq Threads /\ Notifying \subseteq Threads
  BY DEF Looking, Notifying
<1>. QED  BY <1>1, FS_Subset, FS_CardinalityType

\* A step after which as many threads are awake, and no more tasks are queued.
LEMMA AwakeGrows ==
  ASSUME IsFiniteSet(Threads), IInv, IInv', EnoughAwake,
         Looking \subseteq Looking', Notifying \subseteq Notifying',
         UNCHANGED tasks, Asleep' \subseteq Asleep, stopped => stopped'
  PROVE  EnoughAwake'
<1>1. /\ IsFiniteSet(Looking') /\ Cardinality(Looking') \in Nat
      /\ IsFiniteSet(Notifying') /\ Cardinality(Notifying') \in Nat
  <2>1. Looking' \subseteq Threads /\ Notifying' \subseteq Threads
    BY DEF Looking, Notifying
  <2>. QED  BY <2>1, FS_Subset, FS_CardinalityType
<1>2. Cardinality(Looking) <= Cardinality(Looking')
      /\ Cardinality(Notifying) <= Cardinality(Notifying')
  BY <1>1, FS_Subset
<1>3. Len(tasks) \in Nat
  BY DEF IInv, TypeOK
<1>. QED  BY <1>1, <1>2, <1>3, AwakeFinite DEF EnoughAwake

LEMMA AwakeStep ==
  ASSUME IsFiniteSet(Threads), IInv, IInv', EnoughAwake, [Next]_vars
  PROVE  EnoughAwake'
<1>0. /\ IsFiniteSet(Looking') /\ Cardinality(Looking') \in Nat
      /\ IsFiniteSet(Notifying') /\ Cardinality(Notifying') \in Nat
  <2>1. Looking' \subseteq Threads /\ Notifying' \subseteq Threads
    BY DEF Looking, Notifying
  <2>. QED  BY <2>1, FS_Subset, FS_CardinalityType
<1>1. ASSUME NEW w \in Workers,
             \/ StartThread(w) \/ Lock(w) \/ Unlock(w) \/ Return(w) \/ SpuriousWakeup(w)
             \/ Test(w) /\ at'[w] = "check"
             \/ Check(w) /\ ~stopped
      PROVE  EnoughAwake'
  <2>1. /\ Looking \subseteq Looking' /\ Notifying \subseteq Notifying'
        /\ UNCHANGED <<tasks, stopped>> /\ Asleep' \subseteq Asleep
    BY <1>1 DEF IInv, TypeOK, Looking, Notifying, Asleep, Goes, StartThread, Lock, Unlock,
               Return, SpuriousWakeup, Test, Check
  <2>. QED  BY <2>1, AwakeGrows
<1>2. ASSUME NEW w \in Workers,
             Block(w) \/ (Test(w) /\ at'[w] # "check")
      PROVE  EnoughAwake'
  <2>1. tasks' = <<>>
    BY <1>2 DEF IInv, TypeOK, PredicateKnown, Goes, Block, Test
  <2>2. Len(tasks') = 0
    BY <2>1
  <2>. QED  BY <1>0, <2>2 DEF EnoughAwake
<1>3. ASSUME NEW w \in Workers, Check(w), stopped
      PROVE  EnoughAwake'
  BY <1>3 DEF Check, EnoughAwake
<1>4. ASSUME NEW w \in Workers, Pop(w)
      PROVE  EnoughAwake'
  <2>1. w \in Looking /\ Looking' = Looking \ {w} /\ Notifying' = Notifying
    BY <1>4 DEF IInv, TypeOK, Looking, Notifying, Pop, Goes
  <2>2. Cardinality(Looking') = Cardinality(Looking) - 1
    BY <2>1, AwakeFinite, FS_RemoveElement
  <2>3. Len(tasks') = Len(tasks) - 1 /\ Len(tasks) \in Nat
    BY <1>4 DEF IInv, TypeOK, PredicateKnown, Pop, Goes
  <2>4. Asleep' = Asleep /\ stopped' = stopped
    BY <1>4 DEF IInv, TypeOK, Asleep, Pop, Goes
  <2>. QED  BY <2>1, <2>2, <2>3, <2>4, AwakeFinite DEF EnoughAwake
<1>5. ASSUME NEW th \in Threads, NEW t \in Tasks, Push(th, t)
      PROVE  EnoughAwake'
  <2>1. th \notin Notifying /\ Notifying' = Notifying \cup {th} /\ Looking' = Looking
    BY <1>5, TaskManagerAssumption DEF IInv, TypeOK, Looking, Notifying, Push, CallsAdd
  <2>2. Cardinality(Notifying') = Cardinality(Notifying) + 1
    BY <2>1, AwakeFinite, FS_AddElement
  <2>3. Len(tasks') = Len(tasks) + 1 /\ Len(tasks) \in Nat
    BY <1>5 DEF IInv, TypeOK, Push
  <2>4. Asleep' \subseteq Asleep /\ stopped' = stopped
    BY <1>5, TaskManagerAssumption DEF IInv, TypeOK, Asleep, Push
  <2>. QED  BY <2>1, <2>2, <2>3, <2>4, AwakeFinite DEF EnoughAwake
<1>6. ASSUME NEW th \in Threads, NotifyOne(th)
      PROVE  EnoughAwake'
  <2>0. th \in Notifying /\ UNCHANGED <<tasks, stopped>>
    BY <1>6 DEF Notifying, NotifyOne
  <2>1. CASE Asleep = {} /\ at' = AddReturns(th)
    <3>1. Asleep' = {}
      BY <2>1 DEF IInv, TypeOK, Asleep, AddReturns
    <3>. QED  BY <3>1 DEF EnoughAwake
  <2>2. ASSUME NEW w \in Asleep, at' = [AddReturns(th) EXCEPT ![w] = "lock"]
        PROVE  EnoughAwake'
    <3>1. /\ w \notin Looking /\ Looking' = Looking \cup {w}
          /\ Notifying' = Notifying \ {th}
      BY <2>0, <2>2, TaskManagerAssumption
         DEF IInv, TypeOK, Looking, Notifying, Asleep, AddReturns
    <3>2. /\ Cardinality(Looking') = Cardinality(Looking) + 1
          /\ Cardinality(Notifying') = Cardinality(Notifying) - 1
      BY <2>0, <3>1, AwakeFinite, FS_AddElement, FS_RemoveElement
    <3>3. Len(tasks) \in Nat
      BY DEF IInv, TypeOK
    <3>. QED  BY <2>0, <2>2, <3>2, <3>3, AwakeFinite DEF EnoughAwake
  <2>. QED  BY <1>6, <2>1, <2>2 DEF NotifyOne
<1>7. ASSUME NEW w \in Workers, Throw(w)
      PROVE  EnoughAwake'
  <2>1. Asleep' = {}
    BY <1>7 DEF Throw, Asleep
  <2>. QED  BY <2>1 DEF EnoughAwake
<1>8. CASE NotifyAll
  <2>1. Asleep' = {}
    BY <1>8 DEF NotifyAll, Asleep
  <2>. QED  BY <2>1 DEF EnoughAwake
<1>9. CASE Constructed \/ StopSeen \/ Join \/ Destroy \/ UNCHANGED vars
  <2>1. UNCHANGED <<at, tasks>> /\ (stopped => stopped')
    BY <1>9 DEF Constructed, StopSeen, Join, Destroy, vars
  <2>2. Looking' = Looking /\ Notifying' = Notifying /\ Asleep' = Asleep
    BY <2>1 DEF Looking, Notifying, Asleep
  <2>. QED  BY <2>1, <2>2, AwakeGrows
<1>10. ASSUME NEW w \in Workers,
              StartThread(w) \/ WorkerStep(w) \/ SpuriousWakeup(w) \/ Throw(w)
       PROVE  EnoughAwake'
  <2>1. CASE Check(w)
    BY <1>1, <1>3, <2>1
  <2>2. CASE Test(w)
    BY <1>1, <1>2, <2>2
  <2>3. CASE StartThread(w) \/ Lock(w) \/ Unlock(w) \/ Return(w) \/ SpuriousWakeup(w)
    BY <1>1, <2>3
  <2>4. CASE Block(w)
    BY <1>2, <2>4
  <2>. QED  BY <1>4, <1>7, <1>10, <2>1, <2>2, <2>3, <2>4 DEF WorkerStep
<1>11. ASSUME NEW th \in Threads, NotifyOne(th) \/ \E t \in Tasks : Push(th, t)
       PROVE  EnoughAwake'
  BY <1>5, <1>6, <1>11
<1>. QED  BY <1>8, <1>9, <1>10, <1>11 DEF Next, OwnerStep

\* While a thread sleeps no task waits for a busy one: each queued task has a
\* thread that is woken for it, or a call of addTask that is about to notify.
THEOREM TasksFindThreads ==
  ASSUME IsFiniteSet(Threads)
  PROVE  Spec => []EnoughAwake
<1>1. Init => EnoughAwake
  BY TaskManagerAssumption DEF Init, EnoughAwake, Asleep
<1>2. IInv /\ IInv' /\ EnoughAwake /\ [Next]_vars => EnoughAwake'
  BY AwakeStep
<1>. QED  BY <1>1, <1>2, Invariance, PTL DEF Spec

-----------------------------------------------------------------------------
\* The pool never waits for itself

LEMMA HolderStep ==
  ASSUME IInv, HolderInside, [Next]_vars
  PROVE  HolderInside'
<1> USE DEF HolderInside
<1>0. TypeOK /\ MutexHeld
  BY DEF IInv
<1>1. ASSUME NEW w \in Workers, StartThread(w) \/ SpuriousWakeup(w) \/ Throw(w)
      PROVE  HolderInside'
  BY <1>0, <1>1 DEF TypeOK, StartThread, SpuriousWakeup, Throw, Goes
<1>2. ASSUME NEW w \in Workers, Lock(w) \/ Test(w) \/ Block(w) \/ Check(w)
      PROVE  HolderInside'
  BY <1>0, <1>2, TaskManagerAssumption DEF TypeOK, MutexHeld, Lock, Test, Block, Check, Goes
<1>3. ASSUME NEW w \in Workers, Pop(w) \/ Unlock(w) \/ Return(w)
      PROVE  HolderInside'
  BY <1>0, <1>3, TaskManagerAssumption DEF TypeOK, MutexHeld, Pop, Unlock, Return, Goes
<1>4. ASSUME NEW th \in Threads, NotifyOne(th)
      PROVE  HolderInside'
  BY <1>0, <1>4 DEF TypeOK, NotifyOne, AddReturns, Asleep
<1>5. ASSUME NEW th \in Threads, NEW t \in Tasks, Push(th, t)
      PROVE  HolderInside'
  BY <1>5 DEF Push
<1>6. CASE OwnerStep \/ Destroy \/ UNCHANGED vars
  BY <1>0, <1>6 DEF TypeOK, OwnerStep, Constructed, StopSeen, NotifyAll, Join, Destroy, vars, Asleep
<1>. QED  BY <1>1, <1>2, <1>3, <1>4, <1>5, <1>6 DEF Next, WorkerStep

\* The block of lines 47-57 is always left through an unlock, also by the return
\* in line 52: a thread that locked the mutex is inside.
THEOREM MutexIsReleased == Spec => []HolderInside
<1>1. Init => HolderInside
  BY DEF Init, HolderInside
<1>2. IInv /\ HolderInside /\ [Next]_vars => HolderInside'
  BY HolderStep
<1>. QED  BY <1>1, <1>2, Invariance, PTL DEF Spec

\* From where DestructorEnds starts, a destructor whose store was seen while no
\* thread stood between its test and its sleep, the program only goes on to
\* states where nobody sleeps or will sleep: the wake-up that the code can lose
\* between lines 67 and 68 is lost in no other way.
THEOREM StopReachesAll == Spec => NobodySleepsAgain
<1>1. ASSUME IInv, NobodySleeps, [Next]_vars
      PROVE  NobodySleeps' \/ owner' = "terminated"
  <2>0. /\ at \in [Threads -> WorkerPlaces \cup CallerPlaces] /\ stopped
        /\ owner \in {"notifying", "joining", "destroyed"}
        /\ \A w \in Workers : at[w] # "block"
        /\ owner # "notifying" => \A w \in Workers : at[w] # "asleep"
    BY <1>1 DEF IInv, TypeOK, NobodySleeps, Asleep
  <2>1. SUFFICES ASSUME owner' # "terminated"
                 PROVE  NobodySleeps'
    OBVIOUS
  <2>2. ASSUME NEW w \in Workers, StartThread(w) \/ WorkerStep(w) \/ SpuriousWakeup(w)
        PROVE  NobodySleeps'
    BY <2>0, <2>2 DEF NobodySleeps, Asleep, Goes, StartThread, WorkerStep, SpuriousWakeup,
                      Lock, Test, Block, Check, Pop, Unlock, Return
  <2>3. ASSUME NEW th \in Threads, NotifyOne(th)
        PROVE  NobodySleeps'
    BY <2>0, <2>3 DEF NobodySleeps, Asleep, NotifyOne, AddReturns
  <2>4. ASSUME NEW th \in Threads, NEW t \in Tasks, Push(th, t)
        PROVE  NobodySleeps'
    BY <2>0, <2>4 DEF NobodySleeps, Asleep, Push
  <2>5. CASE OwnerStep \/ Destroy \/ UNCHANGED vars
    BY <2>0, <2>5 DEF NobodySleeps, Asleep, OwnerStep, Constructed, StopSeen, NotifyAll, Join,
                      Destroy, vars
  <2>6. ~\E w \in Workers : Throw(w)
    BY <2>1 DEF Throw
  <2>. QED  BY <1>1, <2>2, <2>3, <2>4, <2>5, <2>6 DEF Next
<1>2. IInv /\ [Next]_vars => [NobodySleeps => NobodySleeps' \/ owner' = "terminated"]_vars
  BY <1>1
<1>. QED  BY <1>2, Invariance, PTL DEF Spec, NobodySleepsAgain

-----------------------------------------------------------------------------
\* TaskManager implements TaskPool

LEMMA PoolInit == Init => Pool!Init
<1>. SUFFICES ASSUME Init PROVE Pool!Init
  OBVIOUS
<1>1. Taken = 0
  BY DEF Init, Taken
<1>. QED  BY <1>1 DEF Init, Pool!Init

\* A step that moves no task closes the pool, or the pool does not notice it.
LEMMA PoolQuiet ==
  ASSUME UNCHANGED <<func, tasks, submitted>>,
         (owner' = "destroyed") = (owner = "destroyed"),
         (stopped /\ Taking = {}) => (stopped' /\ Taking' = {})
  PROVE  [Pool!Next]_(Pool!vars)
<1>1. UNCHANGED Taken
  BY DEF Taken
<1>. QED  BY <1>1 DEF Pool!Next, Pool!vars, Pool!Close

LEMMA PoolStep ==
  ASSUME Workers # {}, IInv, IInv', [Next]_vars
  PROVE  [Pool!Next]_(Pool!vars)
<1>1. ASSUME NEW w \in Workers,
             \/ StartThread(w) \/ Lock(w) \/ Test(w) \/ Block(w) \/ Check(w) \/ Unlock(w)
             \/ SpuriousWakeup(w)
      PROVE  [Pool!Next]_(Pool!vars)
  <2>1. UNCHANGED <<func, tasks, submitted, stopped, owner>>
    BY <1>1 DEF StartThread, Lock, Test, Block, Check, Unlock, SpuriousWakeup
  <2>2. stopped => Taking' \subseteq Taking
    BY <1>1 DEF IInv, TypeOK, Taking, Goes, StartThread, Lock, Test, Block, Check, Unlock,
                SpuriousWakeup
  <2>. QED  BY <2>1, <2>2, PoolQuiet
<1>2. ASSUME NEW w \in Workers, Throw(w)
      PROVE  [Pool!Next]_(Pool!vars)
  <2>1. UNCHANGED <<func, tasks, submitted, stopped>> /\ Taking' = {}
    BY <1>2 DEF Throw, Taking
  <2>2. owner # "destroyed" /\ owner' # "destroyed"
    BY <1>2 DEF IInv, StopKnown, Throw
  <2>. QED  BY <2>1, <2>2, PoolQuiet
<1>3. ASSUME NEW w \in Workers, Pop(w)
      PROVE  [Pool!Next]_(Pool!vars)
  <2>1. Taken' = Taken + 1 /\ Taken < Len(submitted) /\ func' = [func EXCEPT ![w] = submitted[Taken']]
    BY <1>3, PopFacts
  <2>2. func[w] = NoTask
    BY <1>3 DEF IInv, TaskInHand, Pop, Goes
  <2>3. w \in Taking /\ w \in Taking'
    BY <1>3 DEF IInv, TypeOK, Taking, Pop, Goes
  <2>4. UNCHANGED <<submitted, owner>>
    BY <1>3 DEF Pop
  <2>5. Pool!StartNext(w)
    BY <2>1, <2>2, <2>3, <2>4 DEF Pool!StartNext
  <2>. QED  BY <2>5 DEF Pool!Next
<1>4. ASSUME NEW w \in Workers, Return(w)
      PROVE  [Pool!Next]_(Pool!vars)
  <2>1. func[w] # NoTask
    BY <1>4 DEF IInv, TaskInHand, Return, Goes
  <2>2. Taking' = Taking /\ Taken' = Taken
    BY <1>4 DEF IInv, TypeOK, Taking, Taken, Return, Goes
  <2>3. Pool!Finish(w)
    BY <1>4, <2>1, <2>2 DEF Pool!Finish, Return
  <2>. QED  BY <2>3 DEF Pool!Next
<1>5. ASSUME NEW th \in Threads, NEW t \in Tasks, Push(th, t)
      PROVE  [Pool!Next]_(Pool!vars)
  <2>1. owner # "destroyed"
    BY <1>5 DEF IInv, StopKnown, Push, CallsAdd
  <2>2. Taken' = Taken
    BY <1>5 DEF IInv, TypeOK, Taken, Push
  <2>3. Taking' = Taking
    BY <1>5, TaskManagerAssumption DEF IInv, TypeOK, Taking, Push, CallsAdd
  <2>4. Pool!Add(t)
    BY <1>5, <2>1, <2>2, <2>3 DEF Pool!Add, Push
  <2>. QED  BY <2>4 DEF Pool!Next
<1>6. ASSUME NEW th \in Threads, NotifyOne(th)
      PROVE  [Pool!Next]_(Pool!vars)
  <2>1. Taking' \subseteq Taking
    BY <1>6, TaskManagerAssumption DEF IInv, TypeOK, Taking, NotifyOne, AddReturns, Asleep
  <2>. QED  BY <1>6, <2>1, PoolQuiet DEF NotifyOne
<1>7. CASE Constructed \/ StopSeen \/ NotifyAll \/ Destroy \/ UNCHANGED vars
  <2>1. Taking' = Taking
    BY <1>7, TaskManagerAssumption
       DEF IInv, TypeOK, Taking, Asleep, Constructed, StopSeen, NotifyAll, Destroy, vars
  <2>2. UNCHANGED <<func, tasks, submitted>> /\ (stopped => stopped')
    BY <1>7 DEF Constructed, StopSeen, NotifyAll, Destroy, vars
  <2>3. (owner' = "destroyed") = (owner = "destroyed")
    BY <1>7 DEF Constructed, StopSeen, NotifyAll, Destroy, vars
  <2>. QED  BY <2>1, <2>2, <2>3, PoolQuiet
<1>8. CASE Join
  <2>1. stopped /\ Taking = {}
    BY <1>8 DEF IInv, StopKnown, Taking, Join
  <2>2. \A w \in Workers : func[w] = NoTask
    BY <1>8 DEF IInv, TaskInHand, Join
  <2>3. Taking' = Taking /\ Taken' = Taken
    BY <1>8 DEF Taking, Taken, Join
  <2>4. Pool!End
    BY <1>8, <2>1, <2>2, <2>3 DEF Pool!End, Join
  <2>. QED  BY <2>4 DEF Pool!Next
<1>9. ASSUME NEW w \in Workers,
             StartThread(w) \/ WorkerStep(w) \/ SpuriousWakeup(w) \/ Throw(w)
      PROVE  [Pool!Next]_(Pool!vars)
  BY <1>1, <1>2, <1>3, <1>4, <1>9 DEF WorkerStep
<1>10. ASSUME NEW th \in Threads, NotifyOne(th) \/ \E t \in Tasks : Push(th, t)
       PROVE  [Pool!Next]_(Pool!vars)
  BY <1>5, <1>6, <1>10
<1>. QED  BY <1>7, <1>8, <1>9, <1>10 DEF Next, OwnerStep

\* A TaskManager with at least one thread is a TaskPool: tasks start in the order
\* of addTask, none starts once stopped_ is seen and the last pop before it is
\* over, and the destructor (lines 65-72) ends after the last running task.
THEOREM Implementation ==
  ASSUME Workers # {}
  PROVE  Spec => ImplementsPool
<1>1. IInv /\ IInv' /\ [Next]_vars => [Pool!Next]_(Pool!vars)
  BY PoolStep
<1>. QED  BY <1>1, PoolInit, Invariance, PTL DEF Spec, ImplementsPool, Pool!Spec

=============================================================================
