---------------------------- MODULE SimpleLogger ----------------------------
(***************************************************************************)
(* The class SimpleLogger: one object that all threads share.  log writes  *)
(* a line to the console, logToFile appends one to the file that has the   *)
(* name of the moment.  A line is a time stamp with a tag (its head) and   *)
(* then the message (its tail): threads run between any two steps.         *)
(***************************************************************************)
EXTENDS Sequences, Naturals

CONSTANTS
  Threads,    \* the threads that log
  Names,      \* file names
  FirstName,  \* "log.txt"
  Console,    \* std::cout
  Nobody,
  MaxCalls,   \* bound: the calls of each thread
  MaxClock    \* bound: the seconds that the clock counts

ASSUME SimpleLoggerAssumption ==
  /\ FirstName \in Names
  /\ Console \notin Names
  /\ Nobody \notin Threads

Sinks == Names \cup {Console}

VARIABLES
  filename,   \* filename_
  mtx,        \* the thread that holds mtx_
  clock,      \* second_clock::local_time(); bound: it never goes back
  thread,     \* where each thread is, and its data
  written     \* what has reached each sink

vars == <<filename, mtx, clock, thread, written>>

Operations == {"setFileName", "getFileName", "log", "logToFile"}
\* Places of a thread that holds the mutex; the first part of an operation is named after it.
Locked == Operations \cup {"head", "tail", "unlock"}

Pieces == [part : {"head", "tail"}, of : Threads, call : Nat, stamp : Nat]

TypeOK ==
  /\ filename \in Names
  /\ mtx \in Threads \cup {Nobody}
  /\ clock \in Nat
  /\ thread \in [Threads -> [at : {"idle", "lock"} \cup Locked, op : Operations,
                             sink : Sinks, call : Nat, stamp : Nat]]
  /\ written \in [Sinks -> Seq(Pieces)]

Init ==
  /\ filename = FirstName
  /\ mtx = Nobody
  /\ clock = 0
  /\ thread = [t \in Threads |-> [at |-> "idle", op |-> "log", sink |-> Console,
                                  call |-> 0, stamp |-> 0]]
  /\ written = [s \in Sinks |-> <<>>]

Moves(t, here, there) ==
  thread[t].at = here /\ thread' = [thread EXCEPT ![t].at = there]
-----------------------------------------------------------------------------
\* setFileName comes with a name; the others find their sink, or their result, later.
Arguments(op) == IF op = "setFileName" THEN Names ELSE {Console}

Call(t) ==
  /\ thread[t].at = "idle"
  /\ thread[t].call < MaxCalls
  /\ \E op \in Operations : \E s \in Arguments(op) :
       thread' = [thread EXCEPT ![t] = [at |-> "lock", op |-> op, sink |-> s,
                                        call |-> @.call + 1, stamp |-> 0]]
  /\ UNCHANGED <<filename, mtx, clock, written>>

\* Variant: the unique_lock is a temporary, that unlocks at the end of its statement.
LockTemporary(t) ==
  /\ mtx = Nobody
  /\ Moves(t, "lock", thread[t].op)
  /\ UNCHANGED <<filename, mtx, clock, written>>

\* Variant: setFileName does not lock.
LockUnlessSetting(t) ==
  /\ mtx = Nobody \/ thread[t].op = "setFileName"
  /\ mtx' = IF thread[t].op = "setFileName" THEN mtx ELSE t
  /\ Moves(t, "lock", thread[t].op)
  /\ UNCHANGED <<filename, clock, written>>

\* std::unique_lock<std::mutex> lock(mtx_)
Lock(t) ==
  /\ mtx = Nobody
  /\ mtx' = t
  /\ Moves(t, "lock", thread[t].op)
  /\ UNCHANGED <<filename, clock, written>>

SetFileName(t) ==
  /\ Moves(t, "setFileName", "unlock")
  /\ filename' = thread[t].sink
  /\ UNCHANGED <<mtx, clock, written>>

GetFileName(t) ==
  /\ thread[t].at = "getFileName"
  /\ thread' = [thread EXCEPT ![t].at = "unlock", ![t].sink = filename]
  /\ UNCHANGED <<filename, mtx, clock, written>>

\* Variant: the mutex is locked by hand, and not unlocked by the early return.
OpenFailsLocked(t) ==
  /\ Moves(t, "logToFile", "idle")
  /\ UNCHANGED <<filename, mtx, clock, written>>

\* Variant: log also drops its message when its stream is not good.
OpenFailsOfBoth(t) ==
  /\ Moves(t, "logToFile", "unlock") \/ Moves(t, "log", "unlock")
  /\ UNCHANGED <<filename, mtx, clock, written>>

\* ofs.is_open() is false: the message is dropped.
OpenFails(t) ==
  /\ Moves(t, "logToFile", "unlock")
  /\ UNCHANGED <<filename, mtx, clock, written>>

\* The sink is chosen, then the time is read: the first operands of the output expression.
Stamp(t) ==
  /\ thread[t].at \in {"log", "logToFile"}
  /\ thread' = [thread EXCEPT ![t].at = "head", ![t].stamp = clock,
                              ![t].sink = IF thread[t].at = "log" THEN Console ELSE filename]
  /\ UNCHANGED <<filename, mtx, clock, written>>

Write(t, part) ==
  written' = [written EXCEPT ![thread[t].sink] =
                Append(@, [part |-> part, of |-> t, call |-> thread[t].call,
                           stamp |-> thread[t].stamp])]

WriteHead(t) ==
  /\ Moves(t, "head", "tail")
  /\ Write(t, "head")
  /\ UNCHANGED <<filename, mtx, clock>>

\* The message and std::endl; a file is closed with it.
WriteTail(t) ==
  /\ Moves(t, "tail", "unlock")
  /\ Write(t, "tail")
  /\ UNCHANGED <<filename, mtx, clock>>

\* ~unique_lock
Unlock(t) ==
  /\ mtx' = Nobody
  /\ Moves(t, "unlock", "idle")
  /\ UNCHANGED <<filename, clock, written>>

Tick ==
  /\ clock < MaxClock
  /\ clock' = clock + 1
  /\ UNCHANGED <<filename, mtx, thread, written>>

Returns(t) ==
  Lock(t) \/ SetFileName(t) \/ GetFileName(t) \/ OpenFails(t) \/ Stamp(t)
    \/ WriteHead(t) \/ WriteTail(t) \/ Unlock(t)

Next == Tick \/ \E t \in Threads : Call(t) \/ Returns(t)

Spec == Init /\ [][Next]_vars
-----------------------------------------------------------------------------
\* A thread inside an operation runs on, and a free mutex is taken by somebody who
\* waits for it; std::mutex promises no order among those.
Fairness == \A t \in Threads : WF_vars(Returns(t))

FairSpec == Spec /\ Fairness
-----------------------------------------------------------------------------
\* The tail of the line that the head begins.
Completes(tail, head) == head.part = "head" /\ tail = [head EXCEPT !.part = "tail"]

\* A tail follows its head at once; a head without its tail is the last piece, of
\* the thread that is writing.
Whole(s, i) ==
  LET piece == written[s][i] IN
    IF piece.part = "tail" THEN i > 1 /\ Completes(piece, written[s][i - 1])
    ELSE IF i < Len(written[s]) THEN Completes(written[s][i + 1], piece)
    ELSE thread[piece.of].at = "tail" /\ thread[piece.of].sink = s

\* Every line is whole, in every sink, however the calls of the threads interleave: what
\* the mutex around the output expressions of log and logToFile is for.
WholeLines == \A s \in Sinks : \A i \in 1..Len(written[s]) : Whole(s, i)

\* The lines of a sink are in the order of their time stamps: the time is read
\* with the mutex already held.
StampsAscend ==
  \A s \in Sinks : \A i, j \in 1..Len(written[s]) :
    i < j => written[s][i].stamp <= written[s][j].stamp

\* Once setFileName has taken effect nothing more reaches a file of another name, not
\* even the rest of a line that was begun before.
WrittenWhereNamed ==
  [][\A f \in Names : written'[f] # written[f] => filename = f]_vars

SamePart(p, q) == p.part = q.part /\ p.of = q.of /\ p.call = q.call

\* The line of a call of log is on the console when the call has returned.
OnConsole(t) ==
  \E i \in 1..Len(written[Console]) :
    SamePart(written[Console][i], [part |-> "tail", of |-> t, call |-> thread[t].call])

\* No call writes its line twice, or to two sinks; a thread's lines are in the order
\* of its calls; and log has written when it returns.  (logToFile may drop its line.)
EachCallOnce ==
  /\ \A s, u \in Sinks : \A i \in 1..Len(written[s]), j \in 1..Len(written[u]) :
       SamePart(written[s][i], written[u][j]) => s = u /\ i = j
  /\ \A s \in Sinks : \A i, j \in 1..Len(written[s]) :
       (i < j /\ written[s][i].of = written[s][j].of) =>
         written[s][i].call <= written[s][j].call
  /\ \A t \in Threads :
       (thread[t].at = "idle" /\ thread[t].op = "log" /\ thread[t].call > 0) => OnConsole(t)

\* A call returns, also that of a logToFile that cannot open its file.
CallsReturn == \A t \in Threads : thread[t].at # "idle" ~> thread[t].at = "idle"
-----------------------------------------------------------------------------
\* The mutex: its holder is the thread inside an operation.
MutexHeld == \A t \in Threads : thread[t].at \in Locked <=> mtx = t

\* What a thread at each place of an operation knows.
CallInv ==
  \A t \in Threads :
    /\ thread[t].at \in Operations => thread[t].at = thread[t].op
    /\ thread[t].at \in {"lock", "setFileName"} /\ thread[t].op = "setFileName" =>
         thread[t].sink \in Names
    /\ thread[t].at \in {"head", "tail"} => thread[t].sink \in {filename, Console}

\* No stamp is ahead of the clock, or of the stamp the writing thread has read.
StampInv ==
  /\ \A t \in Threads : thread[t].at = "head" => thread[t].stamp <= clock
  /\ \A s \in Sinks : \A i \in 1..Len(written[s]) :
       /\ written[s][i].stamp <= clock
       /\ \A t \in Threads :
            thread[t].at = "head" => written[s][i].stamp <= thread[t].stamp

\* The last piece of the sink that a thread has begun a line in.
LineInv ==
  \A t \in Threads : thread[t].at = "tail" =>
    LET line == written[thread[t].sink] IN
      /\ line # <<>>
      /\ line[Len(line)] = [part |-> "head", of |-> t, call |-> thread[t].call,
                            stamp |-> thread[t].stamp]

\* What has been written of the call that each thread is in.
Written(t, s, i) ==
  /\ written[s][i].call <= thread[t].call
  /\ thread[t].at \in {"lock", "head"} \cup Operations => written[s][i].call # thread[t].call
  /\ thread[t].at = "tail" /\ written[s][i].part = "tail" => written[s][i].call # thread[t].call

WrittenInv ==
  /\ \A s \in Sinks : \A i \in 1..Len(written[s]) : Written(written[s][i].of, s, i)
  /\ \A t \in Threads : thread[t].op = "log" =>
       /\ thread[t].at \in {"head", "tail"} => thread[t].sink = Console
       /\ thread[t].at = "unlock" => OnConsole(t)

IInv ==
  TypeOK /\ MutexHeld /\ CallInv /\ StampInv /\ LineInv /\ WholeLines /\ StampsAscend
=============================================================================
