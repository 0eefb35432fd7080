------------------------------ MODULE TaskPool ------------------------------
(***************************************************************************)
(* What a pool of threads promises: tasks start in the order in which they *)
(* were added, each at most once and at most one per thread; after the     *)
(* pool was closed no task starts; it ends only when the running tasks     *)
(* have.  How threads sleep, wake and lock is left to TaskManager.         *)
(***************************************************************************)
EXTENDS Sequences, Naturals

CONSTANTS Tasks, Threads, NoTask

VARIABLES
  added,     \* the tasks in the order in which they were added
  started,   \* how many of them were started
  running,   \* the task each thread runs, or NoTask
  closed,    \* no task starts any more
  ended      \* the pool is gone

vars == <<added, started, running, closed, ended>>

Init ==
  /\ added = <<>>
  /\ started = 0
  /\ running = [w \in Threads |-> NoTask]
  /\ closed = FALSE
  /\ ended = FALSE

Add(t) ==
  /\ ~ended
  /\ \A i \in 1..Len(added) : added[i] # t
  /\ added' = Append(added, t)
  /\ UNCHANGED <<started, running, closed, ended>>

StartNext(w) ==
  /\ ~closed
  /\ started < Len(added)
  /\ running[w] = NoTask
  /\ started' = started + 1
  /\ running' = [running EXCEPT ![w] = added[started']]
  /\ UNCHANGED <<added, closed, ended>>

Finish(w) ==
  /\ running[w] # NoTask
  /\ running' = [running EXCEPT ![w] = NoTask]
  /\ UNCHANGED <<added, started, closed, ended>>

Close ==
  /\ ~closed
  /\ closed' = TRUE
  /\ UNCHANGED <<added, started, running, ended>>

End ==
  /\ closed
  /\ ~ended
  /\ \A w \in Threads : running[w] = NoTask
  /\ ended' = TRUE
  /\ UNCHANGED <<added, started, running, closed>>

Next ==
  \/ \E t \in Tasks : Add(t)
  \/ \E w \in Threads : StartNext(w) \/ Finish(w)
  \/ Close
  \/ End

Spec == Init /\ [][Next]_vars
=============================================================================
