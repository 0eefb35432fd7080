------------------------- MODULE SimpleLoggerProofs -------------------------
(***************************************************************************)
(* Proofs about SimpleLogger, for any threads, file names and bounds: the  *)
(* inductive invariant, and from it that lines are whole and in the order  *)
(* of their time stamps and go to the file of the moment.                  *)
(***************************************************************************)
EXTENDS SimpleLogger, TLAPS

\* The steps that a thread takes by itself; they write nothing.
Quiet(t) ==
  Call(t) \/ Lock(t) \/ SetFileName(t) \/ GetFileName(t) \/ OpenFails(t)
    \/ Stamp(t) \/ Unlock(t)

\* The piece that Write adds.
Piece(t, part) ==
  [part |-> part, of |-> t, call |-> thread[t].call, stamp |-> thread[t].stamp]

LEMMA NextCases ==
  ASSUME [Next]_vars
  PROVE  \/ Tick \/ UNCHANGED vars
         \/ \E t \in Threads : Quiet(t) \/ WriteHead(t) \/ WriteTail(t)
BY DEF Next, Returns, Quiet

\* A quiet step leaves the other threads and all sinks alone.
LEMMA QuietFrame ==
  ASSUME TypeOK, NEW t \in Threads, Quiet(t)
  PROVE  /\ UNCHANGED <<clock, written>>
         /\ \A u \in Threads \ {t} : thread'[u] = thread[u]
BY DEF Quiet, Call, Lock, SetFileName, GetFileName, OpenFails, Stamp, Unlock, Moves, TypeOK

\* A write of t moves t and extends its sink by one piece.
LEMMA WriteFrame ==
  ASSUME TypeOK, NEW t \in Threads, NEW part \in {"head", "tail"}, Write(t, part)
  PROVE  /\ Piece(t, part) \in Pieces
         /\ written' \in [Sinks -> Seq(Pieces)]
         /\ \A s \in Sinks \ {thread[t].sink} : written'[s] = written[s]
         /\ written'[thread[t].sink] = Append(written[thread[t].sink], Piece(t, part))
<1>1. thread[t].sink \in Sinks /\ Piece(t, part) \in Pieces
  BY DEF TypeOK, Piece, Pieces
<1>2. written' = [written EXCEPT ![thread[t].sink] = Append(@, Piece(t, part))]
  BY DEF Write, Piece
<1>3. Append(written[thread[t].sink], Piece(t, part)) \in Seq(Pieces)
  BY <1>1 DEF TypeOK
<1> QED BY <1>1, <1>2, <1>3 DEF TypeOK

LEMMA PieceFields ==
  ASSUME NEW t, NEW part
  PROVE  /\ Piece(t, part).part = part /\ Piece(t, part).of = t
         /\ Piece(t, part).stamp = thread[t].stamp
BY DEF Piece

\* What a sequence is after an append.
LEMMA Appended ==
  ASSUME NEW S, NEW line \in Seq(S), NEW e \in S
  PROVE  /\ Append(line, e) \in Seq(S)
         /\ Len(Append(line, e)) = Len(line) + 1
         /\ Len(line) \in Nat
         /\ Append(line, e)[Len(line) + 1] = e
         /\ \A i \in 1..Len(line) : Append(line, e)[i] = line[i]
OBVIOUS
-----------------------------------------------------------------------------
LEMMA TypeStep ==
  ASSUME TypeOK, CallInv, [Next]_vars
  PROVE  TypeOK'
<1>1. CASE Tick
  BY <1>1 DEF Tick, TypeOK
<1>2. CASE UNCHANGED vars
  BY <1>2 DEF vars, TypeOK
<1>3. ASSUME NEW t \in Threads, Quiet(t)
      PROVE  TypeOK'
  <2>1. CASE Call(t)
    BY <2>1 DEF Call, Arguments, Operations, Locked, Sinks, TypeOK
  <2>2. CASE Lock(t)
    BY <2>2 DEF Lock, Moves, Locked, TypeOK
  <2>3. CASE SetFileName(t)
    <3>1. thread[t].at = "setFileName" /\ thread[t].op = "setFileName"
      BY <2>3 DEF SetFileName, Moves, CallInv, Operations
    <3>2. thread[t].sink \in Names
      BY <3>1 DEF CallInv
    <3>3. thread' \in [Threads -> [at : {"idle", "lock"} \cup Locked, op : Operations,
                                  sink : Sinks, call : Nat, stamp : Nat]]
      BY <2>3 DEF SetFileName, Moves, Locked, TypeOK
    <3> QED BY <2>3, <3>2, <3>3 DEF SetFileName, TypeOK
  <2>4. CASE GetFileName(t)
    <3> DEFINE after == [thread[t] EXCEPT !.at = "unlock", !.sink = filename]
    <3>1. after \in [at : {"idle", "lock"} \cup Locked, op : Operations, sink : Sinks,
                     call : Nat, stamp : Nat]
      BY DEF Locked, Sinks, TypeOK
    <3>2. thread' = [thread EXCEPT ![t] = after]
      BY <2>4 DEF GetFileName
    <3> QED BY <2>4, <3>1, <3>2 DEF GetFileName, TypeOK
  <2>5. CASE OpenFails(t)
    BY <2>5 DEF OpenFails, Moves, Locked, TypeOK
  <2>6. CASE Stamp(t)
    <3> DEFINE sink == IF thread[t].at = "log" THEN Console ELSE filename
               after == [thread[t] EXCEPT !.at = "head", !.stamp = clock, !.sink = sink]
    <3>1. sink \in Sinks
      BY DEF Sinks, TypeOK
    <3>2. after \in [at : {"idle", "lock"} \cup Locked, op : Operations, sink : Sinks,
                     call : Nat, stamp : Nat]
      BY <3>1 DEF Locked, TypeOK
    <3>3. thread' = [thread EXCEPT ![t] = after]
      BY <2>6 DEF Stamp
    <3> QED BY <2>6, <3>2, <3>3 DEF Stamp, TypeOK
  <2>7. CASE Unlock(t)
    BY <2>7 DEF Unlock, Moves, TypeOK
  <2> QED BY <1>3, <2>1, <2>2, <2>3, <2>4, <2>5, <2>6, <2>7 DEF Quiet
<1>4. ASSUME NEW t \in Threads, WriteHead(t) \/ WriteTail(t)
      PROVE  TypeOK'
  <2>1. written' \in [Sinks -> Seq(Pieces)]
    BY <1>4, WriteFrame DEF WriteHead, WriteTail
  <2>2. PICK there \in {"tail", "unlock"} : thread' = [thread EXCEPT ![t].at = there]
    BY <1>4 DEF WriteHead, WriteTail, Moves
  <2>3. UNCHANGED <<filename, mtx, clock>>
    BY <1>4 DEF WriteHead, WriteTail
  <2> QED BY <2>1, <2>2, <2>3 DEF Locked, TypeOK
<1> QED BY <1>1, <1>2, <1>3, <1>4, NextCases

\* One thread at a time is inside an operation.
LEMMA MutexStep ==
  ASSUME TypeOK, MutexHeld, CallInv, [Next]_vars
  PROVE  MutexHeld'
<1>1. CASE Tick \/ UNCHANGED vars
  BY <1>1 DEF Tick, vars, MutexHeld
<1>2. ASSUME NEW t \in Threads, Quiet(t) \/ WriteHead(t) \/ WriteTail(t)
      PROVE  MutexHeld'
  <2>1. \A u \in Threads \ {t} : thread'[u] = thread[u]
    BY <1>2 DEF Quiet, Call, Lock, SetFileName, GetFileName, OpenFails, Stamp, Unlock,
                WriteHead, WriteTail, Moves, TypeOK
  <2>2. CASE Lock(t)
    <3>1. thread'[t].at \in Operations /\ mtx' = t
      BY <2>2 DEF Lock, Moves, TypeOK
    <3> QED BY <2>1, <2>2, <3>1, SimpleLoggerAssumption DEF Lock, Locked, MutexHeld
  <2>3. CASE Unlock(t)
    <3>1. thread[t].at = "unlock" /\ thread'[t].at = "idle" /\ mtx' = Nobody
      BY <2>3 DEF Unlock, Moves, TypeOK
    <3> QED BY <2>1, <3>1, SimpleLoggerAssumption DEF Locked, Operations, MutexHeld
  <2>4. CASE Call(t)
    <3>1. thread[t].at = "idle" /\ thread'[t].at = "lock" /\ mtx' = mtx
      BY <2>4 DEF Call, TypeOK
    <3> QED BY <2>1, <3>1 DEF Locked, Operations, MutexHeld
  <2>5. CASE SetFileName(t) \/ GetFileName(t) \/ OpenFails(t) \/ Stamp(t) \/ WriteHead(t)
             \/ WriteTail(t)
    <3>1. thread[t].at \in Locked /\ thread'[t].at \in Locked /\ mtx' = mtx
      BY <2>5 DEF SetFileName, GetFileName, OpenFails, Stamp, WriteHead, WriteTail, Moves,
                  Locked, Operations, TypeOK
    <3> QED BY <2>1, <3>1 DEF MutexHeld
  <2> QED BY <1>2, <2>2, <2>3, <2>4, <2>5 DEF Quiet
<1> QED BY <1>1, <1>2, NextCases

\* A call keeps its arguments, and its sink while it writes to it.
LEMMA CallStep ==
  ASSUME TypeOK, MutexHeld, CallInv, [Next]_vars
  PROVE  CallInv'
<1>1. CASE Tick \/ UNCHANGED vars
  BY <1>1 DEF Tick, vars, CallInv
<1>2. ASSUME NEW t \in Threads, Quiet(t) \/ WriteHead(t) \/ WriteTail(t)
      PROVE  CallInv'
  <2>1. \A u \in Threads \ {t} : thread'[u] = thread[u]
    BY <1>2 DEF Quiet, Call, Lock, SetFileName, GetFileName, OpenFails, Stamp, Unlock,
                WriteHead, WriteTail, Moves, TypeOK
  <2>2. CASE Call(t)
    <3>1. /\ thread'[t].at = "lock" /\ filename' = filename
          /\ thread'[t].op = "setFileName" => thread'[t].sink \in Names
      BY <2>2 DEF Call, Arguments, TypeOK
    <3> QED BY <2>1, <3>1 DEF CallInv, Operations
  <2>3. CASE Lock(t)
    <3>1. /\ thread[t].at = "lock" /\ filename' = filename
          /\ thread'[t].at = thread[t].op /\ thread'[t].op = thread[t].op
          /\ thread'[t].sink = thread[t].sink
          /\ thread[t].op \in Operations
      BY <2>3 DEF Lock, Moves, TypeOK
    <3> QED BY <2>1, <3>1 DEF CallInv, Operations
  <2>4. CASE SetFileName(t)
    <3>1. thread[t].at = "setFileName" /\ thread'[t].at = "unlock"
      BY <2>4 DEF SetFileName, Moves, TypeOK
    <3>2. \A u \in Threads \ {t} : thread[u].at \notin Locked
      BY <3>1 DEF MutexHeld, Locked, Operations
    <3> QED BY <2>1, <3>1, <3>2 DEF CallInv, Operations, Locked
  <2>5. CASE GetFileName(t) \/ OpenFails(t) \/ Unlock(t) \/ WriteTail(t)
    <3>1. thread'[t].at \in {"idle", "unlock"} /\ filename' = filename
      BY <2>5 DEF GetFileName, OpenFails, Unlock, WriteTail, Moves, TypeOK
    <3> QED BY <2>1, <3>1 DEF CallInv, Operations
  <2>6. CASE Stamp(t)
    <3>1. /\ thread'[t].at = "head" /\ filename' = filename
          /\ thread'[t].sink \in {filename, Console}
      BY <2>6 DEF Stamp, TypeOK
    <3> QED BY <2>1, <3>1 DEF CallInv, Operations
  <2>7. CASE WriteHead(t)
    <3>1. /\ thread[t].at = "head" /\ thread'[t].at = "tail" /\ filename' = filename
          /\ thread'[t].sink = thread[t].sink
      BY <2>7 DEF WriteHead, Moves, TypeOK
    <3> QED BY <2>1, <3>1 DEF CallInv, Operations
  <2> QED BY <1>2, <2>2, <2>3, <2>4, <2>5, <2>6, <2>7 DEF Quiet
<1> QED BY <1>1, <1>2, NextCases
-----------------------------------------------------------------------------
\* A thread that writes is alone: no other one has begun a line, or is about to.
LEMMA WriterIsAlone ==
  ASSUME MutexHeld, NEW t \in Threads, thread[t].at \in Locked
  PROVE  \A u \in Threads : thread[u].at \in Locked => u = t
BY DEF MutexHeld

\* Where a quiet step takes a thread from and to.
LEMMA QuietPlaces ==
  ASSUME TypeOK, NEW t \in Threads, Quiet(t)
  PROVE  /\ thread[t].at # "tail" /\ thread[t].at # "head"
         /\ thread'[t].at # "tail"
         /\ thread'[t].at = "head" => thread'[t].stamp = clock
<1>1. CASE Call(t)
  BY <1>1 DEF Call, TypeOK
<1>2. CASE Lock(t)
  BY <1>2 DEF Lock, Moves, Operations, TypeOK
<1>3. CASE SetFileName(t) \/ GetFileName(t) \/ OpenFails(t) \/ Unlock(t)
  BY <1>3 DEF SetFileName, GetFileName, OpenFails, Unlock, Moves, TypeOK
<1>4. CASE Stamp(t)
  BY <1>4 DEF Stamp, TypeOK
<1> QED BY <1>1, <1>2, <1>3, <1>4 DEF Quiet

\* What a write does: the writer moves on, the piece is the last of its sink.
LEMMA WritePlaces ==
  ASSUME TypeOK, MutexHeld, NEW t \in Threads, WriteHead(t) \/ WriteTail(t)
  PROVE  /\ \A u \in Threads \ {t} : /\ thread'[u] = thread[u]
                                     /\ thread[u].at \notin Locked
         /\ thread'[t].sink = thread[t].sink /\ thread'[t].call = thread[t].call
         /\ thread'[t].stamp = thread[t].stamp
         /\ thread[t].sink \in Sinks
         /\ UNCHANGED <<filename, mtx, clock>>
<1>1. thread[t].at \in Locked
  BY DEF WriteHead, WriteTail, Moves, Locked
<1>2. \A u \in Threads \ {t} : thread[u].at \notin Locked
  BY <1>1, WriterIsAlone
<1> QED BY <1>2 DEF WriteHead, WriteTail, Moves, TypeOK

\* After a write the sinks are those before it, but one that is a piece longer.
LEMMA WriteSinks ==
  ASSUME TypeOK, NEW t \in Threads, NEW part \in {"head", "tail"}, Write(t, part),
         NEW s \in Sinks
  PROVE  /\ written[s] \in Seq(Pieces) /\ Len(written[s]) \in Nat
         /\ s # thread[t].sink => written'[s] = written[s]
         /\ s = thread[t].sink =>
              /\ Len(written'[s]) = Len(written[s]) + 1
              /\ written'[s][Len(written[s]) + 1] = Piece(t, part)
              /\ \A i \in 1..Len(written[s]) : written'[s][i] = written[s][i]
<1>1. written[s] \in Seq(Pieces)
  BY DEF TypeOK
<1>2. Piece(t, part) \in Pieces
  BY WriteFrame
<1>3. s # thread[t].sink => written'[s] = written[s]
  BY WriteFrame
<1>4. s = thread[t].sink => written'[s] = Append(written[s], Piece(t, part))
  BY WriteFrame
<1> QED BY <1>1, <1>2, <1>3, <1>4, Appended

\* The line that a thread has begun ends with its head.
LEMMA BegunLine ==
  ASSUME TypeOK, LineInv, NEW t \in Threads, thread[t].at = "tail"
  PROVE  /\ thread[t].sink \in Sinks /\ thread[t].stamp \in Nat
         /\ Len(written[thread[t].sink]) \in 1..Len(written[thread[t].sink])
         /\ written[thread[t].sink][Len(written[thread[t].sink])] = Piece(t, "head")
<1> DEFINE line == written[thread[t].sink]
<1>1. thread[t].sink \in Sinks /\ thread[t].stamp \in Nat
  BY DEF TypeOK
<1>2. line \in Seq(Pieces)
  BY <1>1 DEF TypeOK
<1>3. line # <<>> /\ line[Len(line)] = Piece(t, "head")
  BY DEF LineInv, Piece
<1>4. Len(line) \in 1..Len(line)
  BY <1>2, <1>3
<1> QED BY <1>1, <1>3, <1>4

\* No piece is stamped ahead of the clock or of a thread about to write.
LEMMA StampStep ==
  ASSUME TypeOK, MutexHeld, StampInv, LineInv, [Next]_vars
  PROVE  StampInv'
<1> USE DEF StampInv
<1>0. \A s \in Sinks : \A i \in 1..Len(written[s]) : written[s][i] \in Pieces
  BY DEF TypeOK
<1>1. CASE Tick
  <2>1. clock \in Nat /\ clock' = clock + 1 /\ UNCHANGED <<thread, written>>
    BY <1>1 DEF Tick, TypeOK
  <2>2. \A u \in Threads : thread[u].stamp \in Nat
    BY DEF TypeOK
  <2> QED BY <1>0, <2>1, <2>2 DEF Pieces
<1>2. CASE UNCHANGED vars
  BY <1>2 DEF vars
<1>3. ASSUME NEW t \in Threads, Quiet(t)
      PROVE  StampInv'
  <2>1. /\ UNCHANGED <<clock, written>>
        /\ \A u \in Threads \ {t} : thread'[u] = thread[u]
    BY <1>3, QuietFrame
  <2>2. thread'[t].at = "head" => thread'[t].stamp = clock
    BY <1>3, QuietPlaces
  <2>3. clock \in Nat
    BY DEF TypeOK
  <2> QED BY <2>1, <2>2, <2>3
<1>4. ASSUME NEW t \in Threads, WriteHead(t) \/ WriteTail(t)
      PROVE  StampInv'
  <2>1. \A u \in Threads : thread'[u].at # "head"
    <3>1. thread'[t].at # "head"
      BY <1>4 DEF WriteHead, WriteTail, Moves, TypeOK
    <3> QED BY <1>4, <3>1, WritePlaces DEF Locked
  <2>2. clock' = clock
    BY <1>4, WritePlaces
  <2>3. thread[t].stamp <= clock
    <3>1. CASE WriteHead(t)
      BY <3>1 DEF WriteHead, Moves
    <3>2. CASE WriteTail(t)
      <4>1. thread[t].at = "tail"
        BY <3>2 DEF WriteTail, Moves
      <4>2. Piece(t, "head").stamp <= clock
        BY <4>1, BegunLine
      <4> QED BY <4>2, PieceFields
    <3> QED BY <1>4, <3>1, <3>2
  <2>4. ASSUME NEW s \in Sinks, NEW i \in 1..Len(written'[s])
        PROVE  written'[s][i].stamp <= clock
    <3>1. PICK part \in {"head", "tail"} : Write(t, part)
      BY <1>4 DEF WriteHead, WriteTail
    <3>2. Piece(t, part).stamp = thread[t].stamp
      BY DEF Piece
    <3>3. CASE s # thread[t].sink
      BY <3>1, <3>3, WriteSinks
    <3>4. CASE s = thread[t].sink /\ i \in 1..Len(written[s])
      BY <3>1, <3>4, WriteSinks
    <3>5. CASE s = thread[t].sink /\ i \notin 1..Len(written[s])
      <4>1. i = Len(written[s]) + 1
        BY <3>1, <3>5, WriteSinks
      <4> QED BY <2>3, <3>1, <3>2, <3>5, <4>1, WriteSinks
    <3> QED BY <3>3, <3>4, <3>5
  <2> QED BY <2>1, <2>2, <2>4
<1> QED BY <1>1, <1>2, <1>3, <1>4, NextCases

\* The last piece of a line that is being written is its head.
LEMMA LineStep ==
  ASSUME TypeOK, MutexHeld, LineInv, [Next]_vars
  PROVE  LineInv'
<1>1. CASE Tick \/ UNCHANGED vars
  BY <1>1 DEF Tick, vars, LineInv
<1>2. ASSUME NEW t \in Threads, Quiet(t)
      PROVE  LineInv'
  <2>1. /\ UNCHANGED written
        /\ \A u \in Threads \ {t} : thread'[u] = thread[u]
    BY <1>2, QuietFrame
  <2>2. thread'[t].at # "tail"
    BY <1>2, QuietPlaces
  <2> QED BY <2>1, <2>2 DEF LineInv
<1>3. ASSUME NEW t \in Threads, WriteHead(t)
      PROVE  LineInv'
  <2>1. Write(t, "head")
    BY <1>3 DEF WriteHead
  <2>2. \A u \in Threads \ {t} : thread'[u].at \notin Locked
    BY <1>3, WritePlaces
  <2>3. /\ thread'[t].sink = thread[t].sink /\ thread'[t].call = thread[t].call
        /\ thread'[t].stamp = thread[t].stamp /\ thread[t].sink \in Sinks
    BY <1>3, WritePlaces
  <2> DEFINE s == thread[t].sink
  <2>4. /\ Len(written[s]) \in Nat /\ Len(written'[s]) = Len(written[s]) + 1
        /\ written'[s][Len(written[s]) + 1] = Piece(t, "head")
    BY <2>1, <2>3, WriteSinks
  <2>5. written'[s] # <<>>
    BY <2>4
  <2> QED BY <2>2, <2>3, <2>4, <2>5 DEF LineInv, Piece, Locked
<1>4. ASSUME NEW t \in Threads, WriteTail(t)
      PROVE  LineInv'
  <2>1. thread'[t].at # "tail"
    BY <1>4 DEF WriteTail, Moves, TypeOK
  <2>2. \A u \in Threads \ {t} : thread'[u].at \notin Locked
    BY <1>4, WritePlaces
  <2> QED BY <2>1, <2>2 DEF LineInv, Locked
<1> QED BY <1>1, <1>2, <1>3, <1>4, NextCases

\* No write puts a piece behind one with a later stamp.
LEMMA AscendStep ==
  ASSUME TypeOK, MutexHeld, StampInv, LineInv, StampsAscend, [Next]_vars
  PROVE  StampsAscend'
<1> USE DEF StampsAscend
<1>1. CASE Tick \/ UNCHANGED vars
  BY <1>1 DEF Tick, vars
<1>2. ASSUME NEW t \in Threads, Quiet(t)
      PROVE  StampsAscend'
  BY <1>2, QuietFrame
<1>3. ASSUME NEW t \in Threads, NEW part \in {"head", "tail"}, Write(t, part),
             \A i \in 1..Len(written[thread[t].sink]) :
               written[thread[t].sink][i].stamp <= thread[t].stamp
      PROVE  StampsAscend'
  <2>1. SUFFICES ASSUME NEW s \in Sinks, NEW i \in 1..Len(written'[s]),
                        NEW j \in 1..Len(written'[s]), i < j
                 PROVE  written'[s][i].stamp <= written'[s][j].stamp
    OBVIOUS
  <2>2. CASE s # thread[t].sink
    BY <1>3, <2>1, <2>2, WriteSinks
  <2>3. CASE s = thread[t].sink
    <3>1. /\ Len(written[s]) \in Nat /\ Len(written'[s]) = Len(written[s]) + 1
          /\ written'[s][Len(written[s]) + 1] = Piece(t, part)
          /\ \A k \in 1..Len(written[s]) : written'[s][k] = written[s][k]
      BY <1>3, <2>3, WriteSinks
    <3>2. i \in 1..Len(written[s])
      BY <2>1, <3>1
    <3>3. CASE j \in 1..Len(written[s])
      BY <2>1, <3>1, <3>2, <3>3
    <3>4. CASE j = Len(written[s]) + 1
      <4>1. written'[s][j] = Piece(t, part)
        BY <3>1, <3>4
      <4>2. written'[s][i] = written[s][i] /\ written[s][i].stamp <= thread[t].stamp
        BY <1>3, <2>3, <3>1, <3>2
      <4> QED BY <4>1, <4>2, PieceFields
    <3> QED BY <3>1, <3>3, <3>4
  <2> QED BY <2>2, <2>3
<1>4. ASSUME NEW t \in Threads, WriteHead(t)
      PROVE  StampsAscend'
  <2>1. thread[t].at = "head" /\ Write(t, "head") /\ thread[t].sink \in Sinks
    BY <1>4 DEF WriteHead, Moves, TypeOK
  <2> QED BY <1>3, <2>1 DEF StampInv
<1>5. ASSUME NEW t \in Threads, WriteTail(t)
      PROVE  StampsAscend'
  <2> DEFINE line == written[thread[t].sink]
  <2>1. thread[t].at = "tail" /\ Write(t, "tail") /\ thread[t].sink \in Sinks
    BY <1>5 DEF WriteTail, Moves, TypeOK
  <2>2. /\ Len(line) \in Nat /\ Len(line) \in 1..Len(line)
        /\ thread[t].stamp \in Nat /\ line[Len(line)] = Piece(t, "head")
    BY <2>1, BegunLine
  <2>3. line[Len(line)].stamp = thread[t].stamp
    BY <2>2, PieceFields
  <2>4. ASSUME NEW i \in 1..Len(line)
        PROVE  line[i].stamp <= thread[t].stamp
    <3>1. CASE i = Len(line)
      BY <2>2, <2>3, <3>1
    <3>2. CASE i < Len(line)
      BY <2>1, <2>2, <2>3, <3>2
    <3> QED BY <2>2, <3>1, <3>2
  <2> QED BY <1>3, <2>1, <2>4
<1> QED BY <1>1, <1>2, <1>4, <1>5, NextCases

\* No write comes between the two pieces of a line, and none leaves a line without tail.
LEMMA WholeStep ==
  ASSUME TypeOK, MutexHeld, LineInv, WholeLines, [Next]_vars
  PROVE  WholeLines'
<1>0. \A s \in Sinks : \A i \in 1..Len(written[s]) :
        written[s][i].of \in Threads /\ written[s][i].part \in {"head", "tail"}
  <2>1. \A s \in Sinks : written[s] \in Seq(Pieces)
    BY DEF TypeOK
  <2>2. \A s \in Sinks : \A i \in 1..Len(written[s]) : written[s][i] \in Pieces
    BY <2>1
  <2> QED BY <2>2 DEF Pieces
<1>1. CASE Tick \/ UNCHANGED vars
  BY <1>1 DEF Tick, vars, WholeLines, Whole
<1>2. ASSUME NEW t \in Threads, Quiet(t)
      PROVE  WholeLines'
  <2>1. /\ UNCHANGED written
        /\ \A u \in Threads \ {t} : thread'[u] = thread[u]
    BY <1>2, QuietFrame
  <2>2. thread[t].at # "tail"
    BY <1>2, QuietPlaces
  <2> QED BY <1>0, <2>1, <2>2 DEF WholeLines, Whole
<1>3. ASSUME NEW t \in Threads, WriteHead(t)
      PROVE  WholeLines'
  <2>1. Write(t, "head") /\ thread[t].at = "head" /\ thread'[t].at = "tail"
    BY <1>3 DEF WriteHead, Moves, TypeOK
  <2>2. /\ \A u \in Threads \ {t} : thread[u].at \notin Locked
        /\ thread'[t].sink = thread[t].sink
    BY <1>3, WritePlaces
  <2>3. \A u \in Threads : thread[u].at # "tail"
    BY <2>1, <2>2 DEF Locked
  <2>4. \A s \in Sinks : \A i \in 1..Len(written[s]) :
          IF written[s][i].part = "tail"
          THEN i > 1 /\ Completes(written[s][i], written[s][i - 1])
          ELSE i < Len(written[s]) /\ Completes(written[s][i + 1], written[s][i])
    BY <1>0, <2>3 DEF WholeLines, Whole
  <2>5. SUFFICES ASSUME NEW s \in Sinks, NEW i \in 1..Len(written'[s])
                 PROVE  Whole(s, i)'
    BY DEF WholeLines
  <2>6. CASE s # thread[t].sink
    BY <2>1, <2>4, <2>5, <2>6, WriteSinks DEF Whole
  <2>7. CASE s = thread[t].sink
    <3>1. /\ Len(written[s]) \in Nat /\ Len(written'[s]) = Len(written[s]) + 1
          /\ written'[s][Len(written[s]) + 1] = Piece(t, "head")
          /\ \A k \in 1..Len(written[s]) : written'[s][k] = written[s][k]
      BY <2>1, <2>7, WriteSinks
    <3>2. CASE i \in 1..Len(written[s])
      <4>1. i > 1 => i - 1 \in 1..Len(written[s])
        BY <3>1, <3>2
      <4>2. i < Len(written[s]) => i + 1 \in 1..Len(written[s])
        BY <3>1, <3>2
      <4>3. i < Len(written'[s])
        BY <3>1, <3>2
      <4> QED BY <2>4, <3>1, <3>2, <4>1, <4>2, <4>3 DEF Whole
    <3>3. CASE i = Len(written[s]) + 1
      <4>1. written'[s][i].part = "head" /\ written'[s][i].of = t
        BY <3>1, <3>3, PieceFields
      <4>2. ~ (i < Len(written'[s]))
        BY <3>1, <3>3
      <4> QED BY <2>1, <2>2, <2>7, <4>1, <4>2 DEF Whole
    <3> QED BY <3>1, <3>2, <3>3
  <2> QED BY <2>6, <2>7
<1>4. ASSUME NEW t \in Threads, WriteTail(t)
      PROVE  WholeLines'
  <2>1. Write(t, "tail") /\ thread[t].at = "tail"
    BY <1>4 DEF WriteTail, Moves, TypeOK
  <2>2. /\ \A u \in Threads \ {t} : thread[u].at \notin Locked
        /\ thread[t].sink \in Sinks
    BY <1>4, WritePlaces
  <2>3. \A u \in Threads : thread[u].at = "tail" => u = t
    BY <2>2 DEF Locked
  <2>4. SUFFICES ASSUME NEW s \in Sinks, NEW i \in 1..Len(written'[s])
                 PROVE  Whole(s, i)'
    BY DEF WholeLines
  <2>5. \A k \in 1..Len(written[s]) : Whole(s, k)
    BY DEF WholeLines
  <2>6. CASE s # thread[t].sink
    <3>1. written'[s] = written[s]
      BY <2>1, <2>6, WriteSinks
    <3>2. \A k \in 1..Len(written[s]) :
            ~ (thread[written[s][k].of].at = "tail" /\ thread[written[s][k].of].sink = s)
      BY <1>0, <2>3, <2>6
    <3> QED BY <2>4, <2>5, <3>1, <3>2 DEF Whole
  <2>7. CASE s = thread[t].sink
    <3>1. /\ Len(written[s]) \in Nat /\ Len(written'[s]) = Len(written[s]) + 1
          /\ written'[s][Len(written[s]) + 1] = Piece(t, "tail")
          /\ \A k \in 1..Len(written[s]) : written'[s][k] = written[s][k]
      BY <2>1, <2>7, WriteSinks
    <3>2. /\ written[s] # <<>> /\ written[s] \in Seq(Pieces)
          /\ written[s][Len(written[s])] = Piece(t, "head")
      BY <2>1, <2>7 DEF LineInv, Piece, TypeOK
    <3>3. Len(written[s]) > 0
      BY <3>2
    <3>4. Completes(Piece(t, "tail"), Piece(t, "head"))
      BY DEF Completes, Piece
    <3>5. Piece(t, "tail").part = "tail" /\ Piece(t, "head").part = "head"
      BY DEF Piece
    <3>6. CASE i \in 1..Len(written[s]) /\ i # Len(written[s])
      <4>1. i > 1 => i - 1 \in 1..Len(written[s])
        BY <3>1, <3>6
      <4>2. i + 1 \in 1..Len(written[s]) /\ i < Len(written[s]) /\ i < Len(written'[s])
        BY <3>1, <3>6
      <4> QED BY <2>5, <3>1, <3>6, <4>1, <4>2 DEF Whole
    <3>7. CASE i = Len(written[s])
      <4>1. i \in 1..Len(written[s]) /\ i < Len(written'[s])
        BY <3>1, <3>3, <3>7
      <4>2. written'[s][i] = Piece(t, "head") /\ written'[s][i + 1] = Piece(t, "tail")
        BY <3>1, <3>2, <3>7, <4>1
      <4> QED BY <3>4, <3>5, <4>1, <4>2 DEF Whole
    <3>8. CASE i = Len(written[s]) + 1
      <4>1. i > 1 /\ i - 1 = Len(written[s]) /\ i - 1 \in 1..Len(written[s])
        BY <3>1, <3>3, <3>8
      <4>2. written'[s][i] = Piece(t, "tail") /\ written'[s][i - 1] = Piece(t, "head")
        BY <3>1, <3>2, <3>8, <4>1
      <4> QED BY <3>4, <3>5, <4>1, <4>2 DEF Whole
    <3> QED BY <3>1, <3>6, <3>7, <3>8
  <2> QED BY <2>6, <2>7
<1> QED BY <1>1, <1>2, <1>3, <1>4, NextCases
-----------------------------------------------------------------------------
LEMMA InitEstablishes == Init => IInv
<1> SUFFICES ASSUME Init PROVE IInv
  OBVIOUS
<1>1. TypeOK
  <2>1. Console \in Sinks /\ <<>> \in Seq(Pieces)
    BY DEF Sinks
  <2> QED BY <2>1, SimpleLoggerAssumption DEF Init, Operations, TypeOK
<1>2. MutexHeld /\ CallInv /\ LineInv
  BY SimpleLoggerAssumption DEF Init, MutexHeld, CallInv, LineInv, Locked, Operations
<1>3. \A s \in Sinks : Len(written[s]) = 0
  BY DEF Init
<1>4. StampInv /\ WholeLines /\ StampsAscend
  BY <1>3 DEF Init, StampInv, WholeLines, StampsAscend
<1> QED BY <1>1, <1>2, <1>4 DEF IInv

LEMMA NextPreserves == IInv /\ [Next]_vars => IInv'
BY TypeStep, MutexStep, CallStep, StampStep, LineStep, AscendStep, WholeStep DEF IInv

\* The inductive invariant: one thread inside an operation at a time, what a call has
\* still to write, and the state of the sinks.
THEOREM Invariance == Spec => []IInv
<1>1. Init => IInv
  BY InitEstablishes
<1>2. IInv /\ [Next]_vars => IInv'
  BY NextPreserves
<1> QED BY <1>1, <1>2, PTL DEF Spec

\* Lines are whole: log and logToFile write theirs under the mutex.
THEOREM LinesAreWhole == Spec => []WholeLines
<1>1. IInv => WholeLines
  BY DEF IInv
<1> QED BY <1>1, Invariance, PTL

\* Lines are in the order of their stamps: the clock is read under the mutex.
THEOREM LinesAreInOrder == Spec => []StampsAscend
<1>1. IInv => StampsAscend
  BY DEF IInv
<1> QED BY <1>1, Invariance, PTL

\* setFileName cannot come between the opening of a file and the end of its line.
THEOREM LinesGoWhereNamed == Spec => WrittenWhereNamed
<1> DEFINE Follows == \A f \in Names : written'[f] # written[f] => filename = f
<1>1. IInv /\ [Next]_vars => Follows
  <2> SUFFICES ASSUME IInv, [Next]_vars PROVE Follows
    OBVIOUS
  <2>1. CASE Tick \/ UNCHANGED vars
    BY <2>1 DEF Tick, vars
  <2>2. ASSUME NEW t \in Threads, Quiet(t)
        PROVE  Follows
    BY <2>2, QuietFrame DEF IInv
  <2>3. ASSUME NEW t \in Threads, WriteHead(t) \/ WriteTail(t), NEW f \in Names,
               written'[f] # written[f]
        PROVE  filename = f
    <3>1. PICK part \in {"head", "tail"} : Write(t, part)
      BY <2>3 DEF WriteHead, WriteTail
    <3>2. f \in Sinks /\ f = thread[t].sink
      BY <2>3, <3>1, WriteSinks DEF IInv, Sinks
    <3>3. thread[t].at \in {"head", "tail"}
      BY <2>3 DEF WriteHead, WriteTail, Moves
    <3> QED BY <3>2, <3>3, SimpleLoggerAssumption DEF IInv, CallInv
  <2> QED BY <2>1, <2>2, <2>3, NextCases
<1>2. IInv /\ [Next]_vars => [Follows]_vars
  BY <1>1
<1> QED BY <1>2, Invariance, PTL DEF Spec, WrittenWhereNamed
-----------------------------------------------------------------------------
\* What a call writes

LEMMA PieceCall ==
  ASSUME NEW t, NEW part
  PROVE  Piece(t, part).call = thread[t].call
BY DEF Piece

\* Before its head is written a call has written nothing.
NotWriting == {"lock", "head"} \cup Operations

\* How a quiet step goes on with the call of its thread, or begins a new one.
LEMMA QuietCalls ==
  ASSUME TypeOK, CallInv, NEW t \in Threads, Quiet(t)
  PROVE  /\ \/ thread'[t].at = "lock" /\ thread'[t].call = thread[t].call + 1
            \/ /\ thread'[t].call = thread[t].call /\ thread'[t].op = thread[t].op
               /\ thread'[t].at \in NotWriting => thread[t].at \in NotWriting
         /\ thread'[t].at = "idle" => thread[t].at = "unlock" /\ thread'[t].call = thread[t].call
         /\ thread'[t].at = "unlock" => thread'[t].op # "log"
         /\ thread'[t].at = "head" /\ thread'[t].op = "log" => thread'[t].sink = Console
<1> USE DEF NotWriting, Operations
<1>0. thread[t].op \in Operations /\ (thread[t].at \in Operations => thread[t].at = thread[t].op)
  BY DEF TypeOK, CallInv
<1>1. CASE Call(t)
  BY <1>1 DEF Call, TypeOK
<1>2. CASE Lock(t)
  BY <1>0, <1>2 DEF Lock, Moves, TypeOK
<1>3. CASE SetFileName(t) \/ GetFileName(t) \/ OpenFails(t) \/ Unlock(t)
  BY <1>0, <1>3 DEF SetFileName, GetFileName, OpenFails, Unlock, Moves, TypeOK
<1>4. CASE Stamp(t)
  BY <1>0, <1>4 DEF Stamp, TypeOK
<1> QED BY <1>1, <1>2, <1>3, <1>4 DEF Quiet

\* The pieces of the sinks, and the calls of the threads, are numbers' and threads'.
LEMMA PieceTypes ==
  ASSUME TypeOK
  PROVE  /\ \A t \in Threads : thread[t].call \in Nat
         /\ \A s \in Sinks : \A i \in 1..Len(written[s]) :
              written[s][i].of \in Threads /\ written[s][i].call \in Nat
<1>1. \A s \in Sinks : written[s] \in Seq(Pieces)
  BY DEF TypeOK
<1>2. \A s \in Sinks : \A i \in 1..Len(written[s]) : written[s][i] \in Pieces
  BY <1>1
<1> QED BY <1>2 DEF Pieces, TypeOK

\* A line that is on the console stays there.
LEMMA ConsoleKeeps ==
  ASSUME TypeOK, NEW t \in Threads, NEW part \in {"head", "tail"}, Write(t, part),
         NEW u \in Threads, thread'[u].call = thread[u].call, OnConsole(u)
  PROVE  OnConsole(u)'
<1> DEFINE line == [part |-> "tail", of |-> u, call |-> thread[u].call]
<1>1. PICK i \in 1..Len(written[Console]) : SamePart(written[Console][i], line)
  BY DEF OnConsole
<1>2. Console \in Sinks
  BY DEF Sinks
<1>3. i \in 1..Len(written'[Console]) /\ written'[Console][i] = written[Console][i]
  BY <1>1, <1>2, WriteSinks
<1>4. [part |-> "tail", of |-> u, call |-> thread'[u].call] = line
  OBVIOUS
<1> HIDE DEF line
<1> QED BY <1>1, <1>3, <1>4 DEF OnConsole

\* A quiet step keeps what is known of the pieces of its own thread.
LEMMA QuietWritten ==
  ASSUME TypeOK, CallInv, NEW t \in Threads, Quiet(t),
         NEW s \in Sinks, NEW i \in 1..Len(written[s]),
         written[s][i].of = t, Written(t, s, i)
  PROVE  Written(t, s, i)'
<1>1. UNCHANGED written /\ thread'[t].at # "tail"
  BY QuietFrame, QuietPlaces
<1>2. thread[t].call \in Nat /\ written[s][i].call \in Nat
  BY PieceTypes
<1>3. CASE thread'[t].at = "lock" /\ thread'[t].call = thread[t].call + 1
  <2>1. written[s][i].call < thread'[t].call
    BY <1>2, <1>3 DEF Written
  <2> QED BY <1>1, <1>2, <1>3, <2>1 DEF Written
<1>4. CASE /\ thread'[t].call = thread[t].call
           /\ thread'[t].at \in NotWriting => thread[t].at \in NotWriting
  BY <1>1, <1>4 DEF Written, NotWriting
<1> QED BY <1>3, <1>4, QuietCalls

\* Each piece was written in a call of its thread, and each thread knows what it
\* has written of the call that it is in.
LEMMA WrittenStep ==
  ASSUME TypeOK, MutexHeld, CallInv, WrittenInv, [Next]_vars
  PROVE  WrittenInv'
<1>0. /\ \A s \in Sinks : \A i \in 1..Len(written[s]) :
           written[s][i].of \in Threads /\ Written(written[s][i].of, s, i)
      /\ \A t \in Threads : thread[t].op = "log" =>
           /\ thread[t].at \in {"head", "tail"} => thread[t].sink = Console
           /\ thread[t].at = "unlock" => OnConsole(t)
  BY PieceTypes DEF WrittenInv
<1>1. CASE Tick \/ UNCHANGED vars
  BY <1>0, <1>1 DEF Tick, vars, WrittenInv, Written, OnConsole
<1>2. ASSUME NEW t \in Threads, Quiet(t)
      PROVE  WrittenInv'
  <2>1. UNCHANGED written /\ \A u \in Threads \ {t} : thread'[u] = thread[u]
    BY <1>2, QuietFrame
  <2>2. ASSUME NEW s \in Sinks, NEW i \in 1..Len(written'[s])
        PROVE  Written(written[s][i].of, s, i)'
    <3>1. CASE written[s][i].of = t
      BY <1>0, <1>2, <2>1, <2>2, <3>1, QuietWritten
    <3>2. CASE written[s][i].of # t
      BY <1>0, <2>1, <2>2, <3>2 DEF Written
    <3> QED BY <3>1, <3>2
  <2>3. ASSUME NEW u \in Threads, thread'[u].op = "log"
        PROVE  /\ thread'[u].at \in {"head", "tail"} => thread'[u].sink = Console
               /\ thread'[u].at = "unlock" => OnConsole(u)'
    <3>1. CASE u = t
      BY <1>2, <2>3, <3>1, QuietCalls, QuietPlaces
    <3>2. CASE u # t
      BY <1>0, <2>1, <2>3, <3>2 DEF OnConsole
    <3> QED BY <3>1, <3>2
  <2> QED BY <2>2, <2>3 DEF WrittenInv
<1>3. ASSUME NEW t \in Threads, NEW part \in {"head", "tail"}, Write(t, part),
             \/ WriteHead(t) /\ part = "head"
             \/ WriteTail(t) /\ part = "tail"
      PROVE  WrittenInv'
  <2>1. /\ \A u \in Threads \ {t} : thread'[u] = thread[u]
        /\ thread'[t].call = thread[t].call /\ thread'[t].sink = thread[t].sink
        /\ thread[t].sink \in Sinks
    BY <1>3, WritePlaces
  <2>2. /\ thread'[t].op = thread[t].op
        /\ \/ part = "head" /\ thread[t].at = "head" /\ thread'[t].at = "tail"
           \/ part = "tail" /\ thread[t].at = "tail" /\ thread'[t].at = "unlock"
    BY <1>3 DEF WriteHead, WriteTail, Moves, TypeOK
  <2>3. ASSUME NEW s \in Sinks, NEW i \in 1..Len(written[s]),
               written'[s][i] = written[s][i]
        PROVE  Written(written[s][i].of, s, i)'
    <3>1. CASE written[s][i].of = t
      BY <1>0, <2>1, <2>2, <2>3, <3>1 DEF Written, Operations
    <3>2. CASE written[s][i].of # t
      BY <1>0, <2>1, <2>3, <3>2 DEF Written
    <3> QED BY <3>1, <3>2
  <2>4. ASSUME NEW s \in Sinks, NEW i, written'[s][i] = Piece(t, part)
        PROVE  Written(written[s][i].of, s, i)'
    <3>1. written'[s][i].of = t /\ written'[s][i].part = part /\ written'[s][i].call = thread'[t].call
      BY <2>1, <2>4, PieceFields, PieceCall
    <3>2. thread'[t].call \in Nat
      BY <2>1, PieceTypes
    <3> QED BY <2>2, <3>1, <3>2 DEF Written, Operations
  <2>5. ASSUME NEW s \in Sinks, NEW i \in 1..Len(written'[s])
        PROVE  Written(written[s][i].of, s, i)'
    <3>1. CASE s # thread[t].sink
      BY <1>3, <2>3, <2>5, <3>1, WriteSinks
    <3>2. CASE s = thread[t].sink /\ i \in 1..Len(written[s])
      BY <1>3, <2>3, <3>2, WriteSinks
    <3>3. CASE s = thread[t].sink /\ i \notin 1..Len(written[s])
      <4>1. Len(written[s]) \in Nat /\ Len(written'[s]) = Len(written[s]) + 1
        BY <1>3, <3>3, WriteSinks
      <4>2. i = Len(written[s]) + 1
        BY <2>5, <3>3, <4>1
      <4> QED BY <1>3, <2>4, <3>3, <4>2, WriteSinks
    <3> QED BY <3>1, <3>2, <3>3
  <2>6. ASSUME NEW u \in Threads, thread'[u].op = "log"
        PROVE  /\ thread'[u].at \in {"head", "tail"} => thread'[u].sink = Console
               /\ thread'[u].at = "unlock" => OnConsole(u)'
    <3>1. CASE u # t
      BY <1>0, <1>3, <2>1, <2>6, <3>1, ConsoleKeeps
    <3>2. CASE u = t
      <4>1. thread[t].op = "log" /\ thread[t].sink = Console /\ thread'[t].sink = Console
        BY <1>0, <2>1, <2>2, <2>6, <3>2
      <4>2. ASSUME thread'[t].at = "unlock" PROVE OnConsole(t)'
        <5>1. part = "tail"
          BY <2>2, <4>2
        <5> DEFINE n == Len(written[Console]) + 1
        <5>2. /\ Len(written[Console]) \in Nat /\ Len(written'[Console]) = n
              /\ written'[Console][n] = Piece(t, "tail")
          BY <1>3, <2>1, <4>1, <5>1, WriteSinks
        <5>3. n \in 1..Len(written'[Console])
          BY <5>2
        <5>4. SamePart(Piece(t, "tail"), [part |-> "tail", of |-> t, call |-> thread'[t].call])
          BY <2>1, PieceFields, PieceCall DEF SamePart
        <5> HIDE DEF n
        <5> QED BY <5>2, <5>3, <5>4 DEF OnConsole
      <4> QED BY <3>2, <4>1, <4>2
    <3> QED BY <3>1, <3>2
  <2> QED BY <2>5, <2>6 DEF WrittenInv
<1>4. ASSUME NEW t \in Threads, WriteHead(t) \/ WriteTail(t)
      PROVE  WrittenInv'
  BY <1>3, <1>4 DEF WriteHead, WriteTail
<1> QED BY <1>1, <1>2, <1>4, NextCases

\* A piece that a thread is about to write is not in any sink, and those of the
\* thread that are there belong to no later call.
LEMMA NewPiece ==
  ASSUME TypeOK, WrittenInv, NEW t \in Threads, NEW part,
         \/ part = "head" /\ thread[t].at = "head"
         \/ part = "tail" /\ thread[t].at = "tail",
         NEW s \in Sinks, NEW i \in 1..Len(written[s])
  PROVE  /\ ~SamePart(written[s][i], Piece(t, part))
         /\ written[s][i].of = t => written[s][i].call <= Piece(t, part).call
<1>1. Written(written[s][i].of, s, i)
  BY DEF WrittenInv
<1> QED BY <1>1, PieceFields, PieceCall DEF SamePart, Written

LEMMA OnceStep ==
  ASSUME TypeOK, MutexHeld, CallInv, WrittenInv, EachCallOnce, [Next]_vars
  PROVE  EachCallOnce'
<1>0. /\ \A s, u \in Sinks : \A i \in 1..Len(written[s]), j \in 1..Len(written[u]) :
           SamePart(written[s][i], written[u][j]) => s = u /\ i = j
      /\ \A s \in Sinks : \A i, j \in 1..Len(written[s]) :
           (i < j /\ written[s][i].of = written[s][j].of) =>
             written[s][i].call <= written[s][j].call
      /\ \A t \in Threads :
           (thread[t].at = "idle" /\ thread[t].op = "log" /\ thread[t].call > 0) => OnConsole(t)
  BY DEF EachCallOnce
<1>1. CASE Tick \/ UNCHANGED vars
  <2>1. UNCHANGED <<thread, written>>
    BY <1>1 DEF Tick, vars
  <2> QED BY <1>0, <2>1 DEF EachCallOnce, OnConsole
<1>2. ASSUME NEW t \in Threads, Quiet(t)
      PROVE  EachCallOnce'
  <2>1. UNCHANGED written /\ \A u \in Threads \ {t} : thread'[u] = thread[u]
    BY <1>2, QuietFrame
  <2>2. ASSUME NEW u \in Threads, thread'[u].at = "idle", thread'[u].op = "log",
               thread'[u].call > 0
        PROVE  OnConsole(u)'
    <3>1. CASE u = t
      <4>1. thread[t].at = "unlock" /\ thread[t].op = "log" /\ thread'[t].call = thread[t].call
        BY <1>2, <2>2, <3>1, QuietCalls
      <4>2. OnConsole(t)
        BY <4>1 DEF WrittenInv
      <4> QED BY <2>1, <3>1, <4>1, <4>2 DEF OnConsole
    <3>2. CASE u # t
      BY <1>0, <2>1, <2>2, <3>2 DEF OnConsole
    <3> QED BY <3>1, <3>2
  <2> QED BY <1>0, <2>1, <2>2 DEF EachCallOnce
<1>3. ASSUME NEW t \in Threads, NEW part \in {"head", "tail"}, Write(t, part),
             \/ WriteHead(t) /\ part = "head"
             \/ WriteTail(t) /\ part = "tail"
      PROVE  EachCallOnce'
  <2> DEFINE here == thread[t].sink
             p == Piece(t, part)
  <2>1. /\ \A u \in Threads \ {t} : thread'[u] = thread[u]
        /\ thread'[t].at # "idle" /\ here \in Sinks
    BY <1>3, WritePlaces DEF WriteHead, WriteTail, Moves, TypeOK
  <2>2. \/ part = "head" /\ thread[t].at = "head"
        \/ part = "tail" /\ thread[t].at = "tail"
    BY <1>3 DEF WriteHead, WriteTail, Moves
  <2>3. \A s \in Sinks : \A i \in 1..Len(written[s]) :
          /\ ~SamePart(written[s][i], p)
          /\ written[s][i].of = t => written[s][i].call <= p.call
    BY <2>2, NewPiece
  <2>4. p.of = t
    BY PieceFields
  <2>5. /\ \A s \in Sinks : Len(written[s]) \in Nat
        /\ \A s \in Sinks \ {here} : written'[s] = written[s]
        /\ Len(written'[here]) = Len(written[here]) + 1
        /\ written'[here][Len(written[here]) + 1] = p
        /\ \A i \in 1..Len(written[here]) : written'[here][i] = written[here][i]
    BY <1>3, <2>1, WriteSinks
  <2> HIDE DEF here, p
  <2>6. ASSUME NEW s \in Sinks, NEW i \in 1..Len(written'[s])
        PROVE  \/ i \in 1..Len(written[s]) /\ written'[s][i] = written[s][i]
               \/ s = here /\ i = Len(written[here]) + 1 /\ written'[s][i] = p
    BY <2>5, <2>6
  <2>7. ASSUME NEW s \in Sinks, NEW u \in Sinks,
               NEW i \in 1..Len(written'[s]), NEW j \in 1..Len(written'[u]),
               SamePart(written'[s][i], written'[u][j])
        PROVE  s = u /\ i = j
    <3>1. SamePart(written'[u][j], written'[s][i])
      BY <2>7 DEF SamePart
    <3> QED BY <1>0, <2>3, <2>6, <2>7, <3>1
  <2>8. ASSUME NEW s \in Sinks, NEW i \in 1..Len(written'[s]), NEW j \in 1..Len(written'[s]),
               i < j, written'[s][i].of = written'[s][j].of
        PROVE  written'[s][i].call <= written'[s][j].call
    <3>1. i \in 1..Len(written[s]) /\ written'[s][i] = written[s][i]
      BY <2>5, <2>6, <2>8
    <3>2. CASE j \in 1..Len(written[s]) /\ written'[s][j] = written[s][j]
      BY <1>0, <2>8, <3>1, <3>2
    <3>3. CASE written'[s][j] = p
      BY <2>3, <2>4, <2>8, <3>1, <3>3
    <3> QED BY <2>6, <3>2, <3>3
  <2>9. ASSUME NEW u \in Threads, thread'[u].at = "idle", thread'[u].op = "log",
               thread'[u].call > 0
        PROVE  OnConsole(u)'
    <3>1. u # t /\ thread'[u] = thread[u]
      BY <2>1, <2>9
    <3> QED BY <1>0, <1>3, <2>9, <3>1, ConsoleKeeps
  <2> QED BY <2>7, <2>8, <2>9 DEF EachCallOnce
<1>4. ASSUME NEW t \in Threads, WriteHead(t) \/ WriteTail(t)
      PROVE  EachCallOnce'
  BY <1>3, <1>4 DEF WriteHead, WriteTail
<1> QED BY <1>1, <1>2, <1>4, NextCases

\* A call of log has written its line to the console when it returns, no call
\* writes twice, and a thread's lines are in the order of its calls, for any
\* number of threads and calls.
THEOREM CallsWriteOnce == Spec => []EachCallOnce
<1>1. Init => WrittenInv /\ EachCallOnce
  <2>1. ASSUME Init PROVE /\ \A s \in Sinks : Len(written[s]) = 0
                          /\ \A t \in Threads : thread[t].at = "idle" /\ thread[t].call = 0
    BY <2>1 DEF Init
  <2> QED BY <2>1 DEF WrittenInv, EachCallOnce
<1>2. IInv /\ WrittenInv /\ EachCallOnce /\ [Next]_vars => WrittenInv' /\ EachCallOnce'
  BY WrittenStep, OnceStep DEF IInv
<1> QED BY <1>1, <1>2, Invariance, PTL DEF Spec
=============================================================================
