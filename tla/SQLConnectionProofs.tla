------------------------ MODULE SQLConnectionProofs ------------------------
(***************************************************************************)
(* Proofs about SQLConnection, for any number of objects, handles, files.  *)
(***************************************************************************)
EXTENDS SQLConnection, TLAPS

LEMMA InitInv == Init => IInv
  BY SQLConnectionAssumption DEF Init, IInv, TypeOK, HoldsItsHandle, Absent

ConnectionType ==
  [alive : BOOLEAN, guarded : BOOLEAN, connected : BOOLEAN,
   db : Handles \cup {NoHandle}, filename : Files \cup {NoFile}]

\* An attempt to open, of an object that is not connected or that gives up its
\* handle, keeps the invariant.
LEMMA TryOpenInv ==
  ASSUME IInv, NEW c \in Connections, NEW s \in ConnectionType, s.alive,
         NEW file \in Files, TryOpen(c, s, file)
  PROVE  IInv'
<1>1. CASE \E h \in Free :
             /\ opened' = [opened EXCEPT ![h] = file]
             /\ conn' = [conn EXCEPT ![c] =
                  [s EXCEPT !.db = h, !.connected = TRUE, !.filename = file]]
  <2>1. PICK h \in Free :
             /\ opened' = [opened EXCEPT ![h] = file]
             /\ conn' = [conn EXCEPT ![c] =
                  [s EXCEPT !.db = h, !.connected = TRUE, !.filename = file]]
    BY <1>1
  <2>2. h \in Handles /\ opened[h] = NoFile
    BY DEF Free
  <2>3. TypeOK'
    BY <2>1, <2>2 DEF IInv, TypeOK, ConnectionType
  <2>4. \A d \in Connections : conn[d].connected => conn[d].db # h
    BY <2>2, SQLConnectionAssumption DEF IInv, HoldsItsHandle
  <2>5. HoldsItsHandle'
    <3>1. /\ conn'[c].alive /\ conn'[c].connected
          /\ conn'[c].db = h /\ conn'[c].filename = file
          /\ \A d \in Connections \ {c} : conn'[d] = conn[d]
      BY <2>1 DEF IInv, TypeOK, ConnectionType
    <3>2. opened'[h] = file /\ \A k \in Handles \ {h} : opened'[k] = opened[k]
      BY <2>1, <2>2 DEF IInv, TypeOK
    <3>. QED  BY <2>2, <2>4, <3>1, <3>2 DEF IInv, HoldsItsHandle
  <2>. QED  BY <2>3, <2>5 DEF IInv
<1>2. CASE \E h \in Free \cup {NoHandle} :
             /\ conn' = [conn EXCEPT ![c] =
                  [s EXCEPT !.db = h, !.connected = FALSE, !.filename = file]]
             /\ UNCHANGED opened
  <2>1. PICK h \in Free \cup {NoHandle} :
             /\ conn' = [conn EXCEPT ![c] =
                  [s EXCEPT !.db = h, !.connected = FALSE, !.filename = file]]
             /\ UNCHANGED opened
    BY <1>2
  <2>2. TypeOK'
    BY <2>1 DEF IInv, TypeOK, ConnectionType, Free
  <2>3. HoldsItsHandle'
    <3>1. ~conn'[c].connected /\ \A d \in Connections \ {c} : conn'[d] = conn[d]
      BY <2>1 DEF IInv, TypeOK, ConnectionType
    <3>. QED  BY <2>1, <3>1 DEF IInv, HoldsItsHandle
  <2>. QED  BY <2>2, <2>3 DEF IInv
<1>. QED  BY <1>1, <1>2 DEF TryOpen

\* open() and the guard's open(): s differs from the object in its guard only.
LEMMA OpeningInv ==
  ASSUME IInv, NEW c \in Connections, NEW s \in ConnectionType, s.alive, Opening(c, s),
         s.connected = conn[c].connected, s.db = conn[c].db, s.filename = conn[c].filename
  PROVE  IInv'
<1>1. CASE s.connected \/ s.filename = NoFile
  <2>1. TypeOK'
    BY <1>1 DEF IInv, TypeOK, ConnectionType, Opening
  <2>2. /\ opened' = opened
        /\ conn' = [conn EXCEPT ![c] = s] /\ conn \in [Connections -> ConnectionType]
    BY <1>1 DEF IInv, TypeOK, ConnectionType, Opening
  <2>3. conn'[c] = s /\ \A d \in Connections \ {c} : conn'[d] = conn[d]
    BY <2>2
  <2>4. \A d \in Connections :
          /\ conn'[d].connected = conn[d].connected /\ conn'[d].db = conn[d].db
          /\ conn'[d].filename = conn[d].filename /\ (conn[d].alive => conn'[d].alive)
    BY <2>3
  <2>5. HoldsItsHandle'
    BY <2>2, <2>4 DEF IInv, HoldsItsHandle
  <2>. QED  BY <2>1, <2>5 DEF IInv
<1>2. CASE ~(s.connected \/ s.filename = NoFile)
  <2>1. s.filename \in Files /\ TryOpen(c, s, s.filename)
    BY <1>2 DEF Opening, ConnectionType
  <2>. QED  BY <2>1, TryOpenInv
<1>. QED  BY <1>1, <1>2

\* close() and the destructors: the object gives up its handle, if it has one.
LEMMA ClosingInv ==
  ASSUME IInv, NEW c \in Connections, NEW s \in ConnectionType, ~s.connected, Closing(c, s)
  PROVE  IInv'
<1>1. TypeOK'
  BY DEF IInv, TypeOK, ConnectionType, Closing, OpenedWithout
<1>2. \A d \in Connections \ {c} :
        conn[d].connected => OpenedWithout(conn[c])[conn[d].db] = opened[conn[d].db]
  BY DEF IInv, HoldsItsHandle, OpenedWithout
<1>3. HoldsItsHandle'
  <2>1. ~conn'[c].connected /\ \A d \in Connections \ {c} : conn'[d] = conn[d]
    BY DEF IInv, TypeOK, ConnectionType, Closing
  <2>. QED  BY <1>2, <2>1 DEF IInv, HoldsItsHandle, Closing
<1>. QED  BY <1>1, <1>3 DEF IInv

\* What close() leaves is an object without a connection.
LEMMA ClosedFacts ==
  ASSUME NEW s \in ConnectionType
  PROVE  Closed(s) \in ConnectionType /\ ~Closed(s).connected
  BY DEF Closed, ConnectionType

LEMMA NextInv == IInv /\ [Next]_vars => IInv'
<1>. SUFFICES ASSUME IInv, [Next]_vars PROVE IInv'
  OBVIOUS
<1>1. CASE UNCHANGED vars
  BY <1>1 DEF vars, IInv, TypeOK, HoldsItsHandle
<1>2. ASSUME NEW c \in Connections, Construct(c) PROVE IInv'
  <2>1. TypeOK'
    <3>1. PICK file \in Files \cup {NoFile} :
            conn' = [conn EXCEPT ![c] = [Absent EXCEPT !.alive = TRUE, !.filename = file]]
      BY <1>2 DEF Construct
    <3>2. [Absent EXCEPT !.alive = TRUE, !.filename = file] \in ConnectionType
      BY DEF Absent, ConnectionType
    <3>. QED  BY <1>2, <3>1, <3>2 DEF IInv, TypeOK, Construct, ConnectionType
  <2>2. HoldsItsHandle'
    <3>1. /\ ~conn'[c].connected /\ opened' = opened
          /\ \A d \in Connections \ {c} : conn'[d] = conn[d]
      BY <1>2 DEF IInv, TypeOK, Construct, Absent
    <3>. QED  BY <3>1 DEF IInv, HoldsItsHandle
  <2>. QED  BY <2>1, <2>2 DEF IInv
<1>. DEFINE s(c) == conn[c]
<1>3. \A c \in Connections : s(c) \in ConnectionType
  BY DEF IInv, TypeOK, ConnectionType
<1>4. Absent \in ConnectionType /\ ~Absent.connected
  BY DEF Absent, ConnectionType
<1>5. ASSUME NEW c \in Connections, Destruct(c) PROVE IInv'
  BY <1>4, <1>5, ClosingInv DEF Destruct
<1>6. ASSUME NEW c \in Connections, Open(c) PROVE IInv'
  BY <1>3, <1>6, OpeningInv DEF Open
<1>7. ASSUME NEW c \in Connections, Close(c) PROVE IInv'
  BY <1>3, <1>7, ClosingInv, ClosedFacts DEF Close
<1>8. ASSUME NEW c \in Connections, NEW file \in Files, OpenFile(c, file) PROVE IInv'
  BY <1>3, <1>8, TryOpenInv DEF OpenFile
<1>9. ASSUME NEW c \in Connections, EnterGuard(c) PROVE IInv'
  <2>. DEFINE n == [conn[c] EXCEPT !.guarded = TRUE]
  <2>1. /\ n \in ConnectionType /\ n.alive = conn[c].alive
        /\ n.connected = conn[c].connected
        /\ n.db = conn[c].db /\ n.filename = conn[c].filename
    BY <1>3 DEF ConnectionType
  <2>. HIDE DEF n
  <2>2. Opening(c, n) /\ n.alive
    BY <1>9, <2>1 DEF EnterGuard, n
  <2>. QED  BY <2>1, <2>2, OpeningInv
<1>10. ASSUME NEW c \in Connections, LeaveGuard(c) PROVE IInv'
  <2>. DEFINE n == [Closed(conn[c]) EXCEPT !.guarded = FALSE]
  <2>1. Closed(conn[c]) \in ConnectionType /\ ~Closed(conn[c]).connected
    BY <1>3, ClosedFacts
  <2>2. n \in ConnectionType /\ ~n.connected
    BY <2>1 DEF ConnectionType
  <2>. QED  BY <1>10, <2>2, ClosingInv DEF LeaveGuard
<1>. QED  BY <1>1, <1>2, <1>5, <1>6, <1>7, <1>8, <1>9, <1>10 DEF Next

\* A connected object holds an open handle, on the file it names, that no other
\* object holds, whatever opens fail and whatever stale addresses remain.
THEOREM Invariance == Spec => []IInv
  BY InitInv, NextInv, PTL DEF Spec

\* In a step of an object that does not change the name it is connected under,
\* every handle that was held is held after it, or is closed.
LEMMA NoneLost ==
  ASSUME IInv, NEW c \in Connections,
         \A d \in Connections \ {c} : conn'[d] = conn[d],
         \A h \in Handles : opened'[h] # NoFile =>
           \/ opened[h] # NoFile /\ (conn[c].connected => conn[c].db # h)
           \/ conn'[c].connected /\ conn'[c].db = h
  PROVE  Lost' \subseteq Lost
<1>. SUFFICES ASSUME NEW h \in Handles, opened'[h] # NoFile,
                     \A d \in Connections : conn'[d].connected => conn'[d].db # h
              PROVE  h \in Lost
  BY DEF Lost
<1>1. opened[h] # NoFile /\ (conn[c].connected => conn[c].db # h)
  OBVIOUS
<1>2. \A d \in Connections \ {c} : conn[d].connected => conn[d].db # h
  OBVIOUS
<1>. QED  BY <1>1, <1>2 DEF Lost

Reopened ==
  {conn[c].db : c \in {d \in Connections :
     conn[d].connected /\ conn'[d].filename \notin {conn[d].filename, NoFile}}}

\* An attempt to open loses no handle but that of an object connected before.
LEMMA TryOpenLoses ==
  ASSUME IInv, NEW c \in Connections, NEW s \in ConnectionType, NEW file \in Files,
         TryOpen(c, s, file), conn[c].connected => conn[c].filename # file
  PROVE  Lost' \subseteq Lost \cup Reopened
<1>0. /\ opened \in [Handles -> Files \cup {NoFile}]
      /\ conn \in [Connections -> ConnectionType]
  BY DEF IInv, TypeOK, ConnectionType
<1>1. PICK h \in Free \cup {NoHandle}, ok \in BOOLEAN :
        /\ conn' = [conn EXCEPT ![c] =
             [s EXCEPT !.db = h, !.connected = ok, !.filename = file]]
        /\ opened' = IF ok THEN [opened EXCEPT ![h] = file] ELSE opened
  BY DEF TryOpen
<1>2. /\ \A d \in Connections \ {c} : conn'[d] = conn[d]
      /\ conn'[c] = [s EXCEPT !.db = h, !.connected = ok, !.filename = file]
  BY <1>0, <1>1
<1>3. /\ conn'[c].filename = file /\ file # NoFile
      /\ conn'[c].connected = ok /\ conn'[c].db = h
  BY <1>2, SQLConnectionAssumption DEF ConnectionType
<1>4. conn[c].connected => conn[c].db \in Reopened
  BY <1>3 DEF Reopened
<1>5. ASSUME NEW g \in Handles, opened'[g] # NoFile
      PROVE  opened[g] # NoFile \/ (conn'[c].connected /\ conn'[c].db = g)
  BY <1>0, <1>1, <1>3, <1>5
<1>. SUFFICES ASSUME NEW g \in Handles, opened'[g] # NoFile, g \notin Reopened,
                     \A d \in Connections : conn'[d].connected => conn'[d].db # g
              PROVE  g \in Lost
  BY DEF Lost
<1>6. opened[g] # NoFile
  BY <1>5
<1>7. \A d \in Connections : conn[d].connected => conn[d].db # g
  BY <1>2, <1>4
<1>. QED  BY <1>6, <1>7 DEF Lost

LEMMA OpeningLoses ==
  ASSUME IInv, NEW c \in Connections, NEW s \in ConnectionType, Opening(c, s),
         s.connected = conn[c].connected, s.db = conn[c].db, s.filename = conn[c].filename
  PROVE  Lost' \subseteq Lost \cup Reopened
<1>1. CASE s.connected \/ s.filename = NoFile
  <2>1. /\ \A d \in Connections : /\ conn'[d].connected = conn[d].connected
                                  /\ conn'[d].db = conn[d].db
        /\ opened' = opened
    BY <1>1 DEF Opening, IInv, TypeOK, ConnectionType
  <2>. QED  BY <2>1 DEF Lost
<1>2. CASE ~(s.connected \/ s.filename = NoFile)
  <2>1. s.filename \in Files /\ TryOpen(c, s, s.filename) /\ ~conn[c].connected
    BY <1>2 DEF Opening, ConnectionType
  <2>. QED  BY <2>1, TryOpenLoses
<1>. QED  BY <1>1, <1>2

LEMMA ClosingLoses ==
  ASSUME IInv, NEW c \in Connections, NEW s \in ConnectionType, Closing(c, s)
  PROVE  Lost' \subseteq Lost
<1>1. \A d \in Connections \ {c} : conn'[d] = conn[d]
  BY DEF Closing, IInv, TypeOK
<1>2. \A h \in Handles : opened'[h] # NoFile =>
        opened[h] # NoFile /\ (conn[c].connected => conn[c].db # h)
  BY DEF Closing, OpenedWithout
<1>. QED  BY <1>1, <1>2, NoneLost

\* No step loses a handle but that of an object opened on another name.
LEMMA NextLoses ==
  IInv /\ [Next]_vars => Lost' \subseteq Lost \cup Reopened
<1>. DEFINE Keeps == Lost' \subseteq Lost \cup Reopened
<1>. SUFFICES ASSUME IInv, [Next]_vars PROVE Keeps
  OBVIOUS
<1>1. CASE UNCHANGED vars
  BY <1>1 DEF vars, Lost
<1>2. ASSUME NEW c \in Connections, Construct(c) PROVE Keeps
  <2>1. \A d \in Connections \ {c} : conn'[d] = conn[d]
    BY <1>2 DEF Construct, IInv, TypeOK
  <2>2. ~conn[c].connected /\ opened' = opened
    BY <1>2 DEF Construct, IInv, HoldsItsHandle
  <2>3. Lost' \subseteq Lost
    BY <2>1, <2>2, NoneLost
  <2>. QED  BY <2>3
<1>3. \A c \in Connections : conn[c] \in ConnectionType
  BY DEF IInv, TypeOK, ConnectionType
<1>4. ASSUME NEW c \in Connections, Destruct(c) PROVE Keeps
  <2>1. Absent \in ConnectionType
    BY DEF Absent, ConnectionType
  <2>. QED  BY <1>4, <2>1, ClosingLoses DEF Destruct
<1>5. ASSUME NEW c \in Connections, Open(c) PROVE Keeps
  BY <1>3, <1>5, OpeningLoses DEF Open
<1>6. ASSUME NEW c \in Connections, Close(c) PROVE Keeps
  BY <1>3, <1>6, ClosedFacts, ClosingLoses DEF Close
<1>7. ASSUME NEW c \in Connections, NEW file \in Files, OpenFile(c, file) PROVE Keeps
  <2>1. conn[c] \in ConnectionType /\ TryOpen(c, conn[c], file)
    BY <1>3, <1>7 DEF OpenFile
  <2>2. conn[c].connected => conn[c].filename # file
    BY <1>7 DEF OpenFile
  <2>. QED  BY <2>1, <2>2, TryOpenLoses
<1>8. ASSUME NEW c \in Connections, EnterGuard(c) PROVE Keeps
  <2>. DEFINE n == [conn[c] EXCEPT !.guarded = TRUE]
  <2>1. /\ n \in ConnectionType /\ n.connected = conn[c].connected
        /\ n.db = conn[c].db /\ n.filename = conn[c].filename
    BY <1>3 DEF ConnectionType
  <2>. HIDE DEF n
  <2>2. Opening(c, n)
    BY <1>8 DEF EnterGuard, n
  <2>. QED  BY <2>1, <2>2, OpeningLoses
<1>9. ASSUME NEW c \in Connections, LeaveGuard(c) PROVE Keeps
  <2>. DEFINE n == [Closed(conn[c]) EXCEPT !.guarded = FALSE]
  <2>1. Closed(conn[c]) \in ConnectionType
    BY <1>3, ClosedFacts
  <2>2. n \in ConnectionType
    BY <2>1 DEF ConnectionType
  <2>. QED  BY <1>9, <2>2, ClosingLoses DEF LeaveGuard
<1>. QED  BY <1>1, <1>2, <1>4, <1>5, <1>6, <1>7, <1>8, <1>9 DEF Next

\* Whatever is opened, closed, guarded and destroyed in whatever order, a handle
\* is lost only when a connected object is opened on another name (line 29).
THEOREM HandlesAreClosed == Spec => LostOnlyByReopening
<1>1. ASSUME IInv, [Next]_vars
      PROVE  [Lost' \subseteq Lost \cup
               {conn[c].db : c \in {d \in Connections : conn[d].connected
                  /\ conn'[d].filename \notin {conn[d].filename, NoFile}}}]_vars
  BY <1>1, NextLoses DEF Reopened
<1>. QED  BY <1>1, Invariance, PTL DEF Spec, LostOnlyByReopening

\* Opening changes no name under which an object is connected.
LEMMA OpeningKeepsNames ==
  ASSUME IInv, NEW c \in Connections, NEW s \in ConnectionType, Opening(c, s),
         s.connected = conn[c].connected, s.filename = conn[c].filename,
         NEW d \in Connections, conn[d].connected
  PROVE  conn'[d].filename = conn[d].filename
<1>1. conn \in [Connections -> ConnectionType]
  BY DEF IInv, TypeOK, ConnectionType
<1>2. CASE d = c
  <2>1. conn' = [conn EXCEPT ![c] = s]
    BY <1>2 DEF Opening
  <2>. QED  BY <1>1, <1>2, <2>1
<1>3. CASE d # c
  <2>1. \E r : conn' = [conn EXCEPT ![c] = r]
    BY DEF Opening, TryOpen
  <2>. QED  BY <1>1, <1>3, <2>1
<1>. QED  BY <1>2, <1>3

\* The calls of the server keep the name that an object is connected under.
LEMMA ServerKeepsNames ==
  ASSUME IInv, ServerNext, NEW d \in Connections, conn[d].connected
  PROVE  conn'[d].filename \in {conn[d].filename, NoFile}
<1>1. conn \in [Connections -> ConnectionType]
  BY DEF IInv, TypeOK, ConnectionType
<1>2. PICK c \in Connections :
        Construct(c) \/ Destruct(c) \/ Open(c) \/ EnterGuard(c) \/ LeaveGuard(c)
  BY DEF ServerNext
<1>3. CASE Construct(c)
  BY <1>1, <1>3 DEF Construct, IInv, HoldsItsHandle
<1>4. CASE Destruct(c)
  BY <1>1, <1>4 DEF Destruct, Closing, Absent
<1>5. CASE Open(c)
  BY <1>1, <1>5, OpeningKeepsNames DEF Open
<1>6. CASE EnterGuard(c)
  <2>. DEFINE n == [conn[c] EXCEPT !.guarded = TRUE]
  <2>1. /\ n \in ConnectionType /\ n.connected = conn[c].connected
        /\ n.filename = conn[c].filename
    BY <1>1 DEF ConnectionType
  <2>. HIDE DEF n
  <2>2. Opening(c, n)
    BY <1>6 DEF EnterGuard, n
  <2>. QED  BY <2>1, <2>2, OpeningKeepsNames
<1>7. CASE LeaveGuard(c)
  BY <1>1, <1>7 DEF LeaveGuard, Closing, Closed, ConnectionType
<1>. QED  BY <1>2, <1>3, <1>4, <1>5, <1>6, <1>7

\* The server leaks no handle: whatever opens fail, each handle that is open
\* belongs to an object that is alive and whose close() will close it.
THEOREM ServerLosesNone == ServerSpec => [](Lost = {})
<1>1. Init => Lost = {}
  BY DEF Init, Lost
<1>2. ServerNext => Next
  BY DEF ServerNext, Next
<1>3. ASSUME IInv, Lost = {}, [ServerNext]_vars PROVE (Lost = {})'
  <2>1. CASE UNCHANGED vars
    BY <1>3, <2>1 DEF vars, Lost
  <2>2. CASE ServerNext
    <3>1. Reopened = {}
      BY <1>3, <2>2, ServerKeepsNames DEF Reopened
    <3>2. Lost' \subseteq Lost \cup Reopened
      BY <1>2, <1>3, <2>2, NextLoses
    <3>. QED  BY <1>3, <3>1, <3>2
  <2>. QED  BY <1>3, <2>1, <2>2
<1>4. IInv /\ [ServerNext]_vars => IInv'
  BY <1>2, NextInv
<1>. QED  BY <1>1, <1>3, <1>4, InitInv, PTL DEF ServerSpec
=============================================================================
