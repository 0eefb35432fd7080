--------------------------- MODULE SQLConnection ---------------------------
(***************************************************************************)
(* The class SQLConnection and its guard UniqueSQLConnection: objects that *)
(* open and close handles of SQLite.  A handle is an address: once it is   *)
(* closed SQLite may hand it out again, to this object or to another one,  *)
(* while the object that closed it may still hold the stale address.       *)
(***************************************************************************)
CONSTANTS
  Connections,   \* the objects
  Handles,       \* bound: the addresses SQLite has for its handles
  Files,         \* names of database files
  NoHandle,      \* nullptr
  NoFile         \* the empty name, and what a handle that is not open is open on

ASSUME SQLConnectionAssumption == NoHandle \notin Handles /\ NoFile \notin Files

VARIABLES
  opened,   \* SQLite: the file each handle is open on
  conn      \* the objects

vars == <<opened, conn>>

Absent == [alive |-> FALSE, guarded |-> FALSE, connected |-> FALSE,
           db |-> NoHandle, filename |-> NoFile]

TypeOK ==
  /\ opened \in [Handles -> Files \cup {NoFile}]
  /\ conn \in [Connections ->
                 [alive : BOOLEAN, guarded : BOOLEAN, connected : BOOLEAN,
                  db : Handles \cup {NoHandle}, filename : Files \cup {NoFile}]]

Init ==
  /\ opened = [h \in Handles |-> NoFile]
  /\ conn = [c \in Connections |-> Absent]

Free == {h \in Handles : opened[h] = NoFile}

\* sqlite3_open, and what open() and open(file) do with its result.  When it fails,
\* a handle that it made nevertheless is closed at once, and db_ keeps its address.
TryOpen(c, s, file) ==
  \/ \E h \in Free :
       /\ opened' = [opened EXCEPT ![h] = file]
       /\ conn' = [conn EXCEPT ![c] =
                     [s EXCEPT !.db = h, !.connected = TRUE, !.filename = file]]
  \/ \E h \in Free \cup {NoHandle} :
       /\ conn' = [conn EXCEPT ![c] =
                     [s EXCEPT !.db = h, !.connected = FALSE, !.filename = file]]
       /\ UNCHANGED opened

\* SQLConnection::open() of the object s
Opening(c, s) ==
  IF s.connected \/ s.filename = NoFile
  THEN conn' = [conn EXCEPT ![c] = s] /\ UNCHANGED opened
  ELSE TryOpen(c, s, s.filename)

\* Variant: close() looks at db_ and not at connected_.
OpenedWithoutByAddress(s) ==
  [h \in Handles |-> IF h = s.db THEN NoFile ELSE opened[h]]

\* SQLConnection::close(): the handles, and the object, after it
Closed(s) ==
  IF s.connected THEN [s EXCEPT !.db = NoHandle, !.connected = FALSE] ELSE s
OpenedWithout(s) ==
  [h \in Handles |-> IF s.connected /\ h = s.db THEN NoFile ELSE opened[h]]

Closing(c, s) ==
  /\ opened' = OpenedWithout(conn[c])
  /\ conn' = [conn EXCEPT ![c] = s]
-----------------------------------------------------------------------------
\* The constructors, of which the default one leaves the name empty
Construct(c) ==
  /\ ~conn[c].alive
  /\ \E file \in Files \cup {NoFile} :
       conn' = [conn EXCEPT ![c] = [Absent EXCEPT !.alive = TRUE, !.filename = file]]
  /\ UNCHANGED opened

Open(c) ==
  /\ conn[c].alive
  /\ Opening(c, conn[c])

\* open(file) for a name that is not empty
OpenFile(c, file) ==
  /\ conn[c].alive
  /\ ~(conn[c].connected /\ conn[c].filename = file)
  /\ TryOpen(c, conn[c], file)

\* close(), and open(file) for the empty name
Close(c) ==
  /\ conn[c].alive
  /\ Closing(c, Closed(conn[c]))

\* UniqueSQLConnection, of which an object has one at a time
EnterGuard(c) ==
  /\ conn[c].alive
  /\ ~conn[c].guarded
  /\ Opening(c, [conn[c] EXCEPT !.guarded = TRUE])

LeaveGuard(c) ==
  /\ conn[c].guarded
  /\ Closing(c, [Closed(conn[c]) EXCEPT !.guarded = FALSE])

\* Variant: the destructor does not close.
DestructOnly(c) ==
  /\ conn[c].alive
  /\ ~conn[c].guarded
  /\ conn' = [conn EXCEPT ![c] = Absent]
  /\ UNCHANGED opened

\* ~SQLConnection; a guard refers to the object and goes before it
Destruct(c) ==
  /\ conn[c].alive
  /\ ~conn[c].guarded
  /\ Closing(c, Absent)

Next ==
  \E c \in Connections :
    \/ Construct(c) \/ Destruct(c)
    \/ Open(c) \/ Close(c) \/ (\E file \in Files : OpenFile(c, file))
    \/ EnterGuard(c) \/ LeaveGuard(c)

Spec == Init /\ [][Next]_vars
-----------------------------------------------------------------------------
\* A connected object holds a handle that is open, on the file it names, and
\* that no other object holds: no query runs on a handle that was closed or on
\* another file, and no close() takes away the handle of somebody else, although
\* a failed open leaves the address of a closed handle in db_ (lines 13-15).
HoldsItsHandle ==
  \A c \in Connections : conn[c].connected =>
    /\ conn[c].alive
    /\ conn[c].db \in Handles
    /\ conn[c].filename \in Files /\ opened[conn[c].db] = conn[c].filename
    /\ \A d \in Connections \ {c} : conn[d].connected => conn[d].db # conn[c].db

IInv == TypeOK /\ HoldsItsHandle

\* Open handles that no object will close.
Lost ==
  {h \in Handles : opened[h] # NoFile
                     /\ \A c \in Connections : conn[c].connected => conn[c].db # h}

\* The calls that the server makes: its objects are constructed, opened, guarded
\* and destroyed, and never closed by hand or opened on another name.
ServerNext ==
  \E c \in Connections :
    Construct(c) \/ Destruct(c) \/ Open(c) \/ EnterGuard(c) \/ LeaveGuard(c)

ServerSpec == Init /\ [][ServerNext]_vars

\* A handle is lost only by open(file) on a connected object with another name
\* (line 29 overwrites db_): open(), close(), the guard and the destructor lose
\* none, in whatever order they are called and whichever opens fail.
LostOnlyByReopening ==
  [][Lost' \subseteq Lost \cup
       {conn[c].db : c \in {d \in Connections :
          conn[d].connected /\ conn'[d].filename \notin {conn[d].filename, NoFile}}}]_vars
=============================================================================
