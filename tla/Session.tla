------------------------------- MODULE Session -------------------------------
(***************************************************************************)
(* The class Session: one object per connection, one request per object.   *)
(* receiveDataHandle runs on the thread that runs io_service; its steps    *)
(* here are the points between which a peer can reset the connection or    *)
(* the process can die: the calls into the socket and into SQLite.         *)
(***************************************************************************)
EXTENDS Requests, Users

CONSTANTS
  Sessions,   \* the connections that can be open at the same time
  IPs,        \* the addresses clients connect from
  Passwords,  \* the strings generatePassword draws from
  Hashes,     \* the values of std::hash<std::string>
  Hash,       \* std::hash<std::string>
  MaxUsers,   \* bound: the rows the disk has room for (SQLITE_FULL after it)
  Faults,     \* the failures that the environment produces
  NoIp        \* the address of a socket that is not connected

FaultKinds == {"reset", "accept", "open", "sql", "crash"}

ASSUME SessionAssumption ==
  /\ Passwords \subseteq Alnums
  /\ Hash \in [Tokens \cup {""} -> Hashes]
  /\ MaxUsers \in Nat
  /\ Faults \subseteq FaultKinds
  /\ NoIp \notin IPs
  /\ NULL \notin Hashes
  /\ NULL \notin Numbers \X Numbers
  /\ NULL \notin Nat
  /\ NoEntry \notin (Numbers \X Numbers) \cup {NULL} \cup Nat

VARIABLES
  users,      \* the rows of the table users, in the file
  created,    \* the table exists in the file
  session     \* the Session objects

sessionVars == <<users, created, session>>
-----------------------------------------------------------------------------
\* Steps of receiveDataHandle, each named for what it does next.
HandlerSteps ==
  {"init", "select", "insert", "reselect", "set_password",
   "store", "update", "friend", "find", "fetch", "reply"}

\* "received" and "read_error": the completion of async_read_some is queued.
Phases == {"free", "accepted", "reading", "received", "read_error"} \cup HandlerSteps

Coordinates == Numbers \X Numbers

Reply(kind) == [kind |-> kind]
NoReply == Reply("none")

Results == [id : Nat \cup {NoEntry}, coordinates : Coordinates \cup {NULL, NoEntry}]

Replies ==
  [kind : {"none", "ok", "wrong", "err 1", "err 2"}]
    \cup [kind : {"credentials"}, id : Nat, pass : Passwords]
    \cup [kind : {"coordinates"}, coordinates : Coordinates]

SessionType ==
  [phase : Phases, ip : IPs \cup {NoIp}, alive : BOOLEAN,
   sent : Messages \cup {<<>>}, message : Seq(Tokens),
   connected : BOOLEAN, database : [results : Results, failed : BOOLEAN],
   reply : Replies]

\* A Session as its constructor leaves it, its socket not yet connected.
FreshSession ==
  [phase |-> "free", ip |-> NoIp, alive |-> FALSE, sent |-> <<>>, message |-> <<>>,
   connected |-> FALSE, database |-> NewDatabase, reply |-> NoReply]

Goto(c, step) == [session EXCEPT ![c].phase = step]

\* Variants: sessions that are used again without a new SQLDatabase; a session
\* that reads on after its request.
DestroyedKeepsDatabase(c) ==
  [session EXCEPT ![c] = [FreshSession EXCEPT !.database = session[c].database]]
DestroyedReadsOn(c) == Goto(c, "reading")

\* The last shared_ptr goes: the socket is closed and with it the connection.
Destroyed(c) == [session EXCEPT ![c] = FreshSession]

Continue(c, step) == IF step = "free" THEN Destroyed(c) ELSE Goto(c, step)

\* Variant: several threads call io_service.run().
IdleManyThreads == TRUE

\* The one thread that runs io_service is not inside a handler of a session.
Idle == \A d \in Sessions : session[d].phase \notin HandlerSteps
-----------------------------------------------------------------------------
\* The socket and its peer.

Connected(c, ip) ==
  [session EXCEPT ![c].phase = "accepted", ![c].ip = ip, ![c].alive = TRUE]

DataArrives(c) ==
  /\ session[c].phase = "reading"
  /\ session[c].alive
  /\ \E m \in Messages : \E got \in Segments(m) :
       session' = [session EXCEPT ![c].phase = "received",
                                  ![c].sent = m, ![c].message = got]
  /\ UNCHANGED <<users, created>>

\* The peer closes or resets the connection, whatever the session is doing.
Reset(c) ==
  /\ "reset" \in Faults
  /\ session[c].alive
  /\ session' = [session EXCEPT ![c].alive = FALSE]
  /\ UNCHANGED <<users, created>>

ReadFails(c) ==
  /\ session[c].phase = "reading"
  /\ ~session[c].alive
  /\ session' = Goto(c, "read_error")
  /\ UNCHANGED <<users, created>>
-----------------------------------------------------------------------------
\* Session::start and the branches of Session::receiveDataHandle.

Started(c) == Goto(c, "reading")

FriendStep(m) == IF CheckFriendFormat(FriendOf(m)) THEN "friend" ELSE "free"

\* Variant: coordinates are stored as they come.
FirstStepNoFormatCheck(m) ==
  CASE Header(m) = "/init" -> "init"
    [] Header(m) \in {"/store", "/store_and_get"} -> "store"
    [] Header(m) \in {"/get", "/check"} -> FriendStep(m)
    [] OTHER -> "free"

FirstStep(m) ==
  CASE Header(m) = "/init" -> "init"
    [] Header(m) = "/store" ->
         IF CheckCoordinatesFormat(CoordinatesOf(m)) THEN "store" ELSE "free"
    [] Header(m) = "/store_and_get" ->
         IF CheckCoordinatesFormat(CoordinatesOf(m)) THEN "store" ELSE FriendStep(m)
    [] Header(m) \in {"/get", "/check"} -> FriendStep(m)
    [] OTHER -> "free"

\* Variant: /store_and_get returns after it has stored.
StepAfterStoreReturns(m) == "free"

StepAfterStore(m) == IF Header(m) = "/store_and_get" THEN FriendStep(m) ELSE "free"

ReceiveDataHandle(c) ==
  /\ Idle
  /\ \/ /\ session[c].phase = "read_error"
        /\ session' = Destroyed(c)
     \/ /\ session[c].phase = "received"
        /\ session' = Continue(c, FirstStep(session[c].message))
  /\ UNCHANGED <<users, created>>
-----------------------------------------------------------------------------
\* What initUser, storeCoordinates, getFriendCoordinates and
\* checkFriendIdAndPassword share.

\* sqlite3_open succeeds, or also fails.
OpenOutcomes == {TRUE} \cup (IF "open" \in Faults THEN {FALSE} ELSE {})

\* remote_endpoint(), the first thing that initUser and storeCoordinates do, can
\* throw on a connection that the peer has given up.
Throws(c) == session[c].phase \in {"init", "store"} /\ ~session[c].alive

\* How a statement can end; without its table each one fails.
StatementOutcomes(c) ==
  Outcomes(session[c].connected, created, ~created \/ "sql" \in Faults)

Select(c, column, answer) ==
  UNION {Queried(session[c].database, o, column, answer) : o \in StatementOutcomes(c)}

\* UniqueSQLConnection uconn(dbConnection_), after remote_endpoint() where it is called
OpenConnection(c, from, to) ==
  /\ session[c].phase = from
  /\ \E ok \in OpenOutcomes :
       session' = [session EXCEPT ![c].phase = to, ![c].connected = ok]
  /\ UNCHANGED <<users, created>>

\* Destroyed when nothing is sent, otherwise on to sendToUser with this reply.
Answered(c, database, reply) ==
  IF reply = NoReply
  THEN Destroyed(c)
  ELSE [session EXCEPT ![c].phase = "reply", ![c].database = database, ![c].reply = reply]

\* sendToUser reports a failed write to a caller that ignores it.
SendToUser(c) ==
  /\ session[c].phase = "reply"
  /\ session' = Destroyed(c)
  /\ UNCHANGED <<users, created>>
-----------------------------------------------------------------------------
\* Session::initUser

InitUser(c) == OpenConnection(c, "init", "select")

SelectUser(c) ==
  /\ session[c].phase = "select"
  /\ \E d \in Select(c, "id", [i \in IdsWithIp(users, session[c].ip) |-> i]) :
       LET unknown == d.results = NoResults \/ d.results.id = NULL
       IN  session' = [session EXCEPT
             ![c].phase = IF unknown THEN "insert" ELSE "set_password",
             ![c].database = d]
  /\ UNCHANGED <<users, created>>

InsertUser(c) ==
  LET full == Len(users) >= MaxUsers
  IN  /\ session[c].phase = "insert"
      /\ \E o \in Outcomes(session[c].connected, created /\ ~full,
                           ~created \/ full \/ "sql" \in Faults) :
           /\ users' = IF o = "done" THEN Inserted(users, session[c].ip) ELSE users
           /\ session' = [session EXCEPT ![c].phase = "reselect",
                            ![c].database = Written(session[c].database, o)]
      /\ UNCHANGED created

ReselectUser(c) ==
  /\ session[c].phase = "reselect"
  /\ \E d \in Select(c, "id", [i \in IdsWithIp(users, session[c].ip) |-> i]) :
       session' = IF d.results = NoResults
                  THEN Destroyed(c)
                  ELSE [session EXCEPT ![c].phase = "set_password", ![c].database = d]
  /\ UNCHANGED <<users, created>>

SetPassword(c) ==
  LET id == session[c].database.results.id
  IN  /\ session[c].phase = "set_password"
      /\ \E pass \in Passwords, o \in StatementOutcomes(c) :
           LET d == Written(session[c].database, o)
           IN  /\ users' = IF o = "done" THEN WithPassword(users, id, Hash[pass])
                                         ELSE users
               /\ session' = Answered(c, d, IF d.failed THEN NoReply
                                       ELSE [kind |-> "credentials", id |-> id, pass |-> pass])
      /\ UNCHANGED created
-----------------------------------------------------------------------------
\* Session::storeCoordinates, and what receiveDataHandle does after it

StoreCoordinates(c) == OpenConnection(c, "store", "update")

UpdateCoordinates(c) ==
  LET m == session[c].message
  IN  /\ session[c].phase = "update"
      /\ \E o \in StatementOutcomes(c) :
           /\ users' = IF o = "done"
                       THEN WithCoordinates(users, session[c].ip, CoordinatesOf(m))
                       ELSE users
           /\ session' = IF StepAfterStore(m) = "free"
                         THEN Destroyed(c)
                         ELSE [session EXCEPT ![c].phase = StepAfterStore(m),
                                 ![c].connected = FALSE,
                                 ![c].database = Written(session[c].database, o)]
      /\ UNCHANGED created
-----------------------------------------------------------------------------
\* Session::getFriendCoordinates and Session::checkFriendIdAndPassword

OpenForFriend(c) == OpenConnection(c, "friend", "find")

\* The answer to the first query, NoReply where none is sent.
FriendReply(m, d) ==
  CASE d.failed -> NoReply
    [] ~d.failed /\ Header(m) = "/check" ->
         IF d.results.id \in {NoEntry, NULL} THEN Reply("wrong") ELSE Reply("ok")
    [] OTHER -> IF d.results = NoResults THEN Reply("err 1") ELSE NoReply

FindFriend(c) ==
  LET m == session[c].message
      friend == FriendOf(m)
      ids == IdsOfFriend(users, FriendId(friend), Hash[friend[2]])
  IN  /\ session[c].phase = "find"
      /\ \E d \in Select(c, "id", [i \in ids |-> i]) :
           LET reply == FriendReply(m, d)
           IN  session' = IF ~d.failed /\ reply = NoReply
                          THEN [session EXCEPT ![c].phase = "fetch", ![c].database = d]
                          ELSE Answered(c, d, reply)
      /\ UNCHANGED <<users, created>>

\* Variant: coordinates that were never set are sent.
CoordinatesReplyNoNullTest(d) ==
  IF d.failed THEN NoReply ELSE [kind |-> "coordinates", coordinates |-> d.results.coordinates]

CoordinatesReply(d) ==
  CASE d.failed -> NoReply
    [] ~d.failed /\ (d.results = NoResults \/ d.results.coordinates = NULL) ->
         Reply("err 2")
    [] OTHER -> [kind |-> "coordinates", coordinates |-> d.results.coordinates]

FetchCoordinates(c) ==
  LET id == FriendId(FriendOf(session[c].message))
  IN  /\ session[c].phase = "fetch"
      /\ \E d \in Select(c, "coordinates",
                         [i \in {id} \cap DOMAIN users |-> users[i].coordinates]) :
           session' = Answered(c, d, CoordinatesReply(d))
      /\ UNCHANGED <<users, created>>
-----------------------------------------------------------------------------
\* One step of the running handler, short of an exception
HandlerStep(c) ==
  \/ InitUser(c) \/ SelectUser(c) \/ InsertUser(c) \/ ReselectUser(c) \/ SetPassword(c)
  \/ StoreCoordinates(c) \/ UpdateCoordinates(c)
  \/ OpenForFriend(c) \/ FindFriend(c) \/ FetchCoordinates(c)
  \/ SendToUser(c)

\* What the peer and the kernel do to a session's socket
SocketEvent(c) == DataArrives(c) \/ Reset(c) \/ ReadFails(c)
=============================================================================
