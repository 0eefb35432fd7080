------------------------------- MODULE MarkMe -------------------------------
(***************************************************************************)
(* The whole program: main() initialises the database, then runs start()   *)
(* for ever.  start() makes the servers and runs io_service; an exception  *)
(* that a handler lets out unwinds it, which destroys every server and     *)
(* every session, and main() calls it again.  The file outlives a crash.   *)
(***************************************************************************)
EXTENDS Server

VARIABLE main   \* where main() is

vars == <<users, created, session, acceptor, main>>

MainSteps == {"stopped", "init_db", "start", "serving"}

\* Every variable has its type.
TypeOK ==
  /\ users \in Seq(Rows(IPs, Hashes, Coordinates))
  /\ created \in BOOLEAN
  /\ session \in [Sessions -> SessionType]
  /\ acceptor \in [Servers -> Acceptors]
  /\ main \in MainSteps
-----------------------------------------------------------------------------
NoSessions == [c \in Sessions |-> FreshSession]
AllDown == [a \in Servers |-> Down]

Init ==
  /\ users = <<>>
  /\ created = FALSE
  /\ session = NoSessions
  /\ acceptor = AllDown
  /\ main = "stopped"

\* The operator starts the program.
Launch ==
  /\ main = "stopped"
  /\ main' = "init_db"
  /\ UNCHANGED <<users, created, session, acceptor>>

\* init_server_db: only a failed open is an error, the result of CREATE TABLE is not read.
InitServerDb ==
  /\ main = "init_db"
  /\ \E ok \in OpenOutcomes :
       /\ main' = IF ok THEN "start" ELSE "stopped"
       /\ \E o \in Outcomes(ok, TRUE, "sql" \in Faults) : created' = (created \/ o = "done")
  /\ UNCHANGED <<users, session, acceptor>>

\* start: the servers begin to accept and io_service runs.
Start ==
  /\ main = "start"
  /\ main' = "serving"
  /\ acceptor' = [a \in Servers |-> Listening]
  /\ UNCHANGED <<users, created, session>>

\* An exception leaves the handler, io_service::run and start.
Throw(c) ==
  /\ Throws(c)
  /\ main' = "start"
  /\ session' = NoSessions
  /\ acceptor' = AllDown
  /\ UNCHANGED <<users, created>>

\* The process dies between two steps; each statement of SQLite is atomic.
Crash ==
  /\ "crash" \in Faults
  /\ main # "stopped"
  /\ main' = "stopped"
  /\ session' = NoSessions
  /\ acceptor' = AllDown
  /\ UNCHANGED <<users, created>>

Accepting(a) == AcceptCompletes(a) \/ AcceptFails(a) \/ HandleAccept(a)
Handling(c) == SocketEvent(c) \/ ReceiveDataHandle(c) \/ HandlerStep(c)

Next ==
  \/ Launch \/ InitServerDb \/ Start \/ Crash
  \/ \E c \in Sessions : Throw(c)
  \/ \E a \in Servers : Accepting(a) /\ UNCHANGED main
  \/ \E c \in Sessions : Handling(c) /\ UNCHANGED <<acceptor, main>>

Spec == Init /\ [][Next]_vars

(***************************************************************************)
(* Fairness.  io_service keeps its completions in a queue and runs them    *)
(* first in, first out, so a completion that is queued and again and again *)
(* finds the thread idle is run in the end (SF); the thread goes on with a *)
(* handler it has begun and main() with its loop (WF); the kernel reports  *)
(* a broken connection (WF).  Nothing makes a client connect or send.      *)
(***************************************************************************)
HandlerGoesOn(c) == Throw(c) \/ (HandlerStep(c) /\ UNCHANGED <<acceptor, main>>)

Fairness ==
  /\ WF_vars(InitServerDb) /\ WF_vars(Start)
  /\ \A a \in Servers : SF_vars(HandleAccept(a) /\ UNCHANGED main)
  /\ \A c \in Sessions :
       /\ SF_vars(ReceiveDataHandle(c) /\ UNCHANGED <<acceptor, main>>)
       /\ WF_vars(ReadFails(c) /\ UNCHANGED <<acceptor, main>>)
       /\ WF_vars(HandlerGoesOn(c))

FairSpec == Spec /\ Fairness
-----------------------------------------------------------------------------
\* Safety

RowsOf(ip) == {i \in DOMAIN users : users[i].ip = ip}

\* Rows are never removed and never change their ip, and what a row holds
\* changes only in the UPDATE of a session whose client has the row's address:
\* no request, whatever was queried before it, touches another client's row.
OwnerChangesRow ==
  \A i \in DOMAIN users :
    /\ i \in DOMAIN users' /\ users'[i].ip = users[i].ip
    /\ users'[i] # users[i] =>
         \E c \in Sessions : /\ session[c].phase \in {"set_password", "update"}
                             /\ session[c].ip = users[i].ip

OnlyOwnerChangesRow == [][OwnerChangesRow]_vars

\* initUser gives an address that has a row a second one only if its SELECT
\* ended in an error, which it reads as "no such user".
DuplicateAfterFailedSelect ==
  \A i \in DOMAIN users' \ DOMAIN users :
    RowsOf(users'[i].ip) # {} =>
      \E c \in Sessions : /\ session[c].phase = "insert"
                          /\ session[c].ip = users'[i].ip
                          /\ session[c].database.failed

DuplicateOnlyAfterFailedSelect == [][DuplicateAfterFailedSelect]_vars

\* As long as no statement fails, an address has one row, whatever crashes,
\* resets and restarts fall between the SELECT and the INSERT of initUser.
UniqueIp ==
  "sql" \notin Faults =>
    \A i, j \in DOMAIN users : users[i].ip = users[j].ip => i = j

\* The friend named in the request has the id and the password given.
FriendKnown(s, table) ==
  LET friend == FriendOf(s.message)
  IN  /\ FriendId(friend) \in DOMAIN table
      /\ table[FriendId(friend)].password = Hash[friend[2]]

Truthful(s, table) ==
  LET friend == FriendId(FriendOf(s.message))
      kind == s.reply.kind
  IN  /\ kind = "credentials" =>
           /\ s.reply.id \in DOMAIN table /\ table[s.reply.id].ip = s.ip
           /\ table[s.reply.id].password = Hash[s.reply.pass]
      /\ kind \in {"ok", "err 2", "coordinates"} => FriendKnown(s, table)
      /\ kind \in {"wrong", "err 1"} => ~FriendKnown(s, table) \/ ~s.connected
      /\ kind = "err 2" => table[friend].coordinates = NULL
      /\ kind = "coordinates" => table[friend].coordinates = s.reply.coordinates

\* The reply that sendToUser is about to send says what the table holds at that
\* moment, a refusal excepted that was given because the file could not be opened:
\* "err 1" and "wrong" are then said of friends that exist (finding 3).
TruthfulReply ==
  \A c \in Sessions : session[c].phase = "reply" => Truthful(session[c], users)

\* A client that is answered to a /store_and_get with two numbers was read whole
\* up to them, however the request was cut.  Unless SQLite failed, the row of its
\* address holds them, if it has one: an address without a row is answered as well
\* and nothing is stored (see LoggedMeansStored).  And a client that names its own
\* account, and is not refused, gets back the numbers it has just sent.
EnrolledIsStored ==
  \A c \in {d \in Sessions : session[d].phase = "reply"} :
    LET s == session[c]
        sent == CoordinatesOf(s.sent)
    IN  (Header(s.message) = "/store_and_get" /\ CheckCoordinatesFormat(sent)) =>
          /\ CoordinatesOf(s.message) = sent
          /\ Faults \cap {"open", "sql"} = {} =>
               /\ \A i \in RowsOf(s.ip) : users[i].coordinates = sent
               /\ (FriendId(FriendOf(s.message)) \in RowsOf(s.ip) /\ s.reply.kind # "err 1") =>
                    s.reply.kind = "coordinates" /\ s.reply.coordinates = sent

Running(s) == s.phase \in HandlerSteps

\* While start() runs every server has an accept outstanding or the completion of
\* one queued for handleAccept, which arms it again whether it failed or not; and
\* each connection that was accepted and not yet started is held by one handleAccept,
\* which will start it, though other accepts fail and the peer may be gone.
ConnectionsAreHeld ==
  /\ main = "serving" => \A a \in Servers : acceptor[a].state # "down"
  /\ \A c \in {d \in Sessions : session[d].phase = "accepted"} :
       \E a \in Servers :
         {b \in Servers : acceptor[b] = [state |-> "accepted", next |-> c]} = {a}
-----------------------------------------------------------------------------
(***************************************************************************)
(* The inductive invariant behind the safety properties.  The thread is    *)
(* inside one handler at most; each acceptor that has a connection for     *)
(* handleAccept has its own; nothing of a run of start() outlives it; and  *)
(* at each of its steps a handler knows something about the table, which   *)
(* nobody else changes before its next step.                               *)
(***************************************************************************)
OneHandler ==
  \A c, d \in Sessions : Running(session[c]) /\ Running(session[d]) => c = d

AcceptedOnce ==
  \A a \in Servers : acceptor[a].state = "accepted" =>
    /\ acceptor[a].next \in Sessions
    /\ session[acceptor[a].next].phase = "accepted"
    /\ \A b \in Servers \ {a} :
         acceptor[b].state = "accepted" => acceptor[b].next # acceptor[a].next

NothingOutlivesStart ==
  main # "serving" => session = NoSessions /\ acceptor = AllDown

HandlerKnows(s, table, made) ==
  CASE s.phase = "insert" ->
         s.connected =>
           /\ ~s.database.failed => \A i \in DOMAIN table : table[i].ip # s.ip
           /\ s.database.failed => "sql" \in Faults \/ ~made
    [] s.phase = "set_password" ->
         LET id == s.database.results.id
         IN  s.connected /\ id \in DOMAIN table /\ table[id].ip = s.ip
    [] s.phase \in {"store", "update"} -> CheckCoordinatesFormat(CoordinatesOf(s.message))
    [] s.phase = "fetch" -> s.connected /\ FriendKnown(s, table)
    [] s.phase = "reply" -> Truthful(s, table)
    [] OTHER -> TRUE

SessionOK(s, table, made) ==
  /\ IF s.phase = "free" THEN s = FreshSession ELSE s.ip \in IPs
  /\ s.phase \notin {"set_password", "fetch", "reply"} => s.database.results = NoResults
  /\ HandlerKnows(s, table, made)

IInv ==
  /\ TypeOK /\ UniqueIp
  /\ OneHandler /\ AcceptedOnce /\ NothingOutlivesStart
  /\ \A c \in Sessions : SessionOK(session[c], users, created)
-----------------------------------------------------------------------------
\* Liveness

\* Every server accepts again after each completed or failed accept, and after
\* each restart that an exception causes.
Rearmed ==
  \A a \in Servers :
    (main = "start" \/ acceptor[a].state \in {"accepted", "failed"})
      ~> acceptor[a].state = "listening"

Answerable(m) ==
  \/ Header(m) = "/init"
  \/ Header(m) \in {"/get", "/check", "/store_and_get"} /\ CheckFriendFormat(FriendOf(m))

\* A well-formed request that was received is answered, unless an exception in
\* some handler restarts the server and drops every session.
Served ==
  \A c \in Sessions :
    (session[c].phase = "received" /\ Answerable(session[c].message))
      ~> (session[c].phase = "reply" \/ main = "start")

\* A session whose read completed gives its connection back: none leaks.
Released ==
  \A c \in Sessions : session[c].phase \in {"received", "read_error"} ~> session[c].phase = "free"
-----------------------------------------------------------------------------
\* What the code's messages say, and the code does not do

\* "Error: Wrong coordinates format" (Session.cpp:57) is said of wrong formats only.
RefusedMeansWrongFormat ==
  [][\A c \in Sessions :
       (/\ session[c].phase = "received" /\ session'[c].phase = "free"
        /\ main' = "serving" /\ Header(session[c].message) = "/store") =>
         LET m == session[c].message
         IN  ~(Len(m) = 3 /\ m[2] \in Numbers /\ m[3] \in Numbers)]_vars

\* "Coordinates: ... are stored." (Session.cpp:93): after the UPDATE of a
\* /store_and_get the table holds the coordinates for the client's address.
LoggedMeansStored ==
  [][\A c \in Sessions :
       (/\ session[c].phase = "update" /\ session'[c].phase # "update"
        /\ main' = "serving" /\ Header(session[c].message) = "/store_and_get") =>
         \E i \in DOMAIN users' :
           /\ users'[i].ip = session[c].ip
           /\ users'[i].coordinates = CoordinatesOf(session[c].message)]_vars

\* "Database error while finding friend record" (Session.cpp:235): a database
\* that cannot be asked is an error, not the answer that there is no such friend.
RefusalMeansNoSuchFriend ==
  \A c \in Sessions :
    (session[c].phase = "reply" /\ session[c].reply.kind \in {"err 1", "wrong"})
      => ~FriendKnown(session[c], users)
=============================================================================
