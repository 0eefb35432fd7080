------------------------ MODULE MarkMeServiceProofs ------------------------
(***************************************************************************)
(* That MarkMe implements LocationService, for every value of the          *)
(* constants in which SQLite does not fail, and that an answered request   *)
(* has been stored.  Both rest on RequestInv, which is inductive together  *)
(* with the IInv of MarkMeProofs.                                          *)
(***************************************************************************)
EXTENDS MarkMeService, MarkMeProofs

-----------------------------------------------------------------------------
\* Steps of one session

\* What IInv says of one session.
LEMMA OneSession ==
  ASSUME IInv, NEW c \in Sessions
  PROVE  /\ session \in [Sessions -> SessionType] /\ session[c] \in SessionType
         /\ SessionOK(session[c], users, created)
         /\ users \in Seq(Rows(IPs, Hashes, Coordinates))
         /\ created \in BOOLEAN
BY DEF IInv, TypeOK

\* Of a session outside its handler RequestOK says nothing about the table.
LEMMA QuietRequest ==
  ASSUME NEW s, NEW t1, NEW t2, ~Running(s), RequestOK(s, t1)
  PROVE  RequestOK(s, t2)
BY DEF Running, RequestOK, StoredIsThere, HandlerSteps

\* A session that was just made has no request.
LEMMA FreshRequest == \A table : RequestOK(FreshSession, table)
BY DEF RequestOK, RequestFits, FileIsOpen, StoredIsThere, FreshSession, HandlerSteps

\* A step of one session keeps RequestInv if the session keeps its part of it,
\* and writes the table only while the thread is in its handler.
LEMMA RequestStep ==
  ASSUME IInv, RequestInv, NEW c \in Sessions, NEW s,
         session' = [session EXCEPT ![c] = s],
         UNCHANGED <<created, main>>,
         users' = users \/ Running(session[c]),
         RequestOK(s, users')
  PROVE  RequestInv'
<1>1. session'[c] = s /\ \A d \in Sessions \ {c} : session'[d] = session[d]
  BY OneSession
<1>2. ASSUME NEW d \in Sessions PROVE RequestOK(session'[d], users')
  <2>1. RequestOK(session[d], users)
    BY DEF RequestInv
  <2>2. CASE d = c
    BY <1>1, <2>2
  <2>3. CASE d # c /\ users' = users
    BY <1>1, <2>1, <2>3
  <2>4. CASE d # c /\ Running(session[c])
    <3>1. ~Running(session[d])
      BY <2>4 DEF IInv, OneHandler
    <3>2. QED
      BY <1>1, <2>1, <2>4, <3>1, QuietRequest
  <2>5. QED
    BY <2>2, <2>3, <2>4
<1>3. QED
  BY <1>2 DEF RequestInv

\* The end of a session keeps RequestInv.
LEMMA DestroyedRequest ==
  ASSUME IInv, RequestInv, NEW c \in Sessions, session' = Destroyed(c),
         UNCHANGED <<created, main>>,
         users' = users \/ Running(session[c])
  PROVE  RequestInv'
BY RequestStep, FreshRequest DEF Destroyed

\* No session is left, and the table of the file is there when start() begins.
LEMMA NoSessionsRequest ==
  ASSUME session' = NoSessions,
         (NoSQLFaults /\ main' \in {"start", "serving"}) => created'
  PROVE  RequestInv'
BY FreshRequest DEF RequestInv, NoSessions

\* A handler that runs while SQLite does not fail runs its statements.
LEMMA NoFaultFacts ==
  ASSUME IInv, RequestInv, NoSQLFaults, NEW c \in Sessions, session[c].phase # "free"
  PROVE  /\ created /\ OpenOutcomes = {TRUE}
         /\ session[c].connected => StatementOutcomes(c) = {"done"}
<1>1. created
  BY ServingFacts DEF RequestInv
<1>2. "open" \notin Faults /\ "sql" \notin Faults
  BY DEF NoSQLFaults
<1>3. QED
  BY <1>1, <1>2 DEF OpenOutcomes, StatementOutcomes, Outcomes

\* The UPDATE of storeCoordinates writes every row of the address and nothing else.
LEMMA WithCoordinatesFacts ==
  ASSUME NEW table \in Seq(Rows(IPs, Hashes, Coordinates)), NEW ip, NEW coordinates
  PROVE  /\ DOMAIN WithCoordinates(table, ip, coordinates) = DOMAIN table
         /\ \A i \in DOMAIN table :
              WithCoordinates(table, ip, coordinates)[i] =
                [ip |-> table[i].ip, password |-> table[i].password,
                 coordinates |-> IF table[i].ip = ip THEN coordinates ELSE table[i].coordinates]
<1>1. \A i \in DOMAIN table : table[i] \in Rows(IPs, Hashes, Coordinates)
  OBVIOUS
<1>2. QED
  BY <1>1 DEF WithCoordinates, Rows
-----------------------------------------------------------------------------
\* RequestInv is preserved by the socket and the dispatch of a request

LEMMA SocketRequest ==
  ASSUME IInv, RequestInv, NEW c \in Sessions, SocketEvent(c), UNCHANGED <<acceptor, main>>
  PROVE  RequestInv'
<1>0. session[c] \in SessionType /\ RequestOK(session[c], users)
  BY OneSession DEF RequestInv
<1>1. CASE DataArrives(c)
  <2>1. PICK m \in Messages : \E got \in Segments(m) :
          session' = [session EXCEPT ![c].phase = "received", ![c].sent = m, ![c].message = got]
    BY <1>1 DEF DataArrives
  <2>2. PICK got \in Segments(m) :
          session' = [session EXCEPT ![c].phase = "received", ![c].sent = m, ![c].message = got]
    BY <2>1
  <2> DEFINE s == [session[c] EXCEPT !.phase = "received", !.sent = m, !.message = got]
  <2>3. s.phase = "received" /\ s.sent = m /\ s.message = got
    BY <1>0 DEF SessionType
  <2>4. session' = [session EXCEPT ![c] = s] /\ UNCHANGED <<users, created>>
    BY <1>1, <2>2, OneSession DEF DataArrives
  <2> HIDE DEF s
  <2>5. RequestOK(s, users)
    BY <2>3 DEF RequestOK, RequestFits, FileIsOpen, StoredIsThere
  <2>6. QED
    BY <2>4, <2>5, RequestStep
<1>2. CASE Reset(c)
  <2> DEFINE s == [session[c] EXCEPT !.alive = FALSE]
  <2>1. /\ s.phase = session[c].phase /\ s.ip = session[c].ip /\ s.sent = session[c].sent
        /\ s.message = session[c].message /\ s.connected = session[c].connected
        /\ s.reply = session[c].reply
    BY <1>0 DEF SessionType
  <2>2. session' = [session EXCEPT ![c] = s] /\ UNCHANGED <<users, created>>
    BY <1>2, OneSession DEF Reset
  <2> HIDE DEF s
  <2>3. RequestOK(s, users)
    BY <1>0, <2>1 DEF RequestOK, RequestFits, FileIsOpen, StoredIsThere
  <2>4. QED
    BY <2>2, <2>3, RequestStep
<1>3. CASE ReadFails(c)
  <2> DEFINE s == [session[c] EXCEPT !.phase = "read_error"]
  <2>1. s.phase = "read_error"
    BY <1>0 DEF SessionType
  <2>2. session' = [session EXCEPT ![c] = s] /\ UNCHANGED <<users, created>>
    BY <1>3, OneSession DEF ReadFails, Goto
  <2> HIDE DEF s
  <2>3. RequestOK(s, users)
    BY <2>1 DEF RequestOK, RequestFits, FileIsOpen, StoredIsThere, HandlerSteps
  <2>4. QED
    BY <2>2, <2>3, RequestStep
<1>4. QED
  BY <1>1, <1>2, <1>3 DEF SocketEvent

\* What a request has shown when its first step is chosen.  "/store" never gets
\* to its step: its coordinates are one piece.
LEMMA DispatchFacts ==
  ASSUME NEW m
  PROVE  /\ FirstStep(m) = "init" => Header(m) = "/init"
         /\ FirstStep(m) = "store" =>
              Header(m) = "/store_and_get" /\ CheckCoordinatesFormat(CoordinatesOf(m))
         /\ FirstStep(m) = "friend" =>
              /\ Header(m) \in {"/get", "/check", "/store_and_get"}
              /\ CheckFriendFormat(FriendOf(m))
              /\ Header(m) = "/store_and_get" => ~CheckCoordinatesFormat(CoordinatesOf(m))
<1>1. Header(m) = "/store" => ~CheckCoordinatesFormat(CoordinatesOf(m))
  BY DEF CheckCoordinatesFormat, CoordinatesOf
<1>2. FriendStep(m) = "friend" => CheckFriendFormat(FriendOf(m))
  BY DEF FriendStep
<1>3. FriendStep(m) \in {"friend", "free"}
  BY DEF FriendStep
<1>4. CASE Header(m) \in {"/init", "/store", "/store_and_get", "/get", "/check"}
  BY <1>1, <1>2, <1>3, <1>4 DEF FirstStep
<1>5. CASE Header(m) \notin {"/init", "/store", "/store_and_get", "/get", "/check"}
  BY <1>5 DEF FirstStep
<1>6. QED
  BY <1>4, <1>5

\* The first step of a handler is that of the command it received.
LEMMA ReceiveRequest ==
  ASSUME IInv, RequestInv, NEW c \in Sessions, ReceiveDataHandle(c), UNCHANGED <<acceptor, main>>
  PROVE  RequestInv'
<1> DEFINE step == FirstStep(session[c].message)
           s == [session[c] EXCEPT !.phase = step]
<1>0. session[c] \in SessionType /\ RequestOK(session[c], users)
  BY OneSession DEF RequestInv
<1>1. UNCHANGED <<users, created>>
  BY DEF ReceiveDataHandle
<1>2. CASE session' = Destroyed(c)
  BY <1>1, <1>2, DestroyedRequest
<1>3. CASE session[c].phase = "received" /\ session' = Goto(c, step) /\ step # "free"
  <2>1. /\ s.phase = step /\ s.sent = session[c].sent /\ s.message = session[c].message
    BY <1>0 DEF SessionType
  <2>2. session' = [session EXCEPT ![c] = s]
    BY <1>3, OneSession DEF Goto
  <2>3. step \in {"init", "store", "friend"}
    BY <1>3, FirstStepFacts
  <2> HIDE DEF s
  <2>4. RequestFits(s)
    BY <2>1, <2>3, DispatchFacts DEF RequestFits
  <2>5. RequestOK(s, users)
    BY <1>0, <1>3, <2>1, <2>3, <2>4, DispatchFacts DEF RequestOK, FileIsOpen, StoredIsThere
  <2>6. QED
    BY <1>1, <2>2, <2>5, RequestStep
<1>4. QED
  BY <1>2, <1>3 DEF ReceiveDataHandle, Continue
-----------------------------------------------------------------------------
\* RequestInv is preserved by the steps of a handler

LEMMA OpenRequest ==
  ASSUME IInv, RequestInv, NEW c \in Sessions, UNCHANGED <<acceptor, main>>,
         NEW from, NEW to,
         <<from, to>> \in {<<"init", "select">>, <<"store", "update">>, <<"friend", "find">>},
         OpenConnection(c, from, to)
  PROVE  RequestInv'
<1>0. session[c] \in SessionType /\ RequestOK(session[c], users)
  BY OneSession DEF RequestInv
<1>1. PICK ok \in OpenOutcomes :
        session' = [session EXCEPT ![c].phase = to, ![c].connected = ok]
  BY DEF OpenConnection
<1>2. session[c].phase = from /\ UNCHANGED <<users, created>>
  BY DEF OpenConnection
<1>3. "open" \notin Faults => ok = TRUE
  BY <1>1 DEF OpenOutcomes
<1> DEFINE s == [session[c] EXCEPT !.phase = to, !.connected = ok]
<1>4. /\ s.phase = to /\ s.ip = session[c].ip /\ s.sent = session[c].sent
      /\ s.message = session[c].message /\ s.connected = ok
  BY <1>0 DEF SessionType
<1>5. session' = [session EXCEPT ![c] = s]
  BY <1>1, OneSession
<1> HIDE DEF s
<1>6. RequestFits(s)
  BY <1>0, <1>2, <1>4 DEF RequestOK, RequestFits
<1>7. ("open" \notin Faults => FileIsOpen(s)) /\ (NoSQLFaults => StoredIsThere(s, users))
  BY <1>0, <1>2, <1>3, <1>4 DEF RequestOK, FileIsOpen, StoredIsThere
<1>8. s.sent \in Messages /\ s.message \in Segments(s.sent)
  BY <1>0, <1>2, <1>4 DEF RequestOK, HandlerSteps
<1>9. RequestOK(s, users)
  BY <1>6, <1>7, <1>8 DEF RequestOK
<1>10. QED
  BY <1>2, <1>5, <1>9, RequestStep

\* A step of the handler of /init.
LEMMA InitRequestStep ==
  ASSUME NEW old, NEW s, NEW t1, NEW t2, RequestOK(old, t1),
         old.phase \in {"select", "insert", "reselect", "set_password"},
         s.phase \in {"insert", "reselect", "set_password", "reply"},
         s.phase = "reply" => s.reply.kind = "credentials",
         s.sent = old.sent, s.message = old.message, s.connected = old.connected
  PROVE  RequestOK(s, t2)
<1>1. Header(s.message) = "/init" /\ s.sent \in Messages /\ s.message \in Segments(s.sent)
  BY DEF RequestOK, RequestFits, HandlerSteps
<1>2. RequestFits(s)
  BY <1>1 DEF RequestFits, ReplyFits
<1>3. ("open" \notin Faults => FileIsOpen(s)) /\ (NoSQLFaults => StoredIsThere(s, t2))
  BY <1>1 DEF RequestOK, FileIsOpen, StoredIsThere
<1>4. QED
  BY <1>1, <1>2, <1>3 DEF RequestOK

\* The steps of initUser keep RequestInv.
LEMMA InitUserRequest ==
  ASSUME IInv, RequestInv, NEW c \in Sessions, UNCHANGED <<acceptor, main>>,
         SelectUser(c) \/ InsertUser(c) \/ ReselectUser(c) \/ SetPassword(c)
  PROVE  RequestInv'
<1>0. /\ session[c] \in SessionType /\ session \in [Sessions -> SessionType]
      /\ RequestOK(session[c], users)
  BY OneSession DEF RequestInv
<1>1. CASE SelectUser(c)
  <2>1. PICK d \in Select(c, "id", [i \in IdsWithIp(users, session[c].ip) |-> i]) :
          session' = [session EXCEPT
            ![c].phase = IF d.results = NoResults \/ d.results.id = NULL
                         THEN "insert" ELSE "set_password",
            ![c].database = d]
    BY <1>1 DEF SelectUser
  <2> DEFINE step == IF d.results = NoResults \/ d.results.id = NULL
                     THEN "insert" ELSE "set_password"
             s == [session[c] EXCEPT !.phase = step, !.database = d]
  <2>2. /\ s.phase \in {"insert", "set_password"} /\ s.sent = session[c].sent
        /\ s.message = session[c].message /\ s.connected = session[c].connected
    BY <1>0 DEF SessionType
  <2>3. session' = [session EXCEPT ![c] = s]
    BY <1>0, <2>1
  <2>4. session[c].phase = "select" /\ UNCHANGED created /\ Running(session[c])
    BY <1>1 DEF SelectUser, Running, HandlerSteps
  <2> HIDE DEF s
  <2>5. RequestOK(s, users')
    BY <1>0, <2>2, <2>4, InitRequestStep
  <2>6. QED
    BY <2>3, <2>4, <2>5, RequestStep
<1>2. CASE InsertUser(c)
  <2>1. PICK o : session' = [session EXCEPT ![c].phase = "reselect",
                               ![c].database = Written(session[c].database, o)]
    BY <1>2 DEF InsertUser
  <2> DEFINE s == [session[c] EXCEPT !.phase = "reselect",
                     !.database = Written(session[c].database, o)]
  <2>2. /\ s.phase = "reselect" /\ s.sent = session[c].sent
        /\ s.message = session[c].message /\ s.connected = session[c].connected
    BY <1>0 DEF SessionType
  <2>3. session' = [session EXCEPT ![c] = s]
    BY <1>0, <2>1
  <2>4. session[c].phase = "insert" /\ UNCHANGED created /\ Running(session[c])
    BY <1>2 DEF InsertUser, Running, HandlerSteps
  <2> HIDE DEF s
  <2>5. RequestOK(s, users')
    BY <1>0, <2>2, <2>4, InitRequestStep
  <2>6. QED
    BY <2>3, <2>4, <2>5, RequestStep
<1>3. CASE ReselectUser(c)
  <2>1. PICK d : session' = IF d.results = NoResults
                   THEN Destroyed(c)
                   ELSE [session EXCEPT ![c].phase = "set_password", ![c].database = d]
    BY <1>3 DEF ReselectUser
  <2> DEFINE s == [session[c] EXCEPT !.phase = "set_password", !.database = d]
  <2>2. /\ s.phase = "set_password" /\ s.sent = session[c].sent
        /\ s.message = session[c].message /\ s.connected = session[c].connected
    BY <1>0 DEF SessionType
  <2>3. session[c].phase = "reselect" /\ UNCHANGED <<users, created>>
    BY <1>3 DEF ReselectUser
  <2>4. CASE session' = Destroyed(c)
    BY <2>3, <2>4, DestroyedRequest
  <2>5. CASE d.results # NoResults
    <3>1. session' = [session EXCEPT ![c] = s]
      BY <1>0, <2>1, <2>5
    <3> HIDE DEF s
    <3>2. RequestOK(s, users)
      BY <1>0, <2>2, <2>3, InitRequestStep
    <3>3. QED
      BY <2>3, <3>1, <3>2, RequestStep
  <2>6. QED
    BY <2>1, <2>4, <2>5
<1>4. CASE SetPassword(c)
  <2> DEFINE id == session[c].database.results.id
             reply(pass) == [kind |-> "credentials", id |-> id, pass |-> pass]
  <2>1. PICK pass \in Passwords : \E o \in StatementOutcomes(c) :
          LET d == Written(session[c].database, o)
          IN  session' = Answered(c, d, IF d.failed THEN NoReply ELSE reply(pass))
    BY <1>4 DEF SetPassword
  <2>2. PICK d : session' = Answered(c, d, IF d.failed THEN NoReply ELSE reply(pass))
    BY <2>1
  <2>3. session[c].phase = "set_password" /\ UNCHANGED created /\ Running(session[c])
    BY <1>4 DEF SetPassword, Running, HandlerSteps
  <2>4. CASE session' = Destroyed(c)
    BY <2>3, <2>4, DestroyedRequest
  <2>5. CASE session' # Destroyed(c)
    <3> DEFINE s == [session[c] EXCEPT !.phase = "reply", !.database = d, !.reply = reply(pass)]
    <3>1. session' = [session EXCEPT ![c].phase = "reply", ![c].database = d,
                                     ![c].reply = reply(pass)]
      BY <2>2, <2>5 DEF Answered
    <3>2. session' = [session EXCEPT ![c] = s]
      BY <1>0, <3>1
    <3>3. /\ s.phase = "reply" /\ s.sent = session[c].sent /\ s.reply.kind = "credentials"
          /\ s.message = session[c].message /\ s.connected = session[c].connected
      BY <1>0 DEF SessionType
    <3> HIDE DEF s
    <3>4. RequestOK(s, users')
      BY <1>0, <2>3, <3>3, InitRequestStep
    <3>5. QED
      BY <2>3, <3>2, <3>4, RequestStep
  <2>6. QED
    BY <2>4, <2>5
<1>5. QED
  BY <1>1, <1>2, <1>3, <1>4

\* After an UPDATE that SQLite did not fail every row of the client's address
\* holds the coordinates.
LEMMA UpdateRequest ==
  ASSUME IInv, RequestInv, NEW c \in Sessions, UpdateCoordinates(c), UNCHANGED <<acceptor, main>>
  PROVE  RequestInv'
<1> DEFINE m == session[c].message
           step == StepAfterStore(m)
<1>0. /\ session[c] \in SessionType /\ session \in [Sessions -> SessionType]
      /\ SessionOK(session[c], users, created) /\ RequestOK(session[c], users)
      /\ users \in Seq(Rows(IPs, Hashes, Coordinates))
  BY OneSession DEF RequestInv
<1>1. PICK o \in StatementOutcomes(c) :
        /\ users' = IF o = "done"
                    THEN WithCoordinates(users, session[c].ip, CoordinatesOf(m)) ELSE users
        /\ session' = IF step = "free"
                      THEN Destroyed(c)
                      ELSE [session EXCEPT ![c].phase = step, ![c].connected = FALSE,
                              ![c].database = Written(session[c].database, o)]
  BY DEF UpdateCoordinates
<1>2. session[c].phase = "update" /\ UNCHANGED created /\ Running(session[c])
  BY DEF UpdateCoordinates, Running, HandlerSteps
<1>3. /\ Header(m) = "/store_and_get" /\ CheckCoordinatesFormat(CoordinatesOf(m))
      /\ CoordinatesOf(m) \in Coordinates
      /\ session[c].sent \in Messages /\ m \in Segments(session[c].sent)
  BY <1>0, <1>2, FormatFacts DEF RequestOK, RequestFits, HandlerSteps
<1>4. CASE step = "free"
  BY <1>1, <1>2, <1>4, DestroyedRequest
<1>5. CASE step = "friend"
  <2> DEFINE d == Written(session[c].database, o)
             s == [session[c] EXCEPT !.phase = step, !.connected = FALSE, !.database = d]
  <2>1. /\ s.phase = "friend" /\ s.ip = session[c].ip /\ s.message = m /\ s.sent = session[c].sent
        /\ session' = [session EXCEPT ![c] = s]
    BY <1>0, <1>1, <1>5 DEF SessionType
  <2> HIDE DEF s
  <2>2. CheckFriendFormat(FriendOf(m))
    BY <1>5 DEF StepAfterStore, FriendStep
  <2>3. NoSQLFaults => \A i \in DOMAIN users' :
          users'[i].ip = s.ip => users'[i].coordinates = CoordinatesOf(m)
    <3> SUFFICES ASSUME NoSQLFaults
                 PROVE  \A i \in DOMAIN users' :
                          users'[i].ip = s.ip => users'[i].coordinates = CoordinatesOf(m)
      OBVIOUS
    <3>1. session[c].connected
      BY <1>0, <1>2 DEF RequestOK, FileIsOpen, NoSQLFaults
    <3>2. o = "done"
      <4>1. session[c].phase # "free"
        BY <1>2
      <4>2. StatementOutcomes(c) = {"done"}
        BY <3>1, <4>1, NoFaultFacts
      <4>3. QED
        BY <1>1, <4>2
    <3>3. users' = WithCoordinates(users, session[c].ip, CoordinatesOf(m))
      BY <1>1, <3>2
    <3>4. QED
      <4> DEFINE new == WithCoordinates(users, session[c].ip, CoordinatesOf(m))
      <4>1. /\ DOMAIN new = DOMAIN users
            /\ \A i \in DOMAIN users :
                 new[i] = [ip |-> users[i].ip, password |-> users[i].password,
                           coordinates |-> IF users[i].ip = session[c].ip
                                           THEN CoordinatesOf(m) ELSE users[i].coordinates]
        BY <1>0, WithCoordinatesFacts
      <4>2. users' = new
        BY <3>3
      <4> HIDE DEF new
      <4>3. \A i \in DOMAIN users : new[i].ip = users[i].ip /\
              (users[i].ip = session[c].ip => new[i].coordinates = CoordinatesOf(m))
        BY <4>1
      <4>4. QED
        BY <2>1, <4>1, <4>2, <4>3
  <2>4. RequestFits(s)
    BY <1>3, <2>1, <2>2 DEF RequestFits
  <2>5. RequestOK(s, users')
    BY <1>3, <2>1, <2>3, <2>4 DEF RequestOK, FileIsOpen, StoredIsThere
  <2>6. QED
    BY <1>2, <2>1, <2>5, RequestStep
<1>6. QED
  BY <1>4, <1>5, FirstStepFacts

\* A step to "fetch" or "reply" that leaves the table alone keeps what the
\* request has stored.
LEMMA FriendRequestStep ==
  ASSUME NEW old, NEW s, NEW table, RequestOK(old, table),
         old.phase \in {"find", "fetch"}, s.phase \in {"fetch", "reply"},
         s.phase = "fetch" => Header(old.message) # "/check",
         s.phase = "reply" => ReplyFits(s.reply.kind, old.message),
         s.ip = old.ip, s.sent = old.sent, s.message = old.message, s.connected = old.connected
  PROVE  RequestOK(s, table)
<1>1. s.sent \in Messages /\ s.message \in Segments(s.sent)
  BY DEF RequestOK, HandlerSteps
<1>2. RequestFits(s)
  BY DEF RequestOK, RequestFits
<1>3. ("open" \notin Faults => FileIsOpen(s)) /\ (NoSQLFaults => StoredIsThere(s, table))
  BY DEF RequestOK, FileIsOpen, StoredIsThere
<1>4. QED
  BY <1>1, <1>2, <1>3 DEF RequestOK

\* What each handler can be about to send.
LEMMA ReplyKinds ==
  ASSUME NEW m, NEW d
  PROVE  /\ FriendReply(m, d) = NoReply
              \/ FriendReply(m, d).kind \in IF Header(m) = "/check" THEN {"ok", "wrong"} ELSE {"err 1"}
         /\ ~d.failed /\ FriendReply(m, d) = NoReply => Header(m) # "/check" /\ d.results # NoResults
         /\ CoordinatesReply(d) = NoReply \/ CoordinatesReply(d).kind \in {"err 2", "coordinates"}
<1>1. /\ NoReply.kind = "none" /\ \A k : Reply(k).kind = k
  BY DEF NoReply, Reply
<1>2. CASE d.failed
  BY <1>1, <1>2 DEF FriendReply, CoordinatesReply
<1>3. CASE ~d.failed /\ Header(m) = "/check"
  BY <1>1, <1>3 DEF FriendReply, CoordinatesReply
<1>4. CASE ~d.failed /\ Header(m) # "/check"
  BY <1>1, <1>4 DEF FriendReply, CoordinatesReply
<1>5. QED
  BY <1>2, <1>3, <1>4

\* A step that answers keeps RequestInv if the answer fits the command.
LEMMA AnswerRequest ==
  ASSUME IInv, RequestInv, NEW c \in Sessions, UNCHANGED <<users, created, main>>,
         session[c].phase \in {"find", "fetch"},
         NEW d, NEW reply, session' = Answered(c, d, reply),
         reply = NoReply \/ ReplyFits(reply.kind, session[c].message)
  PROVE  RequestInv'
<1> DEFINE s == [session[c] EXCEPT !.phase = "reply", !.database = d, !.reply = reply]
<1>0. /\ session[c] \in SessionType /\ session \in [Sessions -> SessionType]
      /\ RequestOK(session[c], users)
  BY OneSession DEF RequestInv
<1>1. CASE reply = NoReply
  BY <1>1, DestroyedRequest DEF Answered
<1>2. CASE reply # NoReply
  <2>1. /\ session' = [session EXCEPT ![c] = s]
        /\ s.phase = "reply" /\ s.reply = reply /\ s.ip = session[c].ip
        /\ s.sent = session[c].sent /\ s.message = session[c].message
        /\ s.connected = session[c].connected
    BY <1>0, <1>2 DEF Answered, SessionType
  <2> HIDE DEF s
  <2>2. s.phase \in {"fetch", "reply"} /\ s.phase # "fetch"
    BY <2>1
  <2>3. ReplyFits(s.reply.kind, session[c].message)
    BY <1>2, <2>1
  <2>4. RequestOK(s, users)
    BY <1>0, <2>1, <2>2, <2>3, FriendRequestStep
  <2>5. QED
    BY <2>1, <2>4, RequestStep
<1>3. QED
  BY <1>1, <1>2

\* The two reads of a friend keep RequestInv.
LEMMA FriendRequest ==
  ASSUME IInv, RequestInv, NEW c \in Sessions, UNCHANGED <<acceptor, main>>,
         FindFriend(c) \/ FetchCoordinates(c)
  PROVE  RequestInv'
<1> DEFINE m == session[c].message
<1>0. /\ session[c] \in SessionType /\ session \in [Sessions -> SessionType]
      /\ RequestOK(session[c], users)
  BY OneSession DEF RequestInv
<1>1. session[c].phase \in {"find", "fetch"} /\ UNCHANGED <<users, created>>
  BY DEF FindFriend, FetchCoordinates
<1>2. /\ Header(m) \in {"/get", "/check", "/store_and_get"} /\ CheckFriendFormat(FriendOf(m))
      /\ session[c].phase = "fetch" => Header(m) # "/check"
  BY <1>0, <1>1 DEF RequestOK, RequestFits
<1>3. CASE FindFriend(c)
  <2>1. PICK d : session' = IF ~d.failed /\ FriendReply(m, d) = NoReply
                            THEN [session EXCEPT ![c].phase = "fetch", ![c].database = d]
                            ELSE Answered(c, d, FriendReply(m, d))
    BY <1>3 DEF FindFriend
  <2> DEFINE s == [session[c] EXCEPT !.phase = "fetch", !.database = d]
  <2>2. CASE ~d.failed /\ FriendReply(m, d) = NoReply
    <3>1. /\ session' = [session EXCEPT ![c] = s]
          /\ s.phase = "fetch" /\ s.ip = session[c].ip /\ s.sent = session[c].sent
          /\ s.message = m /\ s.connected = session[c].connected
      BY <1>0, <2>1, <2>2 DEF SessionType
    <3>2. Header(m) # "/check"
      BY <2>2, ReplyKinds
    <3> HIDE DEF s
    <3>3. s.phase \in {"fetch", "reply"} /\ s.phase # "reply"
      BY <3>1
    <3>4. RequestOK(s, users)
      BY <1>0, <1>1, <3>1, <3>2, <3>3, FriendRequestStep
    <3>5. QED
      BY <1>1, <3>1, <3>4, RequestStep
  <2>3. CASE session' = Answered(c, d, FriendReply(m, d))
    <3>1. FriendReply(m, d) = NoReply \/ ReplyFits(FriendReply(m, d).kind, m)
      BY <1>2, ReplyKinds DEF ReplyFits
    <3>2. QED
      BY <1>1, <2>3, <3>1, AnswerRequest
  <2>4. QED
    BY <2>1, <2>2, <2>3
<1>4. CASE FetchCoordinates(c)
  <2>1. PICK d : session' = Answered(c, d, CoordinatesReply(d))
    BY <1>4 DEF FetchCoordinates
  <2>2. session[c].phase = "fetch"
    BY <1>4 DEF FetchCoordinates
  <2>3. CoordinatesReply(d) = NoReply \/ ReplyFits(CoordinatesReply(d).kind, m)
    BY <1>2, <2>2, ReplyKinds DEF ReplyFits
  <2>4. QED
    BY <1>1, <2>1, <2>3, AnswerRequest
<1>5. QED
  BY <1>3, <1>4

\* Every step of a handler keeps RequestInv.
LEMMA HandlerRequest ==
  ASSUME IInv, RequestInv, NEW c \in Sessions, HandlerStep(c), UNCHANGED <<acceptor, main>>
  PROVE  RequestInv'
<1>1. CASE InitUser(c)
  BY <1>1, OpenRequest DEF InitUser
<1>2. CASE StoreCoordinates(c)
  BY <1>2, OpenRequest DEF StoreCoordinates
<1>3. CASE OpenForFriend(c)
  BY <1>3, OpenRequest DEF OpenForFriend
<1>4. CASE SelectUser(c) \/ InsertUser(c) \/ ReselectUser(c) \/ SetPassword(c)
  BY <1>4, InitUserRequest
<1>5. CASE UpdateCoordinates(c)
  BY <1>5, UpdateRequest
<1>6. CASE FindFriend(c) \/ FetchCoordinates(c)
  BY <1>6, FriendRequest
<1>7. CASE SendToUser(c)
  BY <1>7, DestroyedRequest DEF SendToUser
<1>8. QED
  BY <1>1, <1>2, <1>3, <1>4, <1>5, <1>6, <1>7 DEF HandlerStep
-----------------------------------------------------------------------------
\* RequestInv is preserved by the servers and by main()

LEMMA AcceptRequest ==
  ASSUME IInv, RequestInv, NEW a \in Servers, Accepting(a), UNCHANGED main
  PROVE  RequestInv'
<1>1. CASE AcceptCompletes(a)
  <2>1. PICK c \in Sessions, ip \in IPs : session' = Connected(c, ip)
    BY <1>1 DEF AcceptCompletes
  <2> DEFINE s == [session[c] EXCEPT !.phase = "accepted", !.ip = ip, !.alive = TRUE]
  <2>2. s.phase = "accepted" /\ session' = [session EXCEPT ![c] = s] /\ UNCHANGED <<users, created>>
    <3>1. session[c] \in SessionType /\ session \in [Sessions -> SessionType]
      BY OneSession
    <3>2. s.phase = "accepted" /\ session' = [session EXCEPT ![c] = s]
      BY <2>1, <3>1 DEF Connected, SessionType
    <3>3. QED
      BY <1>1, <3>2 DEF AcceptCompletes
  <2> HIDE DEF s
  <2>3. RequestOK(s, users)
    BY <2>2 DEF RequestOK, RequestFits, FileIsOpen, StoredIsThere, HandlerSteps
  <2>4. QED
    BY <2>2, <2>3, RequestStep
<1>2. CASE session' = session /\ ~AcceptCompletes(a)
  BY <1>2 DEF Accepting, AcceptFails, HandleAccept, RequestInv
<1>3. CASE HandleAccept(a) /\ acceptor[a].state = "accepted"
  <2> DEFINE c == acceptor[a].next
             s == [session[c] EXCEPT !.phase = "reading"]
  <2>1. c \in Sessions /\ session' = Goto(c, "reading") /\ UNCHANGED <<users, created>>
    BY <1>3 DEF IInv, AcceptedOnce, HandleAccept, Started
  <2>2. s.phase = "reading" /\ session' = [session EXCEPT ![c] = s]
    BY <2>1, OneSession DEF Goto, SessionType
  <2> HIDE DEF s
  <2>3. RequestOK(s, users)
    BY <2>2 DEF RequestOK, RequestFits, FileIsOpen, StoredIsThere, HandlerSteps
  <2>4. PICK d \in Sessions : d = c
    BY <2>1
  <2>5. session' = [session EXCEPT ![d] = s]
    BY <2>2, <2>4
  <2> HIDE DEF c
  <2>6. QED
    BY <2>1, <2>3, <2>5, RequestStep
<1>4. QED
  BY <1>1, <1>2, <1>3 DEF Accepting, AcceptFails, HandleAccept

LEMMA InitRequestInv == Init => RequestInv
BY FreshRequest DEF Init, RequestInv, NoSessions

LEMMA NextRequest == IInv /\ RequestInv /\ [Next]_vars => RequestInv'
<1> SUFFICES ASSUME IInv, RequestInv, [Next]_vars PROVE RequestInv'
  OBVIOUS
<1>0. main # "serving" => session = NoSessions
  BY DEF IInv, NothingOutlivesStart
<1>1. CASE Launch
  BY <1>0, <1>1, NoSessionsRequest DEF Launch
<1>2. CASE InitServerDb
  <2>1. PICK ok \in OpenOutcomes :
          \E o \in Outcomes(ok, TRUE, "sql" \in Faults) : created' = (created \/ o = "done")
    BY <1>2 DEF InitServerDb
  <2>2. NoSQLFaults => created'
    BY <2>1 DEF NoSQLFaults, OpenOutcomes, Outcomes
  <2>3. QED
    BY <1>0, <1>2, <2>2, NoSessionsRequest DEF InitServerDb
<1>3. CASE Start
  BY <1>0, <1>3, NoSessionsRequest DEF Start, RequestInv
<1>4. CASE Crash
  BY <1>4, NoSessionsRequest DEF Crash
<1>5. CASE \E c \in Sessions : Throw(c)
  <2>1. PICK c \in Sessions : Throw(c)
    BY <1>5
  <2>2. main = "serving"
    BY <2>1, ServingFacts DEF Throw, Throws
  <2>3. QED
    BY <2>1, <2>2, NoSessionsRequest DEF Throw, RequestInv
<1>6. CASE \E a \in Servers : Accepting(a) /\ UNCHANGED main
  BY <1>6, AcceptRequest
<1>7. CASE \E c \in Sessions : Handling(c) /\ UNCHANGED <<acceptor, main>>
  BY <1>7, SocketRequest, ReceiveRequest, HandlerRequest DEF Handling
<1>8. CASE UNCHANGED vars
  BY <1>8 DEF vars, RequestInv
<1>9. QED
  BY <1>1, <1>2, <1>3, <1>4, <1>5, <1>6, <1>7, <1>8 DEF Next

\* A handler only takes the steps of the command it was asked for, after the
\* checks of that command, and while SQLite does not fail it runs on an open
\* file that holds the table and keeps what it stored.
THEOREM RequestsAreFollowed == Spec => []RequestInv
BY InitRequestInv, NextRequest, InitHolds, NextPreserves, PTL DEF Spec
-----------------------------------------------------------------------------
\* What an answer to /store_and_get means

\* Only the last token of what was read can differ from what was sent.
LEMMA SegmentPrefix ==
  ASSUME NEW m \in Messages, NEW got \in Segments(m)
  PROVE  /\ Len(got) \in Nat /\ DOMAIN got = 1..Len(got)
         /\ \A i \in 1..(Len(got) - 1) : i \in DOMAIN m /\ got[i] = m[i]
<1>1. m \in Seq(Tokens) /\ Cut \in [Tokens -> SUBSET Tokens]
  BY RequestsAssumption
<1>2. got \in Seq(Tokens)
  BY SegmentsFacts
<1>3. CASE \E k \in DOMAIN m : got = SubSeq(m, 1, k)
  BY <1>1, <1>3
<1>4. CASE \E k \in DOMAIN m : \E t \in Cut[m[k]] : got = Append(SubSeq(m, 1, k - 1), t)
  <2>1. PICK k \in DOMAIN m : \E t \in Cut[m[k]] : got = Append(SubSeq(m, 1, k - 1), t)
    BY <1>4
  <2>2. PICK t \in Cut[m[k]] : got = Append(SubSeq(m, 1, k - 1), t)
    BY <2>1
  <2> DEFINE front == SubSeq(m, 1, k - 1)
  <2>3. /\ front \in Seq(Tokens) /\ Len(front) = k - 1 /\ k \in 1..Len(m)
        /\ \A i \in 1..(k - 1) : front[i] = m[i] /\ i \in DOMAIN m
    BY <1>1
  <2>4. t \in Tokens
    BY <1>1
  <2> HIDE DEF front
  <2>5. Len(got) = k /\ \A i \in 1..(k - 1) : got[i] = front[i]
    BY <2>2, <2>3, <2>4 DEF front
  <2>6. QED
    BY <1>2, <2>3, <2>5
<1>5. QED
  BY <1>2, <1>3, <1>4 DEF Segments

\* A request whose friend was read has been read whole up to the friend.
LEMMA FriendIsAfterCoordinates ==
  ASSUME NEW m \in Messages, NEW got \in Segments(m),
         Header(got) = "/store_and_get", CheckFriendFormat(FriendOf(got))
  PROVE  CoordinatesOf(got) = CoordinatesOf(m)
<1>1. /\ Len(got) \in Nat /\ DOMAIN got = 1..Len(got)
      /\ \A i \in 1..(Len(got) - 1) : i \in DOMAIN m /\ got[i] = m[i]
  BY SegmentPrefix
<1>2. Arg(got, 5) \in Tokens
  BY RequestsAssumption DEF CheckFriendFormat, FriendOf
<1>3. 5 \in DOMAIN got
  BY <1>2, RequestsAssumption DEF Arg
<1>4. 1..3 \subseteq 1..(Len(got) - 1) /\ 1..3 \subseteq DOMAIN got
  BY <1>1, <1>3
<1>5. \A i \in 1..3 : i \in DOMAIN got /\ i \in DOMAIN m /\ got[i] = m[i]
  BY <1>1, <1>4
<1>6. 1 \in 1..3 /\ 2 \in 1..3 /\ 3 \in 1..3
  OBVIOUS
<1>7. Arg(got, 1) = Arg(m, 1) /\ Arg(got, 2) = Arg(m, 2) /\ Arg(got, 3) = Arg(m, 3)
  BY <1>5, <1>6 DEF Arg
<1>8. QED
  BY <1>7 DEF CoordinatesOf, Header

\* A client that is answered after /store_and_get with two numbers was read whole, for
\* any way a message can be cut short; while SQLite does not fail its row, if it has
\* one, holds the numbers, and they are the answer if it names its own account.
THEOREM EnrolledAreStored == Spec => []EnrolledIsStored
<1>1. IInv /\ RequestInv => EnrolledIsStored
  <2> SUFFICES ASSUME IInv, RequestInv, NEW c \in Sessions, session[c].phase = "reply",
                      Header(session[c].message) = "/store_and_get",
                      CheckCoordinatesFormat(CoordinatesOf(session[c].sent))
               PROVE  /\ CoordinatesOf(session[c].message) = CoordinatesOf(session[c].sent)
                      /\ NoSQLFaults =>
                           /\ \A i \in RowsOf(session[c].ip) :
                                users[i].coordinates = CoordinatesOf(session[c].sent)
                           /\ (/\ FriendId(FriendOf(session[c].message)) \in RowsOf(session[c].ip)
                               /\ session[c].reply.kind # "err 1") =>
                                /\ session[c].reply.kind = "coordinates"
                                /\ session[c].reply.coordinates = CoordinatesOf(session[c].sent)
    BY DEF EnrolledIsStored, NoSQLFaults
  <2> DEFINE m == session[c].message
             friend == FriendId(FriendOf(m))
             sent == CoordinatesOf(session[c].sent)
  <2>1. RequestOK(session[c], users)
    BY DEF RequestInv
  <2>2. session[c].sent \in Messages /\ m \in Segments(session[c].sent)
    BY <2>1 DEF RequestOK, HandlerSteps
  <2>3. /\ CheckFriendFormat(FriendOf(m))
        /\ session[c].reply.kind \in {"err 1", "err 2", "coordinates"}
    BY <2>1 DEF RequestOK, RequestFits, ReplyFits
  <2>4. CoordinatesOf(m) = sent
    BY <2>2, <2>3, FriendIsAfterCoordinates
  <2>5. NoSQLFaults => \A i \in RowsOf(session[c].ip) : users[i].coordinates = sent
    BY <2>1, <2>4 DEF RequestOK, StoredIsThere, RowsOf
  <2>6. ASSUME NoSQLFaults, friend \in RowsOf(session[c].ip), session[c].reply.kind # "err 1"
        PROVE  session[c].reply.kind = "coordinates" /\ session[c].reply.coordinates = sent
    <3>1. Truthful(session[c], users)
      BY DEF IInv, SessionOK, HandlerKnows
    <3>2. users[friend].coordinates = sent
      BY <2>5, <2>6
    <3>3. sent # NULL
      <4>1. sent \in Coordinates
        BY FormatFacts
      <4>. QED  BY <4>1, SessionAssumption DEF Coordinates
    <3>4. session[c].reply.kind # "err 2"
      BY <3>1, <3>2, <3>3 DEF Truthful
    <3>. QED  BY <2>3, <2>6, <3>1, <3>2, <3>4 DEF Truthful
  <2>7. QED
    BY <2>4, <2>5, <2>6
<1>2. QED
  BY <1>1, RequestsAreFollowed, Invariance, PTL

\* As long as the file opens, "err 1" and "wrong" are said only of an id and a password
\* that no row has, also when statements fail: what finding 3 shows is all there is.
THEOREM RefusalsAreTrue ==
  ASSUME "open" \notin Faults
  PROVE  Spec => []RefusalMeansNoSuchFriend
<1>1. IInv /\ RequestInv => RefusalMeansNoSuchFriend
  <2> SUFFICES ASSUME IInv, RequestInv, NEW c \in Sessions, session[c].phase = "reply",
                      session[c].reply.kind \in {"err 1", "wrong"}
               PROVE  ~FriendKnown(session[c], users)
    BY DEF RefusalMeansNoSuchFriend
  <2>1. session[c].connected
    BY DEF RequestInv, RequestOK, FileIsOpen
  <2>2. Truthful(session[c], users)
    BY DEF IInv, SessionOK, HandlerKnows
  <2>3. QED
    BY <2>1, <2>2 DEF Truthful
<1>2. QED
  BY <1>1, RequestsAreFollowed, Invariance, PTL
-----------------------------------------------------------------------------
\* The accounts that a table holds

\* UniqueIp of a table by itself
UniqueIn(table) == \A i, j \in DOMAIN table : table[i].ip = table[j].ip => i = j

\* When addresses are unique the account of an address is its only row.
LEMMA AccountFacts ==
  ASSUME NEW table, UniqueIn(table)
  PROVE  /\ \A b : b \in DOMAIN Accounts(table) <=> \E i \in DOMAIN table : table[i].ip = b
         /\ \A i \in DOMAIN table : Accounts(table)[table[i].ip] = AccountOf(table, i)
         /\ \A b \in DOMAIN Accounts(table) : \E i \in DOMAIN table :
              table[i].ip = b /\ Accounts(table)[b] = AccountOf(table, i)
<1>1. \A i \in DOMAIN table : RowOf(table, table[i].ip) = i
  BY DEF RowOf, UniqueIn
<1>2. QED
  BY <1>1 DEF Accounts

\* The accounts of a table are the function that has an account for each row.
LEMMA AccountsAre ==
  ASSUME NEW table, UniqueIn(table), NEW F, F = [b \in DOMAIN F |-> F[b]],
         \A i \in DOMAIN table : table[i].ip \in DOMAIN F,
         \A b \in DOMAIN F : \E i \in DOMAIN table :
           table[i].ip = b /\ F[b] = AccountOf(table, i)
  PROVE  Accounts(table) = F
<1>1. \A b : b \in DOMAIN Accounts(table) <=> b \in DOMAIN F
  BY AccountFacts
<1>2. DOMAIN Accounts(table) = DOMAIN F
  BY <1>1
<1>3. ASSUME NEW b \in DOMAIN F PROVE Accounts(table)[b] = F[b]
  BY AccountFacts
<1>4. Accounts(table) = [b \in DOMAIN Accounts(table) |-> Accounts(table)[b]]
  BY DEF Accounts
<1>5. QED
  BY <1>2, <1>3, <1>4

\* The accounts after an INSERT.
LEMMA AccountsInserted ==
  ASSUME NEW table \in Seq(Rows(IPs, Hashes, Coordinates)), UniqueIn(table), NEW ip \in IPs,
         \A i \in DOMAIN table : table[i].ip # ip
  PROVE  /\ ip \notin DOMAIN Accounts(table)
         /\ \A b \in DOMAIN Accounts(table) : Accounts(table)[b].id # Len(table) + 1
         /\ Accounts(Inserted(table, ip)) =
              [b \in DOMAIN Accounts(table) \cup {ip} |->
                 IF b = ip THEN [id |-> Len(table) + 1, password |-> NULL, coordinates |-> NULL]
                           ELSE Accounts(table)[b]]
<1> DEFINE new == Inserted(table, ip)
           n == Len(table) + 1
           old == Accounts(table)
           F == [b \in DOMAIN old \cup {ip} |->
                   IF b = ip THEN [id |-> n, password |-> NULL, coordinates |-> NULL] ELSE old[b]]
<1>1. /\ \A i \in DOMAIN table : table[i].ip \in DOMAIN old
      /\ \A b \in DOMAIN old : \E i \in DOMAIN table :
           table[i].ip = b /\ old[b] = AccountOf(table, i)
  BY AccountFacts
<1>2. /\ DOMAIN new = DOMAIN table \cup {n} /\ n \notin DOMAIN table
      /\ \A i \in DOMAIN table : new[i] = table[i]
      /\ new[n] = [ip |-> ip, password |-> NULL, coordinates |-> NULL]
  BY TableFacts DEF Inserted
<1>3. ip \notin DOMAIN old /\ \A b \in DOMAIN old : old[b].id # n
  <2> HIDE DEF new, n, old
  <2>1. ASSUME NEW b \in DOMAIN old PROVE b # ip /\ old[b].id # n
    <3>1. PICK i \in DOMAIN table : table[i].ip = b /\ old[b] = AccountOf(table, i)
      BY <1>1
    <3>2. old[b].id = i
      BY <3>1 DEF AccountOf
    <3>3. QED
      BY <1>2, <3>1, <3>2
  <2>2. QED
    BY <2>1
<1>4. Accounts(new) = F
  <2> HIDE DEF new, n, old
  <2>1. UniqueIn(new)
    BY <1>2 DEF UniqueIn
  <2>2. DOMAIN F = DOMAIN old \cup {ip} /\ F = [b \in DOMAIN F |-> F[b]]
    OBVIOUS
  <2>3. \A i \in DOMAIN new : new[i].ip \in DOMAIN F
    BY <1>1, <1>2, <2>2
  <2>4. ASSUME NEW b \in DOMAIN F
        PROVE  \E i \in DOMAIN new : new[i].ip = b /\ F[b] = AccountOf(new, i)
    <3>1. CASE b = ip
      <4>1. n \in DOMAIN new /\ new[n].ip = b
        BY <1>2, <3>1
      <4>2. F[b] = AccountOf(new, n)
        BY <1>2, <3>1 DEF AccountOf
      <4>3. QED
        BY <4>1, <4>2
    <3>2. CASE b # ip
      <4>1. b \in DOMAIN old /\ F[b] = old[b]
        BY <2>2, <3>2
      <4>2. PICK i \in DOMAIN table : table[i].ip = b /\ old[b] = AccountOf(table, i)
        BY <1>1, <4>1
      <4>3. i \in DOMAIN new /\ new[i] = table[i] /\ AccountOf(new, i) = AccountOf(table, i)
        BY <1>2, <4>2 DEF AccountOf
      <4>4. QED
        BY <4>1, <4>2, <4>3
    <3>3. QED
      BY <3>1, <3>2
  <2> HIDE DEF F
  <2>5. QED
    BY <2>1, <2>2, <2>3, <2>4, AccountsAre
<1>5. QED
  BY <1>3, <1>4

\* An UPDATE that leaves the addresses alone leaves the domain of the accounts.
LEMMA AccountsUpdated ==
  ASSUME NEW table, NEW new, UniqueIn(table), DOMAIN new = DOMAIN table,
         \A i \in DOMAIN table : new[i].ip = table[i].ip,
         NEW F, F = [b \in DOMAIN F |-> F[b]], DOMAIN F = DOMAIN Accounts(table),
         \A i \in DOMAIN table : F[table[i].ip] = AccountOf(new, i)
  PROVE  Accounts(new) = F
<1>1. UniqueIn(new)
  BY DEF UniqueIn
<1>2. \A i \in DOMAIN new : new[i].ip \in DOMAIN F
  BY AccountFacts
<1>3. \A b \in DOMAIN F : \E i \in DOMAIN new : new[i].ip = b /\ F[b] = AccountOf(new, i)
  BY AccountFacts
<1>4. QED
  BY <1>1, <1>2, <1>3, AccountsAre

\* The accounts after an UPDATE of a password.
LEMMA AccountsWithPassword ==
  ASSUME NEW table \in Seq(Rows(IPs, Hashes, Coordinates)), UniqueIn(table),
         NEW id \in DOMAIN table, NEW hash
  PROVE  Accounts(WithPassword(table, id, hash)) =
           [Accounts(table) EXCEPT ![table[id].ip].password = hash]
<1> DEFINE new == WithPassword(table, id, hash)
           old == Accounts(table)
           F == [old EXCEPT ![table[id].ip].password = hash]
<1>1. \A i \in DOMAIN table : table[i].ip \in DOMAIN old /\ old[table[i].ip] = AccountOf(table, i)
  BY AccountFacts
<1>2. \A i \in DOMAIN table : table[i] \in Rows(IPs, Hashes, Coordinates)
  OBVIOUS
<1>3. /\ DOMAIN new = DOMAIN table
      /\ \A i \in DOMAIN table : new[i] =
           [ip |-> table[i].ip, password |-> IF i = id THEN hash ELSE table[i].password,
            coordinates |-> table[i].coordinates]
  BY <1>2 DEF WithPassword, Rows
<1>4. old = [b \in DOMAIN old |-> old[b]]
  BY DEF Accounts
<1> HIDE DEF new, old
<1>5. DOMAIN F = DOMAIN old /\ F = [b \in DOMAIN F |-> F[b]]
  BY <1>4
<1>6. ASSUME NEW i \in DOMAIN table PROVE F[table[i].ip] = AccountOf(new, i)
  <2>1. CASE i = id
    <3>1. F[table[i].ip] = [old[table[i].ip] EXCEPT !.password = hash]
      BY <1>1, <2>1
    <3>2. old[table[i].ip] = [id |-> i, password |-> table[i].password,
                              coordinates |-> table[i].coordinates]
      BY <1>1 DEF AccountOf
    <3>3. F[table[i].ip] = [id |-> i, password |-> hash, coordinates |-> table[i].coordinates]
      BY <3>1, <3>2
    <3>4. new[i].password = hash /\ new[i].coordinates = table[i].coordinates
      BY <1>3, <2>1
    <3>5. QED
      BY <3>3, <3>4 DEF AccountOf
  <2>2. CASE i # id
    <3>1. table[i].ip # table[id].ip
      BY <2>2 DEF UniqueIn
    <3>2. F[table[i].ip] = old[table[i].ip]
      BY <1>1, <3>1
    <3>3. QED
      BY <1>1, <1>3, <2>2, <3>2 DEF AccountOf
  <2>3. QED
    BY <2>1, <2>2
<1> HIDE DEF F
<1>7. Accounts(new) = F
  BY <1>3, <1>5, <1>6, AccountsUpdated DEF old
<1>8. QED
  BY <1>7 DEF new, old, F

\* The accounts after an UPDATE of coordinates.
LEMMA AccountsWithCoordinates ==
  ASSUME NEW table \in Seq(Rows(IPs, Hashes, Coordinates)), UniqueIn(table),
         NEW ip, NEW coordinates
  PROVE  Accounts(WithCoordinates(table, ip, coordinates)) =
           [b \in DOMAIN Accounts(table) |->
              IF b = ip THEN [Accounts(table)[b] EXCEPT !.coordinates = coordinates]
                        ELSE Accounts(table)[b]]
<1> DEFINE new == WithCoordinates(table, ip, coordinates)
           old == Accounts(table)
           F == [b \in DOMAIN old |->
                   IF b = ip THEN [old[b] EXCEPT !.coordinates = coordinates] ELSE old[b]]
<1>1. \A i \in DOMAIN table : table[i].ip \in DOMAIN old /\ old[table[i].ip] = AccountOf(table, i)
  BY AccountFacts
<1>2. /\ DOMAIN new = DOMAIN table
      /\ \A i \in DOMAIN table : new[i] =
           [ip |-> table[i].ip, password |-> table[i].password,
            coordinates |-> IF table[i].ip = ip THEN coordinates ELSE table[i].coordinates]
  BY WithCoordinatesFacts
<1> HIDE DEF new, old
<1>3. DOMAIN F = DOMAIN old /\ F = [b \in DOMAIN F |-> F[b]]
  OBVIOUS
<1>4. ASSUME NEW i \in DOMAIN table PROVE F[table[i].ip] = AccountOf(new, i)
  <2>1. F[table[i].ip] = IF table[i].ip = ip THEN [old[table[i].ip] EXCEPT !.coordinates = coordinates]
                                             ELSE old[table[i].ip]
    BY <1>1
  <2>2. old[table[i].ip] = [id |-> i, password |-> table[i].password,
                            coordinates |-> table[i].coordinates]
    BY <1>1 DEF AccountOf
  <2>3. F[table[i].ip] = [id |-> i, password |-> table[i].password,
          coordinates |-> IF table[i].ip = ip THEN coordinates ELSE table[i].coordinates]
    BY <2>1, <2>2
  <2>4. /\ new[i].password = table[i].password
        /\ new[i].coordinates = IF table[i].ip = ip THEN coordinates ELSE table[i].coordinates
    BY <1>2
  <2>5. QED
    BY <2>3, <2>4 DEF AccountOf
<1> HIDE DEF F
<1>5. Accounts(new) = F
  BY <1>2, <1>3, <1>4, AccountsUpdated DEF old
<1>6. QED
  BY <1>5 DEF new, old, F
-----------------------------------------------------------------------------
\* The clients that the sessions serve

LEMMA ReceivedFacts ==
  ASSUME NEW m \in Messages, NEW got \in Segments(m)
  PROVE  got \in Received
BY DEF Received

\* The fields of the request that a message makes.
LEMMA RequestFields ==
  ASSUME NEW m \in Received
  PROVE  LET r == RequestOf[m] IN
         /\ r.command = Header(m) /\ r.valid = CheckFriendFormat(FriendOf(m))
         /\ r.id = FriendId(FriendOf(m)) /\ r.hash = Hash[FriendOf(m)[2]]
         /\ CheckCoordinatesFormat(CoordinatesOf(m)) <=> r.coordinates # NULL
         /\ CheckCoordinatesFormat(CoordinatesOf(m)) => r.coordinates = CoordinatesOf(m)
<1>1. CheckCoordinatesFormat(CoordinatesOf(m)) => CoordinatesOf(m) # NULL
  BY FormatFacts, SessionAssumption DEF Coordinates
<1>2. RequestOf[m] =
        [command |-> Header(m),
         coordinates |-> IF CheckCoordinatesFormat(CoordinatesOf(m)) THEN CoordinatesOf(m) ELSE NULL,
         valid |-> CheckFriendFormat(FriendOf(m)),
         id |-> FriendId(FriendOf(m)),
         hash |-> Hash[FriendOf(m)[2]]]
  BY DEF RequestOf
<1>3. QED
  BY <1>1, <1>2

\* How far the request of a session is, by the phase of the session.
LEMMA ClientFacts ==
  ASSUME NEW s
  PROVE  /\ s.phase \notin HandlerSteps \cup {"received"} => ClientOf(s) = [state |-> "away"]
         /\ s.phase = "reply" => ClientOf(s) =
              [state |-> "answered", address |-> s.ip, request |-> RequestOf[s.message],
               reply |-> s.reply]
         /\ s.phase \in {"received", "init", "select", "insert", "reselect", "set_password",
                         "store", "update"} =>
              ClientOf(s) = [state |-> "asked", address |-> s.ip,
                             request |-> RequestOf[s.message], reply |-> NoReply]
         /\ s.phase \in {"friend", "find", "fetch"} =>
              ClientOf(s) = [state |-> IF HasStored(s) THEN "stored" ELSE "asked",
                             address |-> s.ip, request |-> RequestOf[s.message], reply |-> NoReply]
<1>1. CASE s.phase \notin HandlerSteps \cup {"received"}
  BY <1>1 DEF ClientOf, HandlerSteps
<1>2. CASE s.phase = "reply"
  BY <1>2 DEF ClientOf, HandlerSteps
<1>3. CASE s.phase \in {"received", "init", "select", "insert", "reselect", "set_password",
                        "store", "update"}
  <2>1. ~HasStored(s) /\ s.phase # "reply" /\ s.phase \in HandlerSteps \cup {"received"}
    BY <1>3 DEF HasStored, HandlerSteps
  <2>2. ClientOf(s) = [state |-> "asked", address |-> s.ip,
                       request |-> RequestOf[s.message], reply |-> NoReply]
    BY <2>1 DEF ClientOf
  <2>3. QED
    BY <1>3, <2>2 DEF HandlerSteps
<1>4. CASE s.phase \in {"friend", "find", "fetch"}
  <2>1. s.phase # "reply" /\ s.phase \in HandlerSteps \cup {"received"}
    BY <1>4 DEF HandlerSteps
  <2>2. ClientOf(s) = [state |-> IF HasStored(s) THEN "stored" ELSE "asked",
                       address |-> s.ip, request |-> RequestOf[s.message], reply |-> NoReply]
    BY <2>1 DEF ClientOf
  <2>3. QED
    BY <1>4, <2>2 DEF HandlerSteps
<1>5. QED
  BY <1>1, <1>2, <1>3, <1>4 DEF HandlerSteps

\* A step of one session is a step of its client.
LEMMA ClientStep ==
  ASSUME NEW c \in Sessions, NEW s, NEW old, NEW new, old = [d \in Sessions |-> old[d]],
         new = [old EXCEPT ![c] = s]
  PROVE  ClientsOf(new) = [ClientsOf(old) EXCEPT ![c] = ClientOf(s)]
BY DEF ClientsOf

\* A session that was just made is a client that is away.
LEMMA FreshClient == ClientOf(FreshSession) = [state |-> "away"]
  /\ ClientsOf(NoSessions) = [c \in Sessions |-> [state |-> "away"]]
<1>1. ClientOf(FreshSession) = [state |-> "away"]
  BY DEF ClientOf, FreshSession, HandlerSteps
<1>2. QED
  BY <1>1 DEF ClientsOf, NoSessions
-----------------------------------------------------------------------------
\* Steps of the service

\* The mapped variables of the service
ServiceVars == <<Accounts(users), ClientsOf(session)>>

\* A step that the client of a session cannot tell is no step of the service.
LEMMA NoServiceStep ==
  ASSUME IInv, NEW c \in Sessions, NEW s, session' = [session EXCEPT ![c] = s],
         users' = users, ClientOf(s) = ClientOf(session[c])
  PROVE  UNCHANGED ServiceVars
<1>1. session = [d \in Sessions |-> session[d]]
  BY OneSession
<1>2. ClientsOf(session') = [ClientsOf(session) EXCEPT ![c] = ClientOf(session[c])]
  BY <1>1, ClientStep
<1>3. ClientsOf(session)[c] = ClientOf(session[c])
      /\ ClientsOf(session) = [d \in Sessions |-> ClientsOf(session)[d]]
  BY DEF ClientsOf
<1>4. ClientsOf(session') = ClientsOf(session)
  BY <1>2, <1>3
<1>5. QED
  BY <1>4 DEF ServiceVars

\* A session that ends without an answer, or after it.
LEMMA LeaveStep ==
  ASSUME IInv, NEW c \in Sessions, session' = Destroyed(c), users' = users
  PROVE  Service!Leave(c)
<1>1. session = [d \in Sessions |-> session[d]]
  BY OneSession
<1>2. ClientsOf(session') = [ClientsOf(session) EXCEPT ![c] = [state |-> "away"]]
  BY <1>1, ClientStep, FreshClient DEF Destroyed
<1>3. QED
  BY <1>2 DEF Service!Leave, Service!Away

\* The end of a run of start().
LEMMA RestartStep ==
  ASSUME session' = NoSessions, users' = users
  PROVE  Service!Restart
BY FreshClient DEF Service!Restart, Service!Away

\* Initial states map to initial states of the service.
LEMMA ServiceInit == Init => Service!Init
<1> SUFFICES ASSUME Init PROVE Service!Init
  OBVIOUS
<1>1. Accounts(users) = [a \in {} |-> NULL]
  BY DEF Init, Accounts
<1>2. QED
  BY <1>1, FreshClient DEF Init, Service!Init, Service!Away

\* What RequestInv says of a session whose client waits.
LEMMA WaitingFacts ==
  ASSUME RequestInv, NEW c \in Sessions, session[c].phase \in HandlerSteps \cup {"received"}
  PROVE  session[c].message \in Received /\ RequestOK(session[c], users)
BY ReceivedFacts DEF RequestInv, RequestOK

\* What happens to a socket is that a client asks or leaves, or nothing.
LEMMA SocketService ==
  ASSUME IInv, NEW c \in Sessions, SocketEvent(c)
  PROVE  [Service!Next]_ServiceVars
<1>0. /\ session[c] \in SessionType /\ session = [d \in Sessions |-> session[d]]
      /\ SessionOK(session[c], users, created)
  BY OneSession
<1>1. CASE DataArrives(c)
  <2>1. PICK m \in Messages : \E got \in Segments(m) :
          session' = [session EXCEPT ![c].phase = "received", ![c].sent = m, ![c].message = got]
    BY <1>1 DEF DataArrives
  <2>2. PICK got \in Segments(m) :
          session' = [session EXCEPT ![c].phase = "received", ![c].sent = m, ![c].message = got]
    BY <2>1
  <2> DEFINE s == [session[c] EXCEPT !.phase = "received", !.sent = m, !.message = got]
  <2>3. s.phase = "received" /\ s.ip = session[c].ip /\ s.message = got
    BY <1>0 DEF SessionType
  <2>4. session' = [session EXCEPT ![c] = s] /\ users' = users /\ session[c].phase = "reading"
    BY <1>0, <1>1, <2>2 DEF DataArrives
  <2> HIDE DEF s
  <2>5. /\ got \in Received /\ session[c].ip \in IPs
    BY <1>0, <2>4, ReceivedFacts DEF SessionOK
  <2>6. ClientOf(s) = [state |-> "asked", address |-> session[c].ip,
                       request |-> RequestOf[got], reply |-> NoReply]
    BY <2>3, ClientFacts
  <2>7. ClientOf(s) \in Service!Asked
    BY <2>5, <2>6 DEF Service!Asked, Service!NoReply, NoReply, Reply
  <2>8. ClientsOf(session') = [ClientsOf(session) EXCEPT ![c] = ClientOf(s)]
    BY <1>0, <2>4, ClientStep
  <2>9. ClientsOf(session)[c] = [state |-> "away"]
    BY <2>4, ClientFacts DEF ClientsOf, HandlerSteps
  <2>10. ClientsOf(session')[c] = ClientOf(s)
    BY <2>8 DEF ClientsOf
  <2>11. Service!Ask(c)
    BY <2>4, <2>7, <2>8, <2>9, <2>10 DEF Service!Ask, Service!Away
  <2>12. QED
    BY <2>11 DEF Service!Next
<1>2. CASE Reset(c)
  <2> DEFINE s == [session[c] EXCEPT !.alive = FALSE]
  <2>1. /\ s.phase = session[c].phase /\ s.ip = session[c].ip
        /\ s.message = session[c].message /\ s.reply = session[c].reply
    BY <1>0 DEF SessionType
  <2>2. session' = [session EXCEPT ![c] = s] /\ users' = users
    BY <1>0, <1>2 DEF Reset
  <2> HIDE DEF s
  <2>3. ClientOf(s) = ClientOf(session[c])
    BY <2>1 DEF ClientOf, HasStored
  <2>4. QED
    BY <2>2, <2>3, NoServiceStep
<1>3. CASE ReadFails(c)
  <2> DEFINE s == [session[c] EXCEPT !.phase = "read_error"]
  <2>1. s.phase = "read_error"
    BY <1>0 DEF SessionType
  <2>2. session' = [session EXCEPT ![c] = s] /\ users' = users /\ session[c].phase = "reading"
    BY <1>0, <1>3 DEF ReadFails, Goto
  <2> HIDE DEF s
  <2>3. ClientOf(s) = ClientOf(session[c])
    BY <2>1, <2>2, ClientFacts DEF HandlerSteps
  <2>4. QED
    BY <2>2, <2>3, NoServiceStep
<1>4. QED
  BY <1>1, <1>2, <1>3 DEF SocketEvent

\* HasStored for a session that looks for a friend.
LEMMA StoredFacts ==
  ASSUME NEW s, s.message \in Received, s.phase \in {"friend", "find", "fetch"}
  PROVE  HasStored(s) <=> /\ Header(s.message) = "/store_and_get"
                          /\ CheckCoordinatesFormat(CoordinatesOf(s.message))
BY RequestFields DEF HasStored

\* The first step of a handler is a stutter, or the client leaves.
LEMMA ReceiveService ==
  ASSUME IInv, RequestInv, NEW c \in Sessions, ReceiveDataHandle(c)
  PROVE  [Service!Next]_ServiceVars
<1> DEFINE step == FirstStep(session[c].message)
           s == [session[c] EXCEPT !.phase = step]
<1>0. session[c] \in SessionType /\ session \in [Sessions -> SessionType]
  BY OneSession
<1>1. users' = users
  BY DEF ReceiveDataHandle
<1>2. CASE session' = Destroyed(c)
  BY <1>1, <1>2, LeaveStep DEF Service!Next
<1>3. CASE session[c].phase = "received" /\ session' = Goto(c, step) /\ step # "free"
  <2>1. s.phase = step /\ s.ip = session[c].ip /\ s.message = session[c].message
    BY <1>0 DEF SessionType
  <2>2. session' = [session EXCEPT ![c] = s]
    BY <1>0, <1>3 DEF Goto
  <2>3. step \in {"init", "store", "friend"}
    BY <1>3, FirstStepFacts
  <2>4. session[c].message \in Received
    BY <1>3, WaitingFacts
  <2> HIDE DEF s
  <2>5. ClientOf(session[c]) = [state |-> "asked", address |-> session[c].ip,
          request |-> RequestOf[session[c].message], reply |-> NoReply]
    BY <1>3, ClientFacts
  <2>6. step = "friend" => ~HasStored(s)
    BY <2>1, <2>4, StoredFacts, DispatchFacts
  <2>7. ClientOf(s) = ClientOf(session[c])
    BY <2>1, <2>3, <2>5, <2>6, ClientFacts
  <2>8. QED
    BY <1>1, <2>2, <2>7, NoServiceStep
<1>4. QED
  BY <1>2, <1>3 DEF ReceiveDataHandle, Continue

\* Steps of a handler whose client cannot tell where it is.
LEMMA OpenService ==
  ASSUME IInv, RequestInv, NEW c \in Sessions, NEW from, NEW to,
         <<from, to>> \in {<<"init", "select">>, <<"store", "update">>, <<"friend", "find">>},
         OpenConnection(c, from, to)
  PROVE  [Service!Next]_ServiceVars
<1>0. session[c] \in SessionType /\ session \in [Sessions -> SessionType]
  BY OneSession
<1>1. PICK ok : session' = [session EXCEPT ![c].phase = to, ![c].connected = ok]
  BY DEF OpenConnection
<1>2. session[c].phase = from /\ users' = users
  BY DEF OpenConnection
<1> DEFINE s == [session[c] EXCEPT !.phase = to, !.connected = ok]
<1>3. /\ s.phase = to /\ s.ip = session[c].ip /\ s.message = session[c].message
      /\ session' = [session EXCEPT ![c] = s]
  BY <1>0, <1>1 DEF SessionType
<1>4. session[c].message \in Received
  BY <1>2, WaitingFacts DEF HandlerSteps
<1> HIDE DEF s
<1>5. from = "friend" => (HasStored(s) <=> HasStored(session[c]))
  BY <1>2, <1>3, <1>4, StoredFacts
<1>6. ClientOf(s) = ClientOf(session[c])
  BY <1>2, <1>3, <1>5, ClientFacts
<1>7. QED
  BY <1>2, <1>3, <1>6, NoServiceStep

\* A step from one phase of /init to the next.
LEMMA InitSilent ==
  ASSUME NEW old, NEW s, s.ip = old.ip, s.message = old.message,
         old.phase \in {"select", "insert", "reselect"},
         s.phase \in {"insert", "reselect", "set_password"}
  PROVE  ClientOf(s) = ClientOf(old)
BY ClientFacts

\* The SELECTs of initUser are stutters, or the client leaves.
LEMMA SelectService ==
  ASSUME IInv, NEW c \in Sessions, SelectUser(c) \/ ReselectUser(c)
  PROVE  [Service!Next]_ServiceVars
<1>0. session[c] \in SessionType /\ session \in [Sessions -> SessionType]
  BY OneSession
<1>1. users' = users /\ session[c].phase \in {"select", "reselect"}
  BY DEF SelectUser, ReselectUser
<1>2. CASE session' = Destroyed(c)
  BY <1>1, <1>2, LeaveStep DEF Service!Next
<1>3. CASE session' # Destroyed(c)
  <2>1. PICK step \in {"insert", "set_password"} : \E d :
          session' = [session EXCEPT ![c].phase = step, ![c].database = d]
    <3>1. CASE SelectUser(c)
      <4>1. PICK d : session' = [session EXCEPT
              ![c].phase = IF d.results = NoResults \/ d.results.id = NULL
                           THEN "insert" ELSE "set_password",
              ![c].database = d]
        BY <3>1 DEF SelectUser
      <4>2. CASE d.results = NoResults \/ d.results.id = NULL
        <5>1. session' = [session EXCEPT ![c].phase = "insert", ![c].database = d]
          BY <4>1, <4>2
        <5>2. QED
          BY <5>1
      <4>3. CASE ~(d.results = NoResults \/ d.results.id = NULL)
        <5>1. session' = [session EXCEPT ![c].phase = "set_password", ![c].database = d]
          BY <4>1, <4>3
        <5>2. QED
          BY <5>1
      <4>4. QED
        BY <4>2, <4>3
    <3>2. CASE ReselectUser(c)
      BY <1>3, <3>2 DEF ReselectUser
    <3>3. QED
      BY <3>1, <3>2
  <2>2. PICK d : session' = [session EXCEPT ![c].phase = step, ![c].database = d]
    BY <2>1
  <2> DEFINE s == [session[c] EXCEPT !.phase = step, !.database = d]
  <2>3. /\ s.phase = step /\ s.ip = session[c].ip /\ s.message = session[c].message
        /\ session' = [session EXCEPT ![c] = s]
    BY <1>0, <2>2 DEF SessionType
  <2> HIDE DEF s
  <2>4. ClientOf(s) = ClientOf(session[c])
    BY <1>1, <2>3, InitSilent
  <2>5. QED
    BY <1>1, <2>3, <2>4, NoServiceStep
<1>4. QED
  BY <1>2, <1>3

\* As long as no statement fails an address has one row.
LEMMA OneRow ==
  ASSUME IInv, NoSQLFaults
  PROVE  UniqueIn(users)
BY DEF IInv, UniqueIp, NoSQLFaults, UniqueIn

\* The INSERT of initUser, where the disk has room for the row.
LEMMA InsertService ==
  ASSUME IInv, RequestInv, NoSQLFaults, NEW c \in Sessions, InsertUser(c)
  PROVE  [Service!Next]_ServiceVars
<1> DEFINE ip == session[c].ip
           n == Len(users) + 1
           old == Accounts(users)
<1>0. /\ session[c] \in SessionType /\ session \in [Sessions -> SessionType]
      /\ SessionOK(session[c], users, created)
      /\ users \in Seq(Rows(IPs, Hashes, Coordinates)) /\ UniqueIn(users)
  BY OneSession, OneRow
<1>1. PICK o \in Outcomes(session[c].connected, created /\ ~(Len(users) >= MaxUsers),
                          ~created \/ Len(users) >= MaxUsers \/ "sql" \in Faults) :
        /\ users' = IF o = "done" THEN Inserted(users, ip) ELSE users
        /\ session' = [session EXCEPT ![c].phase = "reselect",
                         ![c].database = Written(session[c].database, o)]
  BY DEF InsertUser
<1>2. session[c].phase = "insert"
  BY DEF InsertUser
<1> DEFINE d == Written(session[c].database, o)
           s == [session[c] EXCEPT !.phase = "reselect", !.database = d]
<1>3. /\ s.phase = "reselect" /\ s.ip = ip /\ s.message = session[c].message
      /\ session' = [session EXCEPT ![c] = s]
  BY <1>0, <1>1 DEF SessionType
<1> HIDE DEF s, d
<1>4. ClientOf(s) = ClientOf(session[c])
  BY <1>2, <1>3, InitSilent
<1>5. CASE users' = users
  BY <1>3, <1>4, <1>5, NoServiceStep
<1>6. CASE o = "done"
  <2>1. /\ session[c].message \in Received /\ Header(session[c].message) = "/init"
        /\ session[c].connected
    BY <1>2, WaitingFacts DEF HandlerSteps, RequestOK, RequestFits, FileIsOpen, NoSQLFaults
  <2>2. created /\ ~(Len(users) >= MaxUsers)
    BY <1>1, <1>6, OutcomesFacts
  <2>3. ip \in IPs /\ \A i \in DOMAIN users : users[i].ip # ip
    <3>1. session[c].database.failed \in BOOLEAN
      BY <1>0 DEF SessionType
    <3>2. QED
      BY <1>0, <1>2, <2>1, <2>2, <3>1 DEF SessionOK, HandlerKnows, NoSQLFaults
  <2>4. n \in 1..MaxUsers
    <3>1. PICK k \in Nat : Len(users) = k
      BY <1>0
    <3>2. MaxUsers \in Nat
      BY SessionAssumption
    <3>3. QED
      BY <2>2, <3>1, <3>2
  <2>5. /\ ip \notin DOMAIN old
        /\ \A b \in DOMAIN old : old[b].id # n
        /\ Accounts(users') = [b \in DOMAIN old \cup {ip} |->
             IF b = ip THEN [id |-> n, password |-> NULL, coordinates |-> NULL] ELSE old[b]]
    <3>1. users' = Inserted(users, ip)
      BY <1>1, <1>6
    <3>2. QED
      BY <1>0, <2>3, <3>1, AccountsInserted
  <2>6. ClientOf(session[c]) = [state |-> "asked", address |-> ip,
          request |-> RequestOf[session[c].message], reply |-> NoReply]
    BY <1>2, ClientFacts
  <2>7. /\ ClientsOf(session)[c].state = "asked" /\ ClientsOf(session)[c].address = ip
        /\ ClientsOf(session)[c].request.command = "/init"
    BY <2>1, <2>6, RequestFields DEF ClientsOf
  <2>8. ClientsOf(session') = ClientsOf(session)
    <3>1. session = [b \in Sessions |-> session[b]]
      BY <1>0
    <3>2. ClientsOf(session') = [ClientsOf(session) EXCEPT ![c] = ClientOf(session[c])]
      BY <1>3, <1>4, <3>1, ClientStep
    <3>3. QED
      BY <3>2 DEF ClientsOf
  <2> HIDE DEF ip, n, old
  <2>9. \E id \in 1..MaxUsers :
          /\ \A b \in DOMAIN old : old[b].id # id
          /\ Accounts(users') = [b \in DOMAIN old \cup {ip} |->
               IF b = ip THEN [id |-> id, password |-> NULL, coordinates |-> NULL] ELSE old[b]]
    BY <2>4, <2>5
  <2>10. Service!Enroll(c)
    BY <2>5, <2>7, <2>8, <2>9 DEF Service!Enroll, old
  <2>11. QED
    BY <2>10 DEF Service!Next
<1>7. QED
  BY <1>1, <1>5, <1>6

\* A handler that goes on to sendToUser answers its client.
LEMMA AnswersStep ==
  ASSUME IInv, NEW c \in Sessions, NEW s, session' = [session EXCEPT ![c] = s],
         session[c].phase \in HandlerSteps, session[c].phase # "reply", s.phase = "reply",
         s.ip = session[c].ip, s.message = session[c].message
  PROVE  Service!Answers(c, s.reply)
<1> DEFINE old == session[c]
           C == ClientsOf(session)
           client == ClientOf(old)
<1>1. PICK state : client = [state |-> state, address |-> old.ip,
                             request |-> RequestOf[old.message], reply |-> NoReply]
  <2>1. CASE session[c].phase \in {"friend", "find", "fetch"}
    BY <2>1, ClientFacts
  <2>2. CASE session[c].phase \notin {"friend", "find", "fetch"}
    BY <2>2, ClientFacts DEF HandlerSteps
  <2>3. QED
    BY <2>1, <2>2
<1>2. ClientOf(s) = [state |-> "answered", address |-> old.ip,
                     request |-> RequestOf[old.message], reply |-> s.reply]
  BY ClientFacts
<1> HIDE DEF client
<1> DEFINE half == [client EXCEPT !.state = "answered"]
<1>3. half = [state |-> "answered", address |-> old.ip,
              request |-> RequestOf[old.message], reply |-> NoReply]
  BY <1>1
<1>4. [client EXCEPT !.state = "answered", !.reply = s.reply] = [half EXCEPT !.reply = s.reply]
  OBVIOUS
<1> HIDE DEF half
<1>5. [half EXCEPT !.reply = s.reply] = ClientOf(s)
  BY <1>2, <1>3
<1>6. ClientOf(s) = [client EXCEPT !.state = "answered", !.reply = s.reply]
  BY <1>4, <1>5
<1>7. session = [b \in Sessions |-> session[b]]
  BY OneSession
<1>8. ClientsOf(session') = [C EXCEPT ![c] = ClientOf(s)]
  BY <1>7, ClientStep
<1>9. C = [b \in Sessions |-> C[b]] /\ C[c] = client
  BY DEF ClientsOf, client
<1> HIDE DEF C
<1>10. ClientsOf(session') = [C EXCEPT ![c].state = "answered", ![c].reply = s.reply]
  BY <1>6, <1>8, <1>9
<1>11. QED
  BY <1>10 DEF Service!Answers, C

\* The UPDATE of initUser, and the answer with the new password.
LEMMA SetPasswordService ==
  ASSUME IInv, RequestInv, NoSQLFaults, NEW c \in Sessions, SetPassword(c)
  PROVE  [Service!Next]_ServiceVars
<1> DEFINE ip == session[c].ip
           id == session[c].database.results.id
           old == Accounts(users)
           C == ClientsOf(session)
<1>0. /\ session[c] \in SessionType /\ session \in [Sessions -> SessionType]
      /\ SessionOK(session[c], users, created)
      /\ users \in Seq(Rows(IPs, Hashes, Coordinates)) /\ UniqueIn(users)
  BY OneSession, OneRow
<1>1. session[c].phase = "set_password"
  BY DEF SetPassword
<1>2. session[c].connected /\ id \in DOMAIN users /\ users[id].ip = ip
  BY <1>0, <1>1 DEF SessionOK, HandlerKnows
<1>3. StatementOutcomes(c) = {"done"}
  BY <1>1, <1>2, NoFaultFacts
<1>4. session[c].message \in Received /\ Header(session[c].message) = "/init"
  BY <1>1, WaitingFacts DEF HandlerSteps, RequestOK, RequestFits
<1>5. PICK pass \in Passwords : \E o \in StatementOutcomes(c) :
        LET d == Written(session[c].database, o)
        IN  /\ users' = IF o = "done" THEN WithPassword(users, id, Hash[pass]) ELSE users
            /\ session' = Answered(c, d, IF d.failed THEN NoReply
                                    ELSE [kind |-> "credentials", id |-> id, pass |-> pass])
  BY DEF SetPassword
<1> DEFINE d == Written(session[c].database, "done")
           reply == [kind |-> "credentials", id |-> id, pass |-> pass]
           s == [session[c] EXCEPT !.phase = "reply", !.database = d, !.reply = reply]
<1>6. /\ users' = WithPassword(users, id, Hash[pass])
      /\ session' = Answered(c, d, IF d.failed THEN NoReply ELSE reply)
  BY <1>3, <1>5
<1>7. d.failed = FALSE
  BY <1>0 DEF Written, FailedAfter, SessionType
<1>8. reply # NoReply
  <2>1. reply.kind # NoReply.kind
    BY DEF NoReply, Reply
  <2>2. QED
    BY <2>1
<1>9. /\ s.phase = "reply" /\ s.ip = ip /\ s.message = session[c].message /\ s.reply = reply
      /\ session' = [session EXCEPT ![c] = s]
  BY <1>0, <1>6, <1>7, <1>8 DEF Answered, SessionType
<1> HIDE DEF s, d
<1>10. Accounts(users') = [old EXCEPT ![ip].password = Hash[pass]]
  BY <1>0, <1>2, <1>6, AccountsWithPassword
<1>11. ip \in DOMAIN old /\ old[ip].id = id
  <2>1. ip \in DOMAIN old /\ old[ip] = AccountOf(users, id)
    BY <1>0, <1>2, AccountFacts
  <2>2. QED
    BY <2>1 DEF AccountOf
<1>12. C[c] = [state |-> "asked", address |-> ip,
               request |-> RequestOf[session[c].message], reply |-> NoReply]
  BY <1>1, ClientFacts DEF ClientsOf
<1>13. C[c].state = "asked" /\ C[c].address = ip /\ C[c].request.command = "/init"
  BY <1>4, <1>12, RequestFields
<1>14. Service!Answers(c, [kind |-> "credentials", id |-> old[ip].id, pass |-> pass])
  <2>1. session[c].phase \in HandlerSteps /\ session[c].phase # "reply"
    BY <1>1 DEF HandlerSteps
  <2> HIDE DEF reply, old
  <2>2. Service!Answers(c, s.reply)
    BY <1>9, <2>1, AnswersStep
  <2>3. QED
    BY <1>9, <1>11, <2>2 DEF reply
<1>15. Service!Renew(c)
  <2> HIDE DEF ip, id
  <2>1. QED
    BY <1>10, <1>11, <1>13, <1>14 DEF Service!Renew
<1>16. QED
  BY <1>15 DEF Service!Next

\* The UPDATE of storeCoordinates, and what follows it.
LEMMA UpdateService ==
  ASSUME IInv, RequestInv, NoSQLFaults, NEW c \in Sessions, UpdateCoordinates(c)
  PROVE  [Service!Next]_ServiceVars
<1> DEFINE ip == session[c].ip
           m == session[c].message
           r == RequestOf[m]
           step == StepAfterStore(m)
           old == Accounts(users)
           C == ClientsOf(session)
<1>0. /\ session[c] \in SessionType /\ session \in [Sessions -> SessionType]
      /\ users \in Seq(Rows(IPs, Hashes, Coordinates)) /\ UniqueIn(users)
  BY OneSession, OneRow
<1>s. session = [b \in Sessions |-> session[b]]
  BY <1>0
<1>t. C = [b \in Sessions |-> C[b]]
  BY DEF ClientsOf
<1>1. session[c].phase = "update"
  BY DEF UpdateCoordinates
<1>2. /\ m \in Received /\ Header(m) = "/store_and_get"
      /\ CheckCoordinatesFormat(CoordinatesOf(m)) /\ session[c].connected
  BY <1>1, WaitingFacts DEF HandlerSteps, RequestOK, RequestFits, FileIsOpen, NoSQLFaults
<1>3. StatementOutcomes(c) = {"done"}
  BY <1>1, <1>2, NoFaultFacts
<1> DEFINE d == Written(session[c].database, "done")
           s == [session[c] EXCEPT !.phase = step, !.connected = FALSE, !.database = d]
<1>4. /\ users' = WithCoordinates(users, ip, CoordinatesOf(m))
      /\ session' = IF step = "free"
                    THEN Destroyed(c)
                    ELSE [session EXCEPT ![c].phase = step, ![c].connected = FALSE,
                            ![c].database = d]
  BY <1>3 DEF UpdateCoordinates
<1>5. /\ r.command = "/store_and_get" /\ r.coordinates # NULL
      /\ r.coordinates = CoordinatesOf(m) /\ r.valid = CheckFriendFormat(FriendOf(m))
  BY <1>2, RequestFields
<1>6. Accounts(users') = [b \in DOMAIN old |->
        IF b = ip THEN [old[b] EXCEPT !.coordinates = r.coordinates] ELSE old[b]]
  BY <1>0, <1>4, <1>5, AccountsWithCoordinates
<1>7. C[c] = [state |-> "asked", address |-> ip, request |-> r, reply |-> NoReply]
  BY <1>1, ClientFacts DEF ClientsOf
<1> HIDE DEF C, r
<1>8. \/ r.valid /\ ClientsOf(session') = [C EXCEPT ![c].state = "stored"]
      \/ ~r.valid /\ ClientsOf(session') = [C EXCEPT ![c] = Service!Away]
  <2>1. CASE step = "free"
    <3>1. ~r.valid
      BY <1>2, <1>5, <2>1 DEF StepAfterStore, FriendStep
    <3>2. ClientsOf(session') = [C EXCEPT ![c] = [state |-> "away"]]
      <4>1. session' = [session EXCEPT ![c] = FreshSession]
        BY <1>4, <2>1 DEF Destroyed
      <4>2. QED
        BY <1>s, <4>1, ClientStep, FreshClient DEF C
    <3>3. QED
      BY <3>1, <3>2 DEF Service!Away
  <2>2. CASE step = "friend"
    <3>1. r.valid
      BY <1>5, <2>2 DEF StepAfterStore, FriendStep
    <3>2. /\ s.phase = "friend" /\ s.ip = ip /\ s.message = m
          /\ session' = [session EXCEPT ![c] = s]
      BY <1>0, <1>4, <2>2 DEF SessionType
    <3> HIDE DEF s
    <3>3. HasStored(s)
      BY <1>2, <3>2, StoredFacts
    <3>4. ClientOf(s) = [state |-> "stored", address |-> ip, request |-> r, reply |-> NoReply]
      BY <3>2, <3>3, ClientFacts DEF r
    <3>5. ClientsOf(session') = [C EXCEPT ![c] = ClientOf(s)]
      BY <1>s, <3>2, ClientStep DEF C
    <3>6. ClientOf(s) = [C[c] EXCEPT !.state = "stored"]
      BY <1>7, <3>4
    <3>7. QED
      BY <1>t, <3>1, <3>5, <3>6
  <2>3. QED
    BY <2>1, <2>2, FirstStepFacts
<1>9. C[c].state = "asked" /\ C[c].address = ip /\ C[c].request = r
  BY <1>7
<1> HIDE DEF ip, m, old
<1>10. Service!Store(c)
  BY <1>5, <1>6, <1>8, <1>9 DEF Service!Store, C, old
<1>11. QED
  BY <1>10 DEF Service!Next

\* The rows that FindFriend looks for are the accounts of the friend.
LEMMA FriendsFacts ==
  ASSUME IInv, NoSQLFaults, NEW s, s.message \in Received
  PROVE  LET friends == Service!Friends(RequestOf[s.message])
             id == FriendId(FriendOf(s.message))
         IN  /\ FriendKnown(s, users) <=> friends # {}
             /\ \A b \in friends : Accounts(users)[b].coordinates = users[id].coordinates
<1> DEFINE r == RequestOf[s.message]
           id == FriendId(FriendOf(s.message))
           hash == Hash[FriendOf(s.message)[2]]
           accounts == Accounts(users)
           friends == Service!Friends(r)
<1>1. r.id = id /\ r.hash = hash
  BY RequestFields
<1>2. friends = {b \in DOMAIN accounts : accounts[b].id = id /\ accounts[b].password = hash}
  BY <1>1 DEF Service!Friends
<1>3. FriendKnown(s, users) <=> id \in DOMAIN users /\ users[id].password = hash
  BY DEF FriendKnown
<1>4. /\ \A i \in DOMAIN users : /\ users[i].ip \in DOMAIN accounts
                                 /\ accounts[users[i].ip] = AccountOf(users, i)
      /\ \A b \in DOMAIN accounts : \E i \in DOMAIN users : accounts[b] = AccountOf(users, i)
  BY OneRow, AccountFacts
<1>5. \A i : /\ AccountOf(users, i).id = i /\ AccountOf(users, i).password = users[i].password
             /\ AccountOf(users, i).coordinates = users[i].coordinates
  BY DEF AccountOf
<1> HIDE DEF r, id, hash, accounts, friends
<1>6. FriendKnown(s, users) => users[id].ip \in friends
  BY <1>2, <1>3, <1>4, <1>5
<1>7. ASSUME NEW b \in friends
      PROVE  FriendKnown(s, users) /\ accounts[b].coordinates = users[id].coordinates
  <2>1. b \in DOMAIN accounts /\ accounts[b].id = id /\ accounts[b].password = hash
    BY <1>2
  <2>2. PICK i \in DOMAIN users : accounts[b] = AccountOf(users, i)
    BY <1>4, <2>1
  <2>3. i = id
    BY <1>5, <2>1, <2>2
  <2>4. QED
    BY <1>3, <1>5, <2>1, <2>2, <2>3
<1>8. QED
  BY <1>6, <1>7 DEF r, id, accounts, friends

\* A truthful reply of a handler that could ask SQLite is a right one.
LEMMA ReplyIsRight ==
  ASSUME IInv, NoSQLFaults, NEW s, s.message \in Received, s.reply \in Replies,
         Truthful(s, users), s.connected, ReplyFits(s.reply.kind, s.message),
         s.reply.kind # "credentials"
  PROVE  s.reply \in Service!RightReplies(RequestOf[s.message])
<1> DEFINE r == RequestOf[s.message]
           id == FriendId(FriendOf(s.message))
           kind == s.reply.kind
           friends == Service!Friends(r)
           accounts == Accounts(users)
<1>1. r.command = Header(s.message)
  BY RequestFields
<1>2. /\ FriendKnown(s, users) <=> friends # {}
      /\ \A b \in friends : accounts[b].coordinates = users[id].coordinates
  BY FriendsFacts
<1>3. /\ kind \in {"ok", "err 2", "coordinates"} => FriendKnown(s, users)
      /\ kind \in {"wrong", "err 1"} => ~FriendKnown(s, users)
      /\ kind = "err 2" => users[id].coordinates = NULL
      /\ kind = "coordinates" => users[id].coordinates = s.reply.coordinates
  BY DEF Truthful
<1>4. \/ kind \in {"ok", "wrong"} /\ r.command = "/check"
      \/ kind \in {"err 1", "err 2", "coordinates"} /\ r.command # "/check"
  BY <1>1 DEF ReplyFits
<1>5. /\ kind \in {"ok", "wrong", "err 1", "err 2"} => s.reply = [kind |-> kind]
      /\ kind = "coordinates" =>
           /\ s.reply = [kind |-> "coordinates", coordinates |-> s.reply.coordinates]
           /\ s.reply.coordinates # NULL
  <2>1. CASE s.reply \in [kind : {"none", "ok", "wrong", "err 1", "err 2"}]
    BY <2>1
  <2>2. CASE s.reply \in [kind : {"credentials"}, id : Nat, pass : Passwords]
    BY <2>2
  <2>3. CASE s.reply \in [kind : {"coordinates"}, coordinates : Coordinates]
    BY <2>3, SessionAssumption DEF Coordinates
  <2>4. QED
    BY <2>1, <2>2, <2>3 DEF Replies
<1> DEFINE told(b) == IF accounts[b].coordinates = NULL
                      THEN Service!Reply("err 2")
                      ELSE [kind |-> "coordinates", coordinates |-> accounts[b].coordinates]
           right == IF r.command = "/check"
                    THEN {IF friends = {} THEN Service!Reply("wrong") ELSE Service!Reply("ok")}
                    ELSE IF friends = {} THEN {Service!Reply("err 1")}
                    ELSE {told(b) : b \in friends}
<1>6. Service!RightReplies(r) = right
  BY DEF Service!RightReplies
<1>7. \A k : Service!Reply(k) = [kind |-> k]
  BY DEF Service!Reply
<1> SUFFICES s.reply \in right
  BY <1>6
<1> HIDE DEF r, id, friends, accounts
<1>8. CASE kind \in {"ok", "wrong"}
  BY <1>2, <1>3, <1>4, <1>5, <1>7, <1>8
<1>9. CASE kind = "err 1"
  BY <1>2, <1>3, <1>4, <1>5, <1>7, <1>9
<1>10. CASE kind \in {"err 2", "coordinates"}
  <2>1. PICK b : b \in friends
    BY <1>2, <1>3, <1>10
  <2>2. told(b) = s.reply
    BY <1>2, <1>3, <1>5, <1>7, <1>10, <2>1
  <2>3. QED
    BY <1>4, <1>10, <2>1, <2>2
<1>11. QED
  BY <1>4, <1>8, <1>9, <1>10

\* A session of /get, /check or /store_and_get that goes on to sendToUser.
LEMMA AnswerService ==
  ASSUME IInv, RequestInv, NoSQLFaults, NEW c \in Sessions,
         session[c].phase \in {"find", "fetch"}, users' = users,
         NEW reply \in Service!RightReplies(RequestOf[session[c].message]),
         Service!Answers(c, reply)
  PROVE  Service!Answer(c)
<1> DEFINE old == session[c]
           m == old.message
           r == RequestOf[m]
<1>1. /\ m \in Received /\ Header(m) \in {"/get", "/check", "/store_and_get"}
      /\ CheckFriendFormat(FriendOf(m))
  BY WaitingFacts DEF HandlerSteps, RequestOK, RequestFits
<1>2. /\ r.command = Header(m) /\ r.valid
      /\ r.coordinates # NULL <=> CheckCoordinatesFormat(CoordinatesOf(m))
  BY <1>1, RequestFields
<1>3. ClientOf(old) = [state |-> IF HasStored(old) THEN "stored" ELSE "asked",
                       address |-> old.ip, request |-> r, reply |-> NoReply]
  BY ClientFacts
<1>4. HasStored(old) <=> Header(m) = "/store_and_get" /\ CheckCoordinatesFormat(CoordinatesOf(m))
  BY <1>1, StoredFacts
<1>5. ClientsOf(session)[c] = ClientOf(old)
  BY DEF ClientsOf
<1> HIDE DEF r, m, old
<1>6. /\ ClientsOf(session)[c].request = r
      /\ ClientsOf(session)[c].state \in {"asked", "stored"}
      /\ (r.command = "/store_and_get" /\ r.coordinates # NULL)
           => ClientsOf(session)[c].state = "stored"
  BY <1>2, <1>3, <1>4, <1>5
<1>7. \E answer \in Service!RightReplies(ClientsOf(session)[c].request) : Service!Answers(c, answer)
  <2>1. reply \in Service!RightReplies(r)
    BY DEF r, m, old
  <2>2. QED
    BY <1>6, <2>1
<1>8. r.valid /\ r.command \in {"/get", "/check", "/store_and_get"}
  BY <1>1, <1>2
<1>9. UNCHANGED Accounts(users)
  OBVIOUS
<1>10. QED
  BY <1>6, <1>7, <1>8, <1>9 DEF Service!Answer

\* The read that settles the reply is the moment a request is answered.
LEMMA FriendService ==
  ASSUME IInv, RequestInv, IInv', RequestInv', NoSQLFaults, NEW c \in Sessions,
         FindFriend(c) \/ FetchCoordinates(c)
  PROVE  [Service!Next]_ServiceVars
<1> DEFINE m == session[c].message
<1>0. session[c] \in SessionType /\ session \in [Sessions -> SessionType]
  BY OneSession
<1>1. session[c].phase \in {"find", "fetch"} /\ users' = users
  BY DEF FindFriend, FetchCoordinates
<1>2. ASSUME NEW d, NEW reply, session' = Answered(c, d, reply),
             reply = NoReply \/ reply.kind # "credentials"
      PROVE  [Service!Next]_ServiceVars
  <2> DEFINE s == [session[c] EXCEPT !.phase = "reply", !.database = d, !.reply = reply]
  <2>1. CASE reply = NoReply
    BY <1>1, <1>2, <2>1, LeaveStep DEF Answered, Service!Next
  <2>2. CASE reply # NoReply
    <3>1. /\ s.phase = "reply" /\ s.reply = reply /\ s.ip = session[c].ip
          /\ s.message = session[c].message /\ session' = [session EXCEPT ![c] = s]
      BY <1>0, <1>2, <2>2 DEF Answered, SessionType
    <3> HIDE DEF s
    <3>2. session'[c] = s
      BY <1>0, <3>1
    <3>3. s \in SessionType /\ SessionOK(s, users, created') /\ RequestOK(s, users)
      BY <1>1, <3>2 DEF IInv, TypeOK, RequestInv
    <3>4. s.reply \in Replies /\ Truthful(s, users) /\ s.connected /\ ReplyFits(s.reply.kind, s.message)
      BY <3>1, <3>3 DEF SessionType, SessionOK, HandlerKnows, RequestOK, RequestFits, FileIsOpen, NoSQLFaults
    <3>5. s.message \in Received /\ s.reply.kind # "credentials"
      BY <1>1, <1>2, <2>2, <3>1, WaitingFacts DEF HandlerSteps
    <3>6. reply \in Service!RightReplies(RequestOf[session[c].message])
      BY <3>1, <3>4, <3>5, ReplyIsRight
    <3>7. Service!Answers(c, reply)
      <4>1. session[c].phase \in HandlerSteps /\ session[c].phase # "reply"
        BY <1>1 DEF HandlerSteps
      <4>2. QED
        BY <3>1, <4>1, AnswersStep
    <3>8. Service!Answer(c)
      BY <1>1, <3>6, <3>7, AnswerService
    <3>9. QED
      BY <3>8 DEF Service!Next
  <2>3. QED
    BY <2>1, <2>2
<1>3. CASE FindFriend(c)
  <2>1. PICK d : session' = IF ~d.failed /\ FriendReply(m, d) = NoReply
                            THEN [session EXCEPT ![c].phase = "fetch", ![c].database = d]
                            ELSE Answered(c, d, FriendReply(m, d))
    BY <1>3 DEF FindFriend
  <2> DEFINE s == [session[c] EXCEPT !.phase = "fetch", !.database = d]
  <2>2. CASE ~d.failed /\ FriendReply(m, d) = NoReply
    <3>1. /\ s.phase = "fetch" /\ s.ip = session[c].ip /\ s.message = m
          /\ session' = [session EXCEPT ![c] = s]
      BY <1>0, <2>1, <2>2 DEF SessionType
    <3>2. m \in Received
      BY <1>1, WaitingFacts DEF HandlerSteps
    <3> HIDE DEF s
    <3>3. HasStored(s) <=> HasStored(session[c])
      BY <1>1, <3>1, <3>2, StoredFacts
    <3>4. ClientOf(s) = ClientOf(session[c])
      BY <1>1, <3>1, <3>3, ClientFacts
    <3>5. QED
      BY <1>1, <3>1, <3>4, NoServiceStep
  <2>3. CASE session' = Answered(c, d, FriendReply(m, d))
    <3>1. FriendReply(m, d) = NoReply \/ FriendReply(m, d).kind # "credentials"
      BY ReplyKinds
    <3>2. QED
      BY <1>2, <2>3, <3>1
  <2>4. QED
    BY <2>1, <2>2, <2>3
<1>4. CASE FetchCoordinates(c)
  <2>1. PICK d : session' = Answered(c, d, CoordinatesReply(d))
    BY <1>4 DEF FetchCoordinates
  <2>2. CoordinatesReply(d) = NoReply \/ CoordinatesReply(d).kind # "credentials"
    BY ReplyKinds
  <2>3. QED
    BY <1>2, <2>1, <2>2
<1>5. QED
  BY <1>3, <1>4

\* Every step of a handler maps to a step of the service or a stutter.
LEMMA HandlerService ==
  ASSUME IInv, RequestInv, IInv', RequestInv', NoSQLFaults, NEW c \in Sessions, HandlerStep(c)
  PROVE  [Service!Next]_ServiceVars
<1>1. CASE InitUser(c)
  BY <1>1, OpenService DEF InitUser
<1>2. CASE StoreCoordinates(c)
  BY <1>2, OpenService DEF StoreCoordinates
<1>3. CASE OpenForFriend(c)
  BY <1>3, OpenService DEF OpenForFriend
<1>4. CASE SelectUser(c) \/ ReselectUser(c)
  BY <1>4, SelectService
<1>5. CASE InsertUser(c)
  BY <1>5, InsertService
<1>6. CASE SetPassword(c)
  BY <1>6, SetPasswordService
<1>7. CASE UpdateCoordinates(c)
  BY <1>7, UpdateService
<1>8. CASE FindFriend(c) \/ FetchCoordinates(c)
  BY <1>8, FriendService
<1>9. CASE SendToUser(c)
  BY <1>9, LeaveStep DEF SendToUser, Service!Next
<1>10. QED
  BY <1>1, <1>2, <1>3, <1>4, <1>5, <1>6, <1>7, <1>8, <1>9 DEF HandlerStep

\* No client can tell whether a server accepts.
LEMMA AcceptService ==
  ASSUME IInv, NEW a \in Servers, Accepting(a)
  PROVE  UNCHANGED ServiceVars
<1>0. session \in [Sessions -> SessionType]
  BY OneSession DEF IInv, TypeOK
<1>1. CASE AcceptCompletes(a)
  <2>1. PICK c \in Sessions, ip \in IPs : session[c].phase = "free" /\ session' = Connected(c, ip)
    BY <1>1 DEF AcceptCompletes
  <2> DEFINE s == [session[c] EXCEPT !.phase = "accepted", !.ip = ip, !.alive = TRUE]
  <2>2. s.phase = "accepted" /\ session' = [session EXCEPT ![c] = s]
    BY <1>0, <2>1 DEF Connected, SessionType
  <2> HIDE DEF s
  <2>3. ClientOf(s) = ClientOf(session[c])
    BY <2>1, <2>2, ClientFacts DEF HandlerSteps
  <2>4. users' = users
    BY <1>1 DEF AcceptCompletes
  <2>5. QED
    BY <2>2, <2>3, <2>4, NoServiceStep
<1>2. CASE session' = session /\ users' = users
  BY <1>2 DEF ServiceVars
<1>3. CASE HandleAccept(a) /\ acceptor[a].state = "accepted"
  <2>1. PICK c \in Sessions : c = acceptor[a].next
    BY <1>3 DEF IInv, AcceptedOnce
  <2>2. session[c].phase = "accepted" /\ session' = Goto(c, "reading") /\ users' = users
    BY <1>3, <2>1 DEF IInv, AcceptedOnce, HandleAccept, Started
  <2> DEFINE s == [session[c] EXCEPT !.phase = "reading"]
  <2>3. s.phase = "reading" /\ session' = [session EXCEPT ![c] = s]
    BY <1>0, <2>2 DEF Goto, SessionType
  <2> HIDE DEF s
  <2>4. ClientOf(s) = ClientOf(session[c])
    BY <2>2, <2>3, ClientFacts DEF HandlerSteps
  <2>5. QED
    BY <2>2, <2>3, <2>4, NoServiceStep
<1>4. QED
  BY <1>1, <1>2, <1>3 DEF Accepting, AcceptFails, HandleAccept

\* So does every step of the program.
LEMMA NextService ==
  ASSUME IInv, RequestInv, IInv', RequestInv', NoSQLFaults, [Next]_vars
  PROVE  [Service!Next]_ServiceVars
<1>0. main # "serving" => session = NoSessions
  BY DEF IInv, NothingOutlivesStart
<1>1. CASE Launch \/ InitServerDb \/ Start
  <2>1. session' = session /\ users' = users
    BY <1>1 DEF Launch, InitServerDb, Start
  <2>2. QED
    BY <2>1 DEF ServiceVars
<1>2. CASE Crash \/ \E c \in Sessions : Throw(c)
  <2>1. session' = NoSessions /\ users' = users
    BY <1>2 DEF Crash, Throw
  <2>2. QED
    BY <2>1, RestartStep DEF Service!Next
<1>3. CASE \E a \in Servers : Accepting(a)
  BY <1>3, AcceptService
<1>4. CASE \E c \in Sessions : Handling(c)
  BY <1>4, SocketService, ReceiveService, HandlerService DEF Handling
<1>5. CASE UNCHANGED vars
  BY <1>5 DEF vars, ServiceVars
<1>6. QED
  BY <1>1, <1>2, <1>3, <1>4, <1>5 DEF Next

\* For any number of clients, servers and addresses, and through any resets,
\* restarts and crashes, a server whose SQLite does not fail answers each
\* request as if it had acted on the accounts at single moments.
THEOREM Implementation ==
  ASSUME NoSQLFaults PROVE Spec => ImplementsService
<1>1. IInv /\ IInv' /\ RequestInv /\ RequestInv' /\ [Next]_vars => [Service!Next]_ServiceVars
  BY NextService
<1>2. QED
  BY <1>1, ServiceInit, Invariance, RequestsAreFollowed, PTL
  DEF Spec, ImplementsService, Service!Spec, ServiceVars
=============================================================================
