---------------------------- MODULE MarkMeProofs ----------------------------
(***************************************************************************)
(* Theorems about MarkMe for every value of its constants.                 *)
(***************************************************************************)
EXTENDS MarkMe, TLAPS

-----------------------------------------------------------------------------
\* Facts about the operators of SQLDatabase and Users

\* A cell keeps its column and leaves the other one without an entry.
LEMMA CellFacts ==
  ASSUME NEW v
  PROVE  /\ Cell("id", v) = [id |-> v, coordinates |-> NoEntry]
         /\ Cell("coordinates", v) = [id |-> NoEntry, coordinates |-> v]
BY DEF Cell

\* A SELECT either delivers one of the matching rows, or leaves the results as
\* they were: because it was not run, ended in an error, or matched nothing.
LEMMA QueriedFacts ==
  ASSUME NEW database, NEW outcome \in {"skipped", "done", "failed"},
         NEW column, NEW answer,
         NEW d \in Queried(database, outcome, column, answer)
  PROVE  /\ d = [results |-> d.results, failed |-> FailedAfter(database, outcome)]
         /\ \/ /\ d.results = database.results
               /\ outcome = "done" => DOMAIN answer = {}
            \/ /\ outcome # "skipped"
               /\ \E i \in DOMAIN answer : d.results = Cell(column, answer[i])
<1> DEFINE ids == DOMAIN answer
           prefixes == CASE outcome = "skipped" -> {{}}
                         [] outcome = "done" -> {ids}
                         [] outcome = "failed" -> {{}} \cup {{j \in ids : j <= i} : i \in ids}
<1>1. PICK p \in prefixes :
        \E r \in Callback(database.results, column, answer, p) :
          d = [results |-> r, failed |-> FailedAfter(database, outcome)]
  BY DEF Queried
<1>2. /\ d.results \in Callback(database.results, column, answer, p)
      /\ d = [results |-> d.results, failed |-> FailedAfter(database, outcome)]
  BY <1>1
<1>3. p \subseteq ids /\ (outcome = "skipped" => p = {}) /\ (outcome = "done" => p = ids)
  <2>1. CASE outcome = "skipped"
    BY <2>1
  <2>2. CASE outcome = "done"
    BY <2>2
  <2>3. CASE outcome = "failed"
    BY <2>3
  <2>4. QED
    BY <2>1, <2>2, <2>3
<1>4. CASE p = {}
  BY <1>1, <1>2, <1>3, <1>4 DEF Callback
<1>5. CASE p # {}
  BY <1>1, <1>2, <1>3, <1>5 DEF Callback, LastOf
<1>6. QED
  BY <1>4, <1>5

LEMMA OutcomesFacts ==
  ASSUME NEW connected, NEW succeeds, NEW fails,
         NEW o \in Outcomes(connected, succeeds, fails)
  PROVE  /\ o \in {"skipped", "done", "failed"}
         /\ o = "skipped" <=> ~connected
         /\ o = "done" => succeeds
         /\ o = "failed" => fails
BY DEF Outcomes

\* The statements that write keep the table a table, remove no row and change
\* no row's ip.
LEMMA TableFacts ==
  ASSUME NEW table \in Seq(Rows(IPs, Hashes, Coordinates)), NEW ip \in IPs
  PROVE  /\ Inserted(table, ip) \in Seq(Rows(IPs, Hashes, Coordinates))
         /\ DOMAIN Inserted(table, ip) = DOMAIN table \cup {Len(table) + 1}
         /\ \A i \in DOMAIN table : Inserted(table, ip)[i] = table[i]
         /\ Inserted(table, ip)[Len(table) + 1].ip = ip
<1> DEFINE row == [ip |-> ip, password |-> NULL, coordinates |-> NULL]
<1>1. row \in Rows(IPs, Hashes, Coordinates)
  BY DEF Rows
<1>2. QED
  BY <1>1 DEF Inserted


LEMMA PasswordFacts ==
  ASSUME NEW table \in Seq(Rows(IPs, Hashes, Coordinates)), NEW id, NEW hash \in Hashes
  PROVE  /\ WithPassword(table, id, hash) \in Seq(Rows(IPs, Hashes, Coordinates))
         /\ DOMAIN WithPassword(table, id, hash) = DOMAIN table
         /\ \A i \in DOMAIN table :
              /\ WithPassword(table, id, hash)[i].ip = table[i].ip
              /\ i # id => WithPassword(table, id, hash)[i] = table[i]
              /\ i = id => WithPassword(table, id, hash)[i].password = hash
<1> DEFINE S == Rows(IPs, Hashes, Coordinates)
           new == WithPassword(table, id, hash)
<1>1. DOMAIN table = 1..Len(table) /\ Len(table) \in Nat /\ \A i \in DOMAIN table : table[i] \in S
  OBVIOUS
<1>2. \A i \in DOMAIN table : [table[i] EXCEPT !.password = hash] \in S
  BY <1>1 DEF Rows
<1>3. \A i \in DOMAIN table :
        new[i] = IF i = id THEN [table[i] EXCEPT !.password = hash] ELSE table[i]
  BY DEF WithPassword
<1>4. new \in [1..Len(table) -> S]
  BY <1>1, <1>2 DEF WithPassword
<1>5. new \in Seq(S)
  BY <1>1, <1>4
<1>6. \A i \in DOMAIN table : [table[i] EXCEPT !.password = hash].password = hash
                              /\ [table[i] EXCEPT !.password = hash].ip = table[i].ip
  BY <1>1 DEF Rows
<1>7. QED
  BY <1>1, <1>3, <1>4, <1>5, <1>6

LEMMA CoordinatesFacts ==
  ASSUME NEW table \in Seq(Rows(IPs, Hashes, Coordinates)), NEW ip,
         NEW coordinates \in Coordinates
  PROVE  /\ WithCoordinates(table, ip, coordinates) \in Seq(Rows(IPs, Hashes, Coordinates))
         /\ DOMAIN WithCoordinates(table, ip, coordinates) = DOMAIN table
         /\ \A i \in DOMAIN table :
              /\ WithCoordinates(table, ip, coordinates)[i].ip = table[i].ip
              /\ table[i].ip # ip => WithCoordinates(table, ip, coordinates)[i] = table[i]
<1> DEFINE S == Rows(IPs, Hashes, Coordinates)
           new == WithCoordinates(table, ip, coordinates)
<1>1. DOMAIN table = 1..Len(table) /\ Len(table) \in Nat /\ \A i \in DOMAIN table : table[i] \in S
  OBVIOUS
<1>2. \A i \in DOMAIN table : [table[i] EXCEPT !.coordinates = coordinates] \in S
  BY <1>1 DEF Rows
<1>3. \A i \in DOMAIN table :
        new[i] = IF table[i].ip = ip THEN [table[i] EXCEPT !.coordinates = coordinates]
                                     ELSE table[i]
  BY DEF WithCoordinates
<1>4. new \in [1..Len(table) -> S]
  BY <1>1, <1>2 DEF WithCoordinates
<1>5. new \in Seq(S)
  BY <1>1, <1>4
<1>6. \A i \in DOMAIN table : [table[i] EXCEPT !.coordinates = coordinates].ip = table[i].ip
  BY <1>1 DEF Rows
<1>7. QED
  BY <1>1, <1>3, <1>4, <1>5, <1>6

LEMMA SegmentsFacts ==
  ASSUME NEW m \in Messages, NEW got \in Segments(m)
  PROVE  got \in Seq(Tokens)
<1>1. m \in Seq(Tokens) /\ Cut \in [Tokens -> SUBSET Tokens]
  BY RequestsAssumption
<1>2. \A k \in DOMAIN m : SubSeq(m, 1, k) \in Seq(Tokens) /\ SubSeq(m, 1, k - 1) \in Seq(Tokens)
  BY <1>1
<1>3. CASE got \in {SubSeq(m, 1, k) : k \in DOMAIN m}
  BY <1>2, <1>3
<1>4. CASE \E k \in DOMAIN m : \E t \in Cut[m[k]] : got = Append(SubSeq(m, 1, k - 1), t)
  BY <1>1, <1>2, <1>4
<1>5. QED
  BY <1>3, <1>4 DEF Segments
-----------------------------------------------------------------------------
\* Steps that change one session

\* A session that is not being handled knows nothing of the table.
LEMMA QuietFacts ==
  ASSUME NEW s, NEW t1, NEW t2, NEW made, ~Running(s), SessionOK(s, t1, made)
  PROVE  SessionOK(s, t2, made)
BY DEF Running, SessionOK, HandlerKnows, HandlerSteps

\* A step of one session that leaves it with what it should know keeps the
\* invariant, if it writes the table only while the thread is in its handler.
LEMMA SessionStep ==
  ASSUME IInv, NEW c \in Sessions, NEW s \in SessionType,
         session' = [session EXCEPT ![c] = s],
         UNCHANGED <<created, acceptor, main>>,
         users' = users \/ (Running(session[c]) /\ users' \in Seq(Rows(IPs, Hashes, Coordinates))),
         UniqueIp',
         session[c].phase # "free",
         session[c].phase = "accepted" => s.phase = "accepted",
         Running(s) => Running(session[c]) \/ Idle,
         SessionOK(s, users', created)
  PROVE  IInv'
<1>1. /\ session'[c] = s
      /\ \A d \in Sessions \ {c} : session'[d] = session[d]
  BY DEF IInv, TypeOK
<1>2. TypeOK'
  BY <1>1 DEF IInv, TypeOK
<1>3. OneHandler'
  BY <1>1 DEF IInv, OneHandler, Idle, Running
<1>4. AcceptedOnce'
  BY <1>1 DEF IInv, AcceptedOnce
<1>5. NothingOutlivesStart'
  BY DEF IInv, NothingOutlivesStart, NoSessions, FreshSession
<1>6. ASSUME NEW d \in Sessions
      PROVE  SessionOK(session'[d], users', created')
  <2>1. CASE d = c
    BY <1>1, <2>1
  <2>2. CASE d # c /\ users' = users
    BY <1>1, <2>2 DEF IInv
  <2>3. CASE d # c /\ Running(session[c])
    <3>1. ~Running(session[d]) /\ SessionOK(session[d], users, created)
      BY <2>3 DEF IInv, OneHandler
    <3>2. QED
      BY <1>1, <2>3, <3>1, QuietFacts
  <2>4. QED
    BY <2>1, <2>2, <2>3
<1>7. QED
  BY <1>2, <1>3, <1>4, <1>5, <1>6 DEF IInv
-----------------------------------------------------------------------------
\* The socket and the dispatch of a request

LEMMA FreshFacts == FreshSession \in SessionType /\ ~Running(FreshSession)
  /\ \A table, made : SessionOK(FreshSession, table, made)
<1>1. FreshSession \in SessionType
  <2>1. NoReply \in Replies
    BY DEF NoReply, Reply, Replies
  <2>2. NewDatabase \in [results : Results, failed : BOOLEAN]
    BY DEF NewDatabase, NoResults, Results
  <2>3. <<>> \in Seq(Tokens)
    OBVIOUS
  <2>4. QED
    BY <2>1, <2>2, <2>3 DEF FreshSession, SessionType, Phases
<1>2. QED
  BY <1>1 DEF FreshSession, SessionOK, HandlerKnows, Running, HandlerSteps, NewDatabase

\* Destroying a session keeps the invariant.
LEMMA DestroyStep ==
  ASSUME IInv, NEW c \in Sessions, session' = Destroyed(c),
         UNCHANGED <<created, acceptor, main>>,
         users' = users \/ (Running(session[c]) /\ users' \in Seq(Rows(IPs, Hashes, Coordinates))),
         UniqueIp',
         session[c].phase \notin {"free", "accepted"}
  PROVE  IInv'
BY SessionStep, FreshFacts DEF Destroyed

\* While a session is not free, start() is running.
LEMMA ServingFacts ==
  ASSUME IInv, NEW c \in Sessions, session[c].phase # "free"
  PROVE  main = "serving"
BY DEF IInv, NothingOutlivesStart, NoSessions, FreshSession

LEMMA SocketPreserves ==
  ASSUME IInv, NEW c \in Sessions, SocketEvent(c), UNCHANGED <<acceptor, main>>
  PROVE  IInv'
<1> USE DEF SessionType, Phases
<1>0. /\ session[c] \in SessionType /\ session \in [Sessions -> SessionType]
      /\ SessionOK(session[c], users, created) /\ UniqueIp
  BY DEF IInv, TypeOK
<1>1. CASE DataArrives(c)
  <2>1. PICK m \in Messages : \E got \in Segments(m) :
          session' = [session EXCEPT ![c].phase = "received", ![c].sent = m, ![c].message = got]
    BY <1>1 DEF DataArrives
  <2>7. PICK got \in Segments(m) :
          session' = [session EXCEPT ![c].phase = "received", ![c].sent = m, ![c].message = got]
    BY <2>1
  <2> DEFINE s == [session[c] EXCEPT !.phase = "received", !.sent = m, !.message = got]
  <2>2. s \in SessionType
    BY <1>0, SegmentsFacts
  <2>3. SessionOK(s, users, created)
    BY <1>0, <1>1 DEF DataArrives, SessionOK, HandlerKnows
  <2>4. session' = [session EXCEPT ![c] = s] /\ UNCHANGED <<users, created>> /\ UniqueIp'
    BY <1>0, <1>1, <2>7 DEF DataArrives, UniqueIp
  <2>5. ~Running(s) /\ session[c].phase = "reading"
    BY <1>0, <1>1 DEF DataArrives, Running, HandlerSteps
  <2> HIDE DEF s
  <2>6. QED
    BY <2>2, <2>3, <2>4, <2>5, SessionStep
<1>2. CASE Reset(c)
  <2> DEFINE s == [session[c] EXCEPT !.alive = FALSE]
  <2>1. s \in SessionType /\ s.phase = session[c].phase
    BY <1>0
  <2>2. session[c].phase # "free"
    BY <1>0, <1>2 DEF Reset, SessionOK, FreshSession
  <2>3. session' = [session EXCEPT ![c] = s] /\ UNCHANGED <<users, created>> /\ UniqueIp'
    BY <1>0, <1>2 DEF Reset, UniqueIp
  <2>4. SessionOK(s, users, created)
    <3>1. /\ s.ip = session[c].ip /\ s.message = session[c].message
          /\ s.connected = session[c].connected /\ s.database = session[c].database
          /\ s.reply = session[c].reply
      BY <1>0
    <3> HIDE DEF s
    <3>2. QED
      BY <1>0, <2>1, <2>2, <3>1 DEF SessionOK, HandlerKnows, Truthful, FriendKnown
  <2> HIDE DEF s
  <2>5. QED
    BY <2>1, <2>2, <2>3, <2>4, SessionStep DEF Running
<1>3. CASE ReadFails(c)
  <2> DEFINE s == [session[c] EXCEPT !.phase = "read_error"]
  <2>1. s \in SessionType
    BY <1>0
  <2>2. SessionOK(s, users, created)
    BY <1>0, <1>3 DEF ReadFails, SessionOK, HandlerKnows
  <2>3. session' = [session EXCEPT ![c] = s] /\ UNCHANGED <<users, created>> /\ UniqueIp'
    BY <1>0, <1>3 DEF ReadFails, Goto, UniqueIp
  <2>4. ~Running(s) /\ session[c].phase = "reading"
    BY <1>0, <1>3 DEF ReadFails, Running, HandlerSteps
  <2> HIDE DEF s
  <2>5. QED
    BY <2>1, <2>2, <2>3, <2>4, SessionStep
<1>4. QED
  BY <1>1, <1>2, <1>3 DEF SocketEvent

\* The first step of a handler is one of three, and only coordinates of the
\* right format are stored.
LEMMA FirstStepFacts ==
  ASSUME NEW m
  PROVE  /\ FirstStep(m) \in {"init", "store", "friend", "free"}
         /\ StepAfterStore(m) \in {"friend", "free"}
         /\ FirstStep(m) = "store" => CheckCoordinatesFormat(CoordinatesOf(m))
BY DEF FirstStep, StepAfterStore, FriendStep

LEMMA ReceivePreserves ==
  ASSUME IInv, NEW c \in Sessions, ReceiveDataHandle(c), UNCHANGED <<acceptor, main>>
  PROVE  IInv'
<1>0. /\ session[c] \in SessionType /\ session \in [Sessions -> SessionType]
      /\ SessionOK(session[c], users, created) /\ UniqueIp
  BY DEF IInv, TypeOK
<1>1. UNCHANGED <<users, created>> /\ UniqueIp' /\ Idle
  BY <1>0 DEF ReceiveDataHandle, UniqueIp
<1>2. session[c].phase \in {"read_error", "received"}
  BY DEF ReceiveDataHandle
<1> DEFINE step == FirstStep(session[c].message)
           s == [session[c] EXCEPT !.phase = step]
<1>3. CASE session' = Destroyed(c)
  BY <1>1, <1>2, <1>3, DestroyStep
<1>4. CASE session[c].phase = "received" /\ session' = Goto(c, step)
  <2>1. s \in SessionType
    BY <1>0, FirstStepFacts DEF SessionType, Phases, HandlerSteps
  <2>2. /\ session' = [session EXCEPT ![c] = s]
        /\ s.phase = step /\ s.ip = session[c].ip
        /\ s.message = session[c].message /\ s.database = session[c].database
    BY <1>0, <1>4 DEF Goto, SessionType
  <2> HIDE DEF s
  <2>3. CASE step = "free"
    BY <1>1, <1>4, <2>3, DestroyStep DEF ReceiveDataHandle, Continue
  <2>4. CASE step # "free"
    <3>1. SessionOK(s, users, created)
      BY <1>0, <1>4, <2>2, <2>4, FirstStepFacts DEF SessionOK, HandlerKnows
    <3>2. QED
      BY <1>1, <1>4, <2>1, <2>2, <3>1, SessionStep
  <2>5. QED
    BY <2>3, <2>4
<1>5. QED
  BY <1>3, <1>4 DEF ReceiveDataHandle, Continue
-----------------------------------------------------------------------------
\* The steps of a handler.  A step that leaves the session in its handler and
\* writes nothing:

LEMMA ReadingStep ==
  ASSUME IInv, NEW c \in Sessions, NEW s \in SessionType,
         session' = [session EXCEPT ![c] = s],
         UNCHANGED <<users, created, acceptor, main>>,
         Running(session[c]), SessionOK(s, users, created)
  PROVE  IInv'
<1>1. session[c].phase \notin {"free", "accepted"}
  BY DEF Running, HandlerSteps
<1>2. UniqueIp'
  BY DEF IInv, UniqueIp
<1>3. QED
  BY <1>1, <1>2, SessionStep

LEMMA OpenPreserves ==
  ASSUME IInv, NEW c \in Sessions, UNCHANGED <<acceptor, main>>,
         NEW from, NEW to,
         <<from, to>> \in {<<"init", "select">>, <<"store", "update">>, <<"friend", "find">>},
         OpenConnection(c, from, to)
  PROVE  IInv'
<1>0. /\ session[c] \in SessionType /\ session \in [Sessions -> SessionType]
      /\ SessionOK(session[c], users, created)
  BY DEF IInv, TypeOK
<1>1. PICK ok \in OpenOutcomes :
        session' = [session EXCEPT ![c].phase = to, ![c].connected = ok]
  BY DEF OpenConnection
<1>2. ok \in BOOLEAN
  BY DEF OpenOutcomes
<1> DEFINE s == [session[c] EXCEPT !.phase = to, !.connected = ok]
<1>3. s \in SessionType
  BY <1>0, <1>2 DEF SessionType, Phases, HandlerSteps
<1>4. /\ session' = [session EXCEPT ![c] = s]
      /\ s.phase = to /\ s.ip = session[c].ip
      /\ s.message = session[c].message /\ s.database = session[c].database
  BY <1>0, <1>1 DEF SessionType
<1> HIDE DEF s
<1>5. SessionOK(s, users, created)
  BY <1>0, <1>4 DEF OpenConnection, SessionOK, HandlerKnows
<1>6. Running(session[c]) /\ UNCHANGED <<users, created>>
  BY DEF OpenConnection, Running, HandlerSteps
<1>7. QED
  BY <1>3, <1>4, <1>5, <1>6, ReadingStep

LEMMA SendPreserves ==
  ASSUME IInv, NEW c \in Sessions, SendToUser(c), UNCHANGED <<acceptor, main>>
  PROVE  IInv'
<1>1. UniqueIp'
  BY DEF IInv, UniqueIp, SendToUser
<1>2. QED
  BY <1>1, DestroyStep DEF SendToUser

\* What a SELECT of a handler leaves in the session's SQLDatabase.
LEMMA SelectFacts ==
  ASSUME NEW c \in Sessions, NEW column, NEW answer, NEW d \in Select(c, column, answer),
         session[c].database.failed \in BOOLEAN
  PROVE  /\ d = [results |-> d.results, failed |-> d.failed] /\ d.failed \in BOOLEAN
         /\ session[c].connected /\ d.failed => ~created \/ "sql" \in Faults
         /\ \/ /\ d.results = session[c].database.results
               /\ session[c].connected /\ ~d.failed => DOMAIN answer = {}
            \/ /\ session[c].connected
               /\ \E i \in DOMAIN answer : d.results = Cell(column, answer[i])
<1>1. PICK o \in StatementOutcomes(c) : d \in Queried(session[c].database, o, column, answer)
  BY DEF Select
<1>2. /\ o \in {"skipped", "done", "failed"}
      /\ o = "skipped" <=> ~session[c].connected
      /\ o = "failed" => ~created \/ "sql" \in Faults
  BY <1>1, OutcomesFacts DEF StatementOutcomes
<1>3. /\ d = [results |-> d.results, failed |-> FailedAfter(session[c].database, o)]
      /\ \/ /\ d.results = session[c].database.results
            /\ o = "done" => DOMAIN answer = {}
         \/ /\ o # "skipped"
            /\ \E i \in DOMAIN answer : d.results = Cell(column, answer[i])
  BY <1>1, <1>2, QueriedFacts
<1>4. d.failed = IF o = "skipped" THEN session[c].database.failed ELSE o = "failed"
  BY <1>3 DEF FailedAfter
<1>5. d.failed \in BOOLEAN
  BY <1>4
<1>6. QED
  BY <1>2, <1>3, <1>4, <1>5

\* The SELECT of initUser: a row of the client's own address, or nothing and,
\* unless it failed or was not run, no such row.
LEMMA OwnRowFacts ==
  ASSUME NEW c \in Sessions, session[c] \in SessionType, session[c].database.results = NoResults,
         users \in Seq(Rows(IPs, Hashes, Coordinates)),
         NEW d \in Select(c, "id", [i \in IdsWithIp(users, session[c].ip) |-> i])
  PROVE  /\ d \in [results : Results, failed : BOOLEAN]
         /\ session[c].connected /\ d.failed => ~created \/ "sql" \in Faults
         /\ \/ /\ d.results = NoResults
               /\ session[c].connected /\ ~d.failed =>
                    \A i \in DOMAIN users : users[i].ip # session[c].ip
            \/ /\ session[c].connected
               /\ d.results # NoResults /\ d.results.id # NULL
               /\ d.results.id \in DOMAIN users
               /\ users[d.results.id].ip = session[c].ip
<1> DEFINE ids == IdsWithIp(users, session[c].ip)
           answer == [i \in ids |-> i]
<1>1. /\ d = [results |-> d.results, failed |-> d.failed] /\ d.failed \in BOOLEAN
      /\ session[c].connected /\ d.failed => ~created \/ "sql" \in Faults
      /\ \/ /\ d.results = NoResults
            /\ session[c].connected /\ ~d.failed => DOMAIN answer = {}
         \/ /\ session[c].connected
            /\ \E i \in DOMAIN answer : d.results = Cell("id", answer[i])
  <2>1. session[c].database.failed \in BOOLEAN
    BY DEF SessionType
  <2> HIDE DEF answer
  <2>2. QED
    BY <2>1, SelectFacts DEF answer
<1>2. DOMAIN answer = ids /\ \A i \in ids : answer[i] = i
  OBVIOUS
<1>3. ids \subseteq DOMAIN users /\ \A i \in ids : users[i].ip = session[c].ip
  BY DEF IdsWithIp
<1>4. DOMAIN users \subseteq Nat
  OBVIOUS
<1>5. CASE d.results = NoResults /\ (session[c].connected /\ ~d.failed => DOMAIN answer = {})
  <2>1. d \in [results : Results, failed : BOOLEAN]
    BY <1>1, <1>5 DEF Results, NoResults
  <2>2. QED
    BY <1>1, <1>2, <1>5, <2>1 DEF IdsWithIp
<1>6. CASE session[c].connected /\ \E i \in DOMAIN answer : d.results = Cell("id", answer[i])
  <2>1. PICK i \in ids : d.results = Cell("id", i)
    BY <1>2, <1>6
  <2>2. d.results = [id |-> i, coordinates |-> NoEntry] /\ i \in Nat
    BY <1>3, <1>4, <2>1, CellFacts
  <2>3. d.results \in Results /\ d.results # NoResults /\ d.results.id = i /\ i # NULL
    <3>1. i # NULL /\ i # NoEntry
      BY <2>2, SessionAssumption
    <3>2. d.results.id = i /\ NoResults.id = NoEntry
      BY <2>2 DEF NoResults
    <3>3. d.results \in Results
      BY <2>2 DEF Results
    <3>4. QED
      BY <3>1, <3>2, <3>3
  <2>4. d \in [results : Results, failed : BOOLEAN]
    BY <1>1, <2>3
  <2>5. QED
    BY <1>1, <1>3, <1>6, <2>1, <2>3, <2>4
<1>7. QED
  BY <1>1, <1>5, <1>6
-----------------------------------------------------------------------------
\* Session::initUser

LEMMA SelectPreserves ==
  ASSUME IInv, NEW c \in Sessions, SelectUser(c), UNCHANGED <<acceptor, main>>
  PROVE  IInv'
<1>0. /\ session[c] \in SessionType /\ session \in [Sessions -> SessionType]
      /\ SessionOK(session[c], users, created)
      /\ users \in Seq(Rows(IPs, Hashes, Coordinates))
  BY DEF IInv, TypeOK
<1>1. session[c].phase = "select" /\ session[c].database.results = NoResults
      /\ session[c].ip \in IPs
  BY <1>0 DEF SelectUser, SessionOK
<1>2. PICK d \in Select(c, "id", [i \in IdsWithIp(users, session[c].ip) |-> i]) :
        session' = [session EXCEPT
          ![c].phase = IF d.results = NoResults \/ d.results.id = NULL
                       THEN "insert" ELSE "set_password",
          ![c].database = d]
  BY DEF SelectUser
<1> DEFINE step == IF d.results = NoResults \/ d.results.id = NULL
                   THEN "insert" ELSE "set_password"
           s == [session[c] EXCEPT !.phase = step, !.database = d]
<1>3. /\ d \in [results : Results, failed : BOOLEAN]
      /\ session[c].connected /\ d.failed => ~created \/ "sql" \in Faults
      /\ \/ /\ d.results = NoResults
            /\ session[c].connected /\ ~d.failed =>
                 \A i \in DOMAIN users : users[i].ip # session[c].ip
         \/ /\ session[c].connected
            /\ d.results # NoResults /\ d.results.id # NULL
            /\ d.results.id \in DOMAIN users
            /\ users[d.results.id].ip = session[c].ip
  BY <1>0, <1>1, OwnRowFacts
<1>4. s \in SessionType
  BY <1>0, <1>3 DEF SessionType, Phases, HandlerSteps
<1>5. /\ session' = [session EXCEPT ![c] = s]
      /\ s.phase = step /\ s.ip = session[c].ip
      /\ s.connected = session[c].connected /\ s.database = d
  BY <1>0, <1>2 DEF SessionType
<1> HIDE DEF s
<1>6. SessionOK(s, users, created)
  BY <1>1, <1>3, <1>5 DEF SessionOK, HandlerKnows
<1>7. Running(session[c]) /\ UNCHANGED <<users, created>>
  BY DEF SelectUser, Running, HandlerSteps
<1>8. QED
  BY <1>4, <1>5, <1>6, <1>7, ReadingStep

LEMMA InsertPreserves ==
  ASSUME IInv, NEW c \in Sessions, InsertUser(c), UNCHANGED <<acceptor, main>>
  PROVE  IInv'
<1> DEFINE S == Rows(IPs, Hashes, Coordinates)
<1>0. /\ session[c] \in SessionType /\ session \in [Sessions -> SessionType]
      /\ SessionOK(session[c], users, created)
      /\ users \in Seq(S)
      /\ UniqueIp
  BY DEF IInv, TypeOK
<1>1. session[c].phase = "insert" /\ session[c].database.results = NoResults
      /\ session[c].ip \in IPs /\ UNCHANGED created
  BY <1>0 DEF InsertUser, SessionOK
<1>2. PICK o \in Outcomes(session[c].connected, created /\ ~(Len(users) >= MaxUsers),
                          ~created \/ Len(users) >= MaxUsers \/ "sql" \in Faults) :
        /\ users' = IF o = "done" THEN Inserted(users, session[c].ip) ELSE users
        /\ session' = [session EXCEPT ![c].phase = "reselect",
                         ![c].database = Written(session[c].database, o)]
  BY DEF InsertUser
<1>3. o = "done" => created /\ session[c].connected
  BY <1>2, OutcomesFacts
<1> DEFINE d == Written(session[c].database, o)
           s == [session[c] EXCEPT !.phase = "reselect", !.database = d]
<1>4. d \in [results : Results, failed : BOOLEAN] /\ d.results = NoResults
  BY <1>0, <1>1 DEF Written, FailedAfter, SessionType
<1>5. /\ s \in SessionType
      /\ session' = [session EXCEPT ![c] = s]
      /\ s.phase = "reselect" /\ s.ip = session[c].ip /\ s.database = d
  BY <1>0, <1>2, <1>4 DEF SessionType, Phases, HandlerSteps
<1> HIDE DEF s, d
<1>6. SessionOK(s, users', created)
  BY <1>1, <1>4, <1>5 DEF SessionOK, HandlerKnows
<1>7. users' \in Seq(S)
  BY <1>0, <1>1, <1>2, TableFacts
<1>8. UniqueIp'
  <2>1. CASE o = "done" /\ "sql" \notin Faults
    <3>1. \A i \in DOMAIN users : users[i].ip # session[c].ip
      BY <1>0, <1>1, <1>3, <2>1 DEF SessionOK, HandlerKnows
    <3> DEFINE n == Len(users) + 1
    <3>2. /\ DOMAIN users' = DOMAIN users \cup {n}
          /\ \A i \in DOMAIN users : users'[i] = users[i]
          /\ users'[n].ip = session[c].ip
      BY <1>0, <1>1, <1>2, <2>1, TableFacts
    <3> HIDE DEF n
    <3>3. QED
      BY <1>0, <3>1, <3>2 DEF UniqueIp
  <2>2. CASE o # "done" \/ "sql" \in Faults
    BY <1>0, <1>2, <2>2 DEF UniqueIp
  <2>3. QED
    BY <2>1, <2>2
<1>9. Running(session[c]) /\ session[c].phase \notin {"free", "accepted"}
  BY <1>1 DEF Running, HandlerSteps
<1>10. QED
  BY <1>1, <1>5, <1>6, <1>7, <1>8, <1>9, SessionStep

LEMMA ReselectPreserves ==
  ASSUME IInv, NEW c \in Sessions, ReselectUser(c), UNCHANGED <<acceptor, main>>
  PROVE  IInv'
<1>0. /\ session[c] \in SessionType /\ session \in [Sessions -> SessionType]
      /\ SessionOK(session[c], users, created)
      /\ users \in Seq(Rows(IPs, Hashes, Coordinates))
      /\ UniqueIp
  BY DEF IInv, TypeOK
<1>1. session[c].phase = "reselect" /\ session[c].database.results = NoResults
      /\ session[c].ip \in IPs /\ UNCHANGED <<users, created>>
  BY <1>0 DEF ReselectUser, SessionOK
<1>2. PICK d \in Select(c, "id", [i \in IdsWithIp(users, session[c].ip) |-> i]) :
        session' = IF d.results = NoResults
                   THEN Destroyed(c)
                   ELSE [session EXCEPT ![c].phase = "set_password", ![c].database = d]
  BY DEF ReselectUser
<1> DEFINE s == [session[c] EXCEPT !.phase = "set_password", !.database = d]
<1>3. /\ d \in [results : Results, failed : BOOLEAN]
      /\ \/ d.results = NoResults
         \/ /\ session[c].connected
            /\ d.results.id \in DOMAIN users
            /\ users[d.results.id].ip = session[c].ip
  BY <1>0, <1>1, OwnRowFacts
<1>4. CASE d.results = NoResults
  <2>1. UniqueIp'
    BY <1>0, <1>1 DEF UniqueIp
  <2>2. QED
    BY <1>1, <1>2, <1>4, <2>1, DestroyStep
<1>5. CASE d.results # NoResults
  <2>1. /\ s \in SessionType
        /\ session' = [session EXCEPT ![c] = s]
        /\ s.phase = "set_password" /\ s.ip = session[c].ip
        /\ s.connected = session[c].connected /\ s.database = d
    BY <1>0, <1>2, <1>3, <1>5 DEF SessionType, Phases, HandlerSteps
  <2> HIDE DEF s
  <2>2. SessionOK(s, users, created)
    BY <1>1, <1>3, <1>5, <2>1 DEF SessionOK, HandlerKnows
  <2>3. Running(session[c])
    BY <1>1 DEF Running, HandlerSteps
  <2>4. QED
    BY <1>1, <2>1, <2>2, <2>3, ReadingStep
<1>6. QED
  BY <1>4, <1>5

LEMMA SetPasswordPreserves ==
  ASSUME IInv, NEW c \in Sessions, SetPassword(c), UNCHANGED <<acceptor, main>>
  PROVE  IInv'
<1> DEFINE S == Rows(IPs, Hashes, Coordinates)
           id == session[c].database.results.id
<1>0. /\ session[c] \in SessionType /\ session \in [Sessions -> SessionType]
      /\ SessionOK(session[c], users, created)
      /\ users \in Seq(S)
      /\ UniqueIp
  BY DEF IInv, TypeOK
<1>1. /\ session[c].phase = "set_password" /\ session[c].connected
      /\ session[c].ip \in IPs /\ UNCHANGED created
      /\ id \in DOMAIN users /\ users[id].ip = session[c].ip
  BY <1>0 DEF SetPassword, SessionOK, HandlerKnows
<1>2. PICK pass \in Passwords : \E o \in StatementOutcomes(c) :
        LET d == Written(session[c].database, o)
        IN  /\ users' = IF o = "done" THEN WithPassword(users, id, Hash[pass]) ELSE users
            /\ session' = Answered(c, d, IF d.failed THEN NoReply
                                    ELSE [kind |-> "credentials", id |-> id, pass |-> pass])
  BY DEF SetPassword
<1>3. PICK o \in StatementOutcomes(c) :
        LET d == Written(session[c].database, o)
        IN  /\ users' = IF o = "done" THEN WithPassword(users, id, Hash[pass]) ELSE users
            /\ session' = Answered(c, d, IF d.failed THEN NoReply
                                    ELSE [kind |-> "credentials", id |-> id, pass |-> pass])
  BY <1>2
<1> DEFINE d == Written(session[c].database, o)
           reply == [kind |-> "credentials", id |-> id, pass |-> pass]
           s == [session[c] EXCEPT !.phase = "reply", !.database = d, !.reply = reply]
<1>4. o \in {"done", "failed"}
  BY <1>1, OutcomesFacts DEF StatementOutcomes
<1>5. /\ d \in [results : Results, failed : BOOLEAN]
      /\ d.failed <=> o = "failed"
  BY <1>0, <1>4 DEF Written, FailedAfter, SessionType
<1>6. Hash[pass] \in Hashes
  BY SessionAssumption, RequestsAssumption
<1>7. users' \in Seq(S) /\ UniqueIp'
  <2>1. CASE o = "done"
    <3>1. /\ users' \in Seq(S) /\ DOMAIN users' = DOMAIN users
          /\ \A i \in DOMAIN users : users'[i].ip = users[i].ip
      BY <1>0, <1>3, <1>6, <2>1, PasswordFacts
    <3>2. QED
      BY <1>0, <3>1 DEF UniqueIp
  <2>2. CASE o # "done"
    BY <1>0, <1>3, <2>2 DEF UniqueIp
  <2>3. QED
    BY <2>1, <2>2
<1>8. Running(session[c]) /\ session[c].phase \notin {"free", "accepted"}
  BY <1>1 DEF Running, HandlerSteps
<1>9. CASE o = "failed"
  <2>1. session' = Destroyed(c)
    BY <1>3, <1>5, <1>9 DEF Answered
  <2>2. QED
    BY <1>1, <1>7, <1>8, <2>1, DestroyStep
<1>10. CASE o = "done"
  <2>1. reply \in Replies /\ reply # NoReply
    <3>1. id \in Nat
      BY <1>0, <1>1
    <3>2. reply \in Replies
      BY <3>1 DEF Replies
    <3>3. reply.kind # NoReply.kind
      BY DEF NoReply, Reply
    <3>4. QED
      BY <3>2, <3>3
  <2>2. session' = [session EXCEPT ![c].phase = "reply", ![c].database = d, ![c].reply = reply]
    BY <1>3, <1>4, <1>5, <1>10, <2>1 DEF Answered
  <2>3. /\ s \in SessionType
        /\ session' = [session EXCEPT ![c] = s]
        /\ s.phase = "reply" /\ s.ip = session[c].ip /\ s.reply = reply
    BY <1>0, <1>5, <2>1, <2>2 DEF SessionType, Phases, HandlerSteps
  <2>4. /\ reply.kind = "credentials" /\ reply.id = id /\ reply.pass = pass
    OBVIOUS
  <2>5. /\ id \in DOMAIN users' /\ users'[id].ip = session[c].ip
        /\ users'[id].password = Hash[pass]
    BY <1>0, <1>1, <1>3, <1>6, <1>10, PasswordFacts
  <2> HIDE DEF s, reply, id
  <2>6. SessionOK(s, users', created)
    BY <1>1, <2>3, <2>4, <2>5 DEF SessionOK, HandlerKnows, Truthful
  <2>7. QED
    BY <1>1, <1>7, <1>8, <2>3, <2>6, SessionStep
<1>11. QED
  BY <1>4, <1>9, <1>10
-----------------------------------------------------------------------------
\* Session::storeCoordinates

\* What has the format of coordinates is a pair of numbers.
LEMMA FormatFacts ==
  ASSUME NEW m, CheckCoordinatesFormat(CoordinatesOf(m))
  PROVE  CoordinatesOf(m) \in Coordinates
BY DEF CheckCoordinatesFormat, CoordinatesOf, Coordinates

LEMMA UpdatePreserves ==
  ASSUME IInv, NEW c \in Sessions, UpdateCoordinates(c), UNCHANGED <<acceptor, main>>
  PROVE  IInv'
<1> DEFINE S == Rows(IPs, Hashes, Coordinates)
           m == session[c].message
           step == StepAfterStore(m)
<1>0. /\ session[c] \in SessionType /\ session \in [Sessions -> SessionType]
      /\ SessionOK(session[c], users, created)
      /\ users \in Seq(S)
      /\ UniqueIp
  BY DEF IInv, TypeOK
<1>1. /\ session[c].phase = "update" /\ session[c].database.results = NoResults
      /\ session[c].ip \in IPs /\ UNCHANGED created
      /\ CoordinatesOf(m) \in Coordinates
  BY <1>0, FormatFacts DEF UpdateCoordinates, SessionOK, HandlerKnows
<1>2. PICK o \in StatementOutcomes(c) :
        /\ users' = IF o = "done"
                    THEN WithCoordinates(users, session[c].ip, CoordinatesOf(m)) ELSE users
        /\ session' = IF step = "free"
                      THEN Destroyed(c)
                      ELSE [session EXCEPT ![c].phase = step, ![c].connected = FALSE,
                              ![c].database = Written(session[c].database, o)]
  BY DEF UpdateCoordinates
<1> DEFINE d == Written(session[c].database, o)
           s == [session[c] EXCEPT !.phase = step, !.connected = FALSE, !.database = d]
<1>3. d \in [results : Results, failed : BOOLEAN] /\ d.results = NoResults
  BY <1>0, <1>1 DEF Written, FailedAfter, SessionType
<1>4. users' \in Seq(S) /\ UniqueIp'
  <2>1. CASE o = "done"
    <3>1. /\ users' \in Seq(S) /\ DOMAIN users' = DOMAIN users
          /\ \A i \in DOMAIN users : users'[i].ip = users[i].ip
      BY <1>0, <1>1, <1>2, <2>1, CoordinatesFacts
    <3>2. QED
      BY <1>0, <3>1 DEF UniqueIp
  <2>2. CASE o # "done"
    BY <1>0, <1>2, <2>2 DEF UniqueIp
  <2>3. QED
    BY <2>1, <2>2
<1>5. Running(session[c]) /\ session[c].phase \notin {"free", "accepted"}
  BY <1>1 DEF Running, HandlerSteps
<1>6. CASE step = "free"
  BY <1>1, <1>2, <1>4, <1>5, <1>6, DestroyStep
<1>7. CASE step = "friend"
  <2>1. /\ s \in SessionType
        /\ session' = [session EXCEPT ![c] = s]
        /\ s.phase = "friend" /\ s.ip = session[c].ip /\ s.database = d
    BY <1>0, <1>2, <1>3, <1>7 DEF SessionType, Phases, HandlerSteps
  <2> HIDE DEF s, d
  <2>2. SessionOK(s, users', created)
    BY <1>1, <1>3, <2>1 DEF SessionOK, HandlerKnows
  <2>3. QED
    BY <1>1, <1>4, <1>5, <2>1, <2>2, SessionStep
<1>8. QED
  BY <1>6, <1>7, FirstStepFacts
-----------------------------------------------------------------------------
\* Session::getFriendCoordinates and Session::checkFriendIdAndPassword

\* Sending a truthful reply, or nothing, keeps the invariant.
LEMMA AnswerStep ==
  ASSUME IInv, NEW c \in Sessions, Running(session[c]),
         UNCHANGED <<users, created, acceptor, main>>,
         NEW d \in [results : Results, failed : BOOLEAN], NEW reply \in Replies,
         session' = Answered(c, d, reply),
         Truthful([session[c] EXCEPT !.phase = "reply", !.database = d, !.reply = reply], users)
  PROVE  IInv'
<1> DEFINE s == [session[c] EXCEPT !.phase = "reply", !.database = d, !.reply = reply]
<1>0. /\ session[c] \in SessionType /\ session \in [Sessions -> SessionType]
      /\ SessionOK(session[c], users, created) /\ UniqueIp
  BY DEF IInv, TypeOK
<1>1. session[c].phase \notin {"free", "accepted"} /\ UniqueIp' /\ session[c].ip \in IPs
  BY <1>0 DEF Running, HandlerSteps, UniqueIp, SessionOK
<1>2. CASE reply = NoReply
  BY <1>1, <1>2, DestroyStep DEF Answered
<1>3. CASE reply # NoReply
  <2>1. /\ s \in SessionType
        /\ session' = [session EXCEPT ![c] = s]
        /\ s.phase = "reply" /\ s.ip = session[c].ip
    BY <1>0, <1>3 DEF Answered, SessionType, Phases, HandlerSteps
  <2>2. Truthful(s, users)
    OBVIOUS
  <2> HIDE DEF s
  <2>3. SessionOK(s, users, created)
    BY <1>1, <2>1, <2>2 DEF SessionOK, HandlerKnows
  <2>4. QED
    BY <2>1, <2>3, ReadingStep
<1>4. QED
  BY <1>2, <1>3

LEMMA FindPreserves ==
  ASSUME IInv, NEW c \in Sessions, FindFriend(c), UNCHANGED <<acceptor, main>>
  PROVE  IInv'
<1> DEFINE m == session[c].message
           friend == FriendOf(m)
           ids == IdsOfFriend(users, FriendId(friend), Hash[friend[2]])
           answer == [i \in ids |-> i]
<1>0. /\ session[c] \in SessionType /\ session \in [Sessions -> SessionType]
      /\ SessionOK(session[c], users, created)
      /\ users \in Seq(Rows(IPs, Hashes, Coordinates))
  BY DEF IInv, TypeOK
<1>1. /\ session[c].phase = "find" /\ session[c].database.results = NoResults
      /\ session[c].ip \in IPs /\ UNCHANGED <<users, created>>
      /\ session[c].database.failed \in BOOLEAN
  BY <1>0 DEF FindFriend, SessionOK, SessionType
<1>2. PICK d \in Select(c, "id", answer) :
        LET reply == FriendReply(m, d)
        IN  session' = IF ~d.failed /\ reply = NoReply
                       THEN [session EXCEPT ![c].phase = "fetch", ![c].database = d]
                       ELSE Answered(c, d, reply)
  BY DEF FindFriend
<1>3. /\ d = [results |-> d.results, failed |-> d.failed] /\ d.failed \in BOOLEAN
      /\ \/ /\ d.results = NoResults
            /\ session[c].connected /\ ~d.failed => DOMAIN answer = {}
         \/ /\ session[c].connected
            /\ \E i \in DOMAIN answer : d.results = Cell("id", answer[i])
  <2> HIDE DEF answer
  <2>1. QED
    BY <1>1, <1>2, SelectFacts
<1>4. /\ ids \subseteq Nat
      /\ ids # {} <=> FriendKnown(session[c], users)
      /\ DOMAIN answer = ids /\ \A i \in ids : answer[i] = i
  BY <1>0 DEF IdsOfFriend, FriendKnown
<1>5. \/ /\ d.results = NoResults
         /\ session[c].connected /\ ~d.failed => ~FriendKnown(session[c], users)
      \/ /\ session[c].connected /\ FriendKnown(session[c], users)
         /\ \E i \in Nat : d.results = [id |-> i, coordinates |-> NoEntry]
  BY <1>3, <1>4, CellFacts
<1>6. NULL \notin Nat /\ NoEntry \notin Nat /\ NoResults.id = NoEntry
  BY SessionAssumption DEF NoResults
<1>7. d.results \in Results
  <2>1. NoResults \in Results
    BY DEF Results, NoResults
  <2>2. \A i \in Nat : [id |-> i, coordinates |-> NoEntry] \in Results
    BY DEF Results
  <2>3. QED
    BY <1>5, <2>1, <2>2
<1>8. d \in [results : Results, failed : BOOLEAN]
  BY <1>3, <1>7
<1>9. Running(session[c])
  BY <1>1 DEF Running, HandlerSteps
<1> DEFINE reply == FriendReply(m, d)
<1> DEFINE k == CASE d.failed -> "none"
                  [] ~d.failed /\ Header(m) = "/check" ->
                       IF d.results.id \in {NoEntry, NULL} THEN "wrong" ELSE "ok"
                  [] OTHER -> IF d.results = NoResults THEN "err 1" ELSE "none"
<1>10. reply = [kind |-> k] /\ reply.kind = k
  BY DEF FriendReply, NoReply, Reply
<1>11. /\ k \in {"none", "ok", "wrong", "err 1"}
       /\ k = "ok" => FriendKnown(session[c], users)
       /\ k \in {"wrong", "err 1"} =>
            ~FriendKnown(session[c], users) \/ ~session[c].connected
       /\ ~d.failed /\ k = "none" =>
            session[c].connected /\ FriendKnown(session[c], users)
  BY <1>3, <1>5, <1>6
<1>12. reply = NoReply <=> k = "none"
  <2>1. NoReply = [kind |-> "none"] /\ NoReply.kind = "none"
    BY DEF NoReply, Reply
  <2> HIDE DEF k, reply
  <2>2. QED
    BY <1>10, <2>1
<1> HIDE DEF k
<1> HIDE DEF reply
<1>13. CASE ~d.failed /\ reply = NoReply
  <2> DEFINE s == [session[c] EXCEPT !.phase = "fetch", !.database = d]
  <2>1. /\ s \in SessionType
        /\ session' = [session EXCEPT ![c] = s]
        /\ s.phase = "fetch" /\ s.ip = session[c].ip
        /\ s.connected = session[c].connected /\ s.message = session[c].message
    BY <1>0, <1>2, <1>8, <1>13 DEF SessionType, Phases, HandlerSteps, reply
  <2> HIDE DEF s
  <2>2. SessionOK(s, users, created)
    BY <1>1, <1>11, <1>13, <1>12, <2>1 DEF SessionOK, HandlerKnows, FriendKnown
  <2>3. QED
    BY <1>1, <1>9, <2>1, <2>2, ReadingStep
<1>14. CASE d.failed \/ reply # NoReply
  <2>1. session' = Answered(c, d, reply)
    BY <1>2, <1>14 DEF reply
  <2>2. reply \in Replies
    BY <1>11, <1>10 DEF Replies
  <2>3. Truthful([session[c] EXCEPT !.phase = "reply", !.database = d, !.reply = reply], users)
    <3> DEFINE s == [session[c] EXCEPT !.phase = "reply", !.database = d, !.reply = reply]
    <3>1. /\ s.message = m /\ s.connected = session[c].connected /\ s.reply = reply
      BY <1>0 DEF SessionType
    <3> HIDE DEF s
    <3>2. FriendKnown(s, users) <=> FriendKnown(session[c], users)
      BY <3>1 DEF FriendKnown
    <3>3. Truthful(s, users)
      BY <1>11, <1>10, <3>1, <3>2 DEF Truthful
    <3>4. QED
      BY <3>3 DEF s
  <2>4. QED
    BY <1>1, <1>8, <1>9, <2>1, <2>2, <2>3, AnswerStep
<1>15. QED
  BY <1>13, <1>14

LEMMA FetchPreserves ==
  ASSUME IInv, NEW c \in Sessions, FetchCoordinates(c), UNCHANGED <<acceptor, main>>
  PROVE  IInv'
<1> DEFINE id == FriendId(FriendOf(session[c].message))
           answer == [i \in {id} \cap DOMAIN users |-> users[i].coordinates]
<1>0. /\ session[c] \in SessionType /\ session \in [Sessions -> SessionType]
      /\ SessionOK(session[c], users, created)
      /\ users \in Seq(Rows(IPs, Hashes, Coordinates))
  BY DEF IInv, TypeOK
<1>1. /\ session[c].phase = "fetch" /\ UNCHANGED <<users, created>>
      /\ session[c].connected /\ FriendKnown(session[c], users)
      /\ session[c].database.failed \in BOOLEAN
      /\ session[c].database.results \in Results
  BY <1>0 DEF FetchCoordinates, SessionOK, HandlerKnows, SessionType
<1>2. id \in DOMAIN users /\ users[id].coordinates \in Coordinates \cup {NULL}
  <2>1. id \in DOMAIN users
    BY <1>1 DEF FriendKnown
  <2> HIDE DEF id
  <2>2. users[id] \in Rows(IPs, Hashes, Coordinates)
    BY <1>0, <2>1
  <2>3. QED
    BY <2>1, <2>2 DEF Rows
<1>3. PICK d \in Select(c, "coordinates", answer) :
        session' = Answered(c, d, CoordinatesReply(d))
  BY DEF FetchCoordinates
<1>4. DOMAIN answer = {id} /\ answer[id] = users[id].coordinates
  BY <1>2
<1>5. /\ d = [results |-> d.results, failed |-> d.failed] /\ d.failed \in BOOLEAN
      /\ \/ d.results = session[c].database.results /\ d.failed
         \/ d.results = [id |-> NoEntry, coordinates |-> users[id].coordinates]
  <2> HIDE DEF answer
  <2>1. /\ d = [results |-> d.results, failed |-> d.failed] /\ d.failed \in BOOLEAN
        /\ \/ /\ d.results = session[c].database.results
              /\ session[c].connected /\ ~d.failed => DOMAIN answer = {}
           \/ \E i \in DOMAIN answer : d.results = Cell("coordinates", answer[i])
    BY <1>1, <1>3, SelectFacts
  <2>2. QED
    BY <1>1, <1>4, <2>1, CellFacts
<1>6. d \in [results : Results, failed : BOOLEAN]
  <2>1. [id |-> NoEntry, coordinates |-> users[id].coordinates] \in Results
    BY <1>2 DEF Results
  <2>2. QED
    BY <1>1, <1>5, <2>1
<1>7. NoEntry # NULL /\ NoEntry \notin Coordinates /\ NULL \notin Coordinates
  BY SessionAssumption DEF Coordinates
<1> DEFINE reply == CoordinatesReply(d)
           s == [session[c] EXCEPT !.phase = "reply", !.database = d, !.reply = reply]
<1>8. \/ reply = [kind |-> "none"]
      \/ reply = [kind |-> "err 2"] /\ users[id].coordinates = NULL
      \/ /\ reply = [kind |-> "coordinates", coordinates |-> users[id].coordinates]
         /\ users[id].coordinates \in Coordinates
  <2>1. CASE d.failed
    BY <2>1 DEF CoordinatesReply, NoReply, Reply
  <2>2. CASE ~d.failed
    <3>1. d.results.coordinates = users[id].coordinates /\ NoResults.coordinates = NoEntry
      BY <1>5, <2>2 DEF NoResults
    <3>2. d.results # NoResults
      BY <1>2, <1>7, <3>1
    <3>3. CASE users[id].coordinates = NULL
      BY <2>2, <3>1, <3>3 DEF CoordinatesReply, Reply
    <3>4. CASE users[id].coordinates # NULL
      BY <1>2, <2>2, <3>1, <3>2, <3>4 DEF CoordinatesReply
    <3>5. QED
      BY <3>3, <3>4
  <2>3. QED
    BY <1>5, <2>1, <2>2
<1>9. reply \in Replies
  <2>1. \A k \in {"none", "err 2"} : [kind |-> k] \in Replies
    BY DEF Replies
  <2>2. \A at \in Coordinates : [kind |-> "coordinates", coordinates |-> at] \in Replies
    BY DEF Replies
  <2> HIDE DEF reply, id
  <2>3. QED
    BY <1>8, <2>1, <2>2
<1>10. Truthful(s, users)
  <2>1. s.message = session[c].message /\ s.reply = reply
    BY <1>0 DEF SessionType
  <2>2. FriendKnown(s, users) /\ FriendId(FriendOf(s.message)) = id
    BY <1>1, <2>1 DEF FriendKnown
  <2> HIDE DEF s, reply, id
  <2>3. CASE reply = [kind |-> "none"]
    BY <2>1, <2>3 DEF Truthful
  <2>4. CASE reply = [kind |-> "err 2"] /\ users[id].coordinates = NULL
    <3>1. s.reply = [kind |-> "err 2"]
      BY <2>1, <2>4
    <3>2. s.reply.kind = "err 2"
      <4>1. \A k : [kind |-> k].kind = k
        OBVIOUS
      <4>2. QED
        BY <3>1, <4>1
    <3>3. QED
      BY <2>2, <2>4, <3>2 DEF Truthful
  <2>5. CASE reply = [kind |-> "coordinates", coordinates |-> users[id].coordinates]
    BY <2>1, <2>2, <2>5 DEF Truthful
  <2>6. QED
    BY <1>8, <2>3, <2>4, <2>5
<1>11. Running(session[c]) /\ session' = Answered(c, d, reply)
  BY <1>1, <1>3 DEF Running, HandlerSteps
<1> HIDE DEF reply
<1>12. QED
  BY <1>1, <1>6, <1>9, <1>10, <1>11, AnswerStep

LEMMA HandlerPreserves ==
  ASSUME IInv, NEW c \in Sessions, HandlerStep(c), UNCHANGED <<acceptor, main>>
  PROVE  IInv'
BY OpenPreserves, SelectPreserves, InsertPreserves, ReselectPreserves, SetPasswordPreserves,
   UpdatePreserves, FindPreserves, FetchPreserves, SendPreserves
   DEF HandlerStep, InitUser, StoreCoordinates, OpenForFriend
-----------------------------------------------------------------------------
\* Server and main

LEMMA AcceptPreserves ==
  ASSUME IInv, NEW a \in Servers, AcceptCompletes(a), UNCHANGED main
  PROVE  IInv'
<1>0. /\ session \in [Sessions -> SessionType] /\ acceptor \in [Servers -> Acceptors]
      /\ UniqueIp /\ main = "serving" /\ UNCHANGED <<users, created>>
  BY DEF IInv, TypeOK, NothingOutlivesStart, AcceptCompletes, AllDown, Down
<1>1. PICK c \in Sessions : \E ip \in IPs :
        /\ session[c].phase = "free"
        /\ session' = Connected(c, ip)
        /\ acceptor' = [acceptor EXCEPT ![a] = [state |-> "accepted", next |-> c]]
  BY DEF AcceptCompletes
<1>2. PICK ip \in IPs :
        /\ session[c].phase = "free"
        /\ session' = Connected(c, ip)
        /\ acceptor' = [acceptor EXCEPT ![a] = [state |-> "accepted", next |-> c]]
  BY <1>1
<1> DEFINE s == [session[c] EXCEPT !.phase = "accepted", !.ip = ip, !.alive = TRUE]
<1>3. /\ s \in SessionType /\ s.phase = "accepted" /\ s.ip = ip
      /\ s.database = session[c].database
      /\ session' = [session EXCEPT ![c] = s]
  BY <1>0, <1>2 DEF Connected, SessionType, Phases
<1>4. SessionOK(session[c], users, created)
  BY DEF IInv
<1> HIDE DEF s
<1>5. SessionOK(s, users, created)
  BY <1>2, <1>3, <1>4 DEF SessionOK, HandlerKnows
<1>6. /\ session'[c] = s
      /\ \A d \in Sessions \ {c} : session'[d] = session[d]
      /\ acceptor'[a] = [state |-> "accepted", next |-> c]
      /\ \A b \in Servers \ {a} : acceptor'[b] = acceptor[b]
  BY <1>0, <1>2, <1>3
<1>7. TypeOK'
  BY <1>0, <1>2, <1>3 DEF IInv, TypeOK, Acceptors
<1>8. OneHandler' /\ UniqueIp' /\ NothingOutlivesStart'
  BY <1>0, <1>3, <1>6 DEF IInv, OneHandler, Running, HandlerSteps, UniqueIp, NothingOutlivesStart
<1>9. AcceptedOnce'
  BY <1>2, <1>3, <1>6 DEF IInv, AcceptedOnce
<1>10. \A d \in Sessions : SessionOK(session'[d], users', created')
  BY <1>0, <1>5, <1>6 DEF IInv
<1>11. QED
  BY <1>7, <1>8, <1>9, <1>10 DEF IInv

LEMMA AcceptFailsPreserves ==
  ASSUME IInv, NEW a \in Servers, AcceptFails(a), UNCHANGED main
  PROVE  IInv'
<1>0. /\ acceptor \in [Servers -> Acceptors] /\ main = "serving"
      /\ acceptor' = [acceptor EXCEPT ![a].state = "failed"]
      /\ UNCHANGED <<users, created, session>>
  BY DEF IInv, TypeOK, NothingOutlivesStart, AcceptFails, AllDown, Down
<1>1. TypeOK'
  BY <1>0 DEF IInv, TypeOK, Acceptors
<1>2. AcceptedOnce'
  BY <1>0 DEF IInv, AcceptedOnce
<1>3. OneHandler' /\ UniqueIp' /\ NothingOutlivesStart'
  BY <1>0 DEF IInv, OneHandler, UniqueIp, NothingOutlivesStart
<1>4. \A d \in Sessions : SessionOK(session'[d], users', created')
  BY <1>0 DEF IInv
<1>5. QED
  BY <1>1, <1>2, <1>3, <1>4 DEF IInv

LEMMA HandleAcceptPreserves ==
  ASSUME IInv, NEW a \in Servers, HandleAccept(a), UNCHANGED main
  PROVE  IInv'
<1>0. /\ session \in [Sessions -> SessionType] /\ acceptor \in [Servers -> Acceptors]
      /\ main = "serving" /\ UNCHANGED <<users, created>>
      /\ acceptor' = [acceptor EXCEPT ![a] = Listening]
  BY DEF IInv, TypeOK, NothingOutlivesStart, HandleAccept, AllDown, Down
<1>1. /\ acceptor' \in [Servers -> Acceptors]
      /\ acceptor'[a].state # "accepted"
      /\ \A b \in Servers \ {a} : acceptor'[b] = acceptor[b]
  BY <1>0 DEF Acceptors, Listening
<1>2. UniqueIp' /\ NothingOutlivesStart'
  BY <1>0 DEF IInv, UniqueIp, NothingOutlivesStart
<1>3. CASE acceptor[a].state = "accepted"
  <2> DEFINE c == acceptor[a].next
             s == [session[c] EXCEPT !.phase = "reading"]
  <2>1. c \in Sessions /\ session[c].phase = "accepted" /\ session' = Goto(c, "reading")
    BY <1>3 DEF IInv, AcceptedOnce, HandleAccept, Started
  <2>2. /\ s \in SessionType /\ s.phase = "reading" /\ s.ip = session[c].ip
        /\ s.database = session[c].database
        /\ session' = [session EXCEPT ![c] = s]
    <3>1. session[c] \in SessionType
      BY <1>0, <2>1
    <3>2. s \in SessionType /\ s.phase = "reading" /\ s.ip = session[c].ip
          /\ s.database = session[c].database
      BY <3>1 DEF SessionType, Phases
    <3>3. session' = [session EXCEPT ![c] = s]
      BY <1>0, <2>1 DEF Goto
    <3>4. QED
      BY <3>2, <3>3
  <2>3. SessionOK(session[c], users, created)
    BY <2>1 DEF IInv
  <2>4. \A b \in Servers \ {a} :
          acceptor[b].state = "accepted" =>
            acceptor[b].next \in Sessions /\ acceptor[b].next # c
    BY <1>3 DEF IInv, AcceptedOnce
  <2> HIDE DEF s, c
  <2>5. SessionOK(s, users, created)
    BY <2>1, <2>2, <2>3 DEF SessionOK, HandlerKnows
  <2>6. /\ session'[c] = s
        /\ \A d \in Sessions \ {c} : session'[d] = session[d]
    BY <1>0, <2>1, <2>2
  <2>7. TypeOK'
    BY <1>0, <1>1, <2>1, <2>2 DEF IInv, TypeOK
  <2>8. OneHandler'
    BY <2>2, <2>6 DEF IInv, OneHandler, Running, HandlerSteps
  <2>9. AcceptedOnce'
    BY <1>1, <2>4, <2>6 DEF IInv, AcceptedOnce
  <2>10. \A d \in Sessions : SessionOK(session'[d], users', created')
    BY <1>0, <2>5, <2>6 DEF IInv
  <2>11. QED
    BY <1>2, <2>7, <2>8, <2>9, <2>10 DEF IInv
<1>4. CASE acceptor[a].state # "accepted"
  <2>1. session' = session
    BY <1>4 DEF HandleAccept
  <2>2. TypeOK' /\ OneHandler'
    BY <1>0, <1>1, <2>1 DEF IInv, TypeOK, OneHandler
  <2>3. AcceptedOnce'
    BY <1>1, <2>1 DEF IInv, AcceptedOnce
  <2>4. \A d \in Sessions : SessionOK(session'[d], users', created')
    BY <1>0, <2>1 DEF IInv
  <2>5. QED
    BY <1>2, <2>2, <2>3, <2>4 DEF IInv
<1>5. QED
  BY <1>3, <1>4

\* Ending start(), and running before or outside it, leaves no session.
LEMMA NoSessionsFacts ==
  ASSUME NEW table, NEW made
  PROVE  /\ NoSessions \in [Sessions -> SessionType]
         /\ \A c \in Sessions : SessionOK(NoSessions[c], table, made) /\ ~Running(NoSessions[c])
         /\ AllDown \in [Servers -> Acceptors]
         /\ [a \in Servers |-> Listening] \in [Servers -> Acceptors]
<1>1. \A c \in Sessions : NoSessions[c] = FreshSession
  BY DEF NoSessions
<1>2. NoSessions \in [Sessions -> SessionType]
  BY FreshFacts DEF NoSessions
<1>3. AllDown \in [Servers -> Acceptors] /\ [a \in Servers |-> Listening] \in [Servers -> Acceptors]
  BY DEF AllDown, Down, Listening, Acceptors
<1>4. QED
  BY <1>1, <1>2, <1>3, FreshFacts

\* A step of main() that leaves no session keeps the invariant.
LEMMA NoSessionsStep ==
  ASSUME users \in Seq(Rows(IPs, Hashes, Coordinates)), UniqueIp,
         users' = users, created' \in BOOLEAN, session' = NoSessions, main' \in MainSteps,
         \/ acceptor' = AllDown
         \/ acceptor' = [a \in Servers |-> Listening] /\ main' = "serving"
  PROVE  IInv'
<1>1. TypeOK'
  BY NoSessionsFacts DEF TypeOK
<1>2. UniqueIp'
  BY DEF UniqueIp
<1>3. OneHandler' /\ \A c \in Sessions : SessionOK(session'[c], users', created')
  BY NoSessionsFacts DEF OneHandler
<1>4. AcceptedOnce'
  BY DEF AcceptedOnce, AllDown, Down, Listening
<1>5. NothingOutlivesStart'
  BY DEF NothingOutlivesStart
<1>6. QED
  BY <1>1, <1>2, <1>3, <1>4, <1>5 DEF IInv

LEMMA InitHolds == Init => IInv
<1> SUFFICES ASSUME Init PROVE IInv
  OBVIOUS
<1>1. users \in Seq(Rows(IPs, Hashes, Coordinates)) /\ DOMAIN users = {}
  BY DEF Init
<1>2. TypeOK /\ UniqueIp
  BY <1>1, NoSessionsFacts DEF Init, TypeOK, MainSteps, UniqueIp
<1>3. OneHandler /\ \A c \in Sessions : SessionOK(session[c], users, created)
  BY NoSessionsFacts DEF Init, OneHandler
<1>4. AcceptedOnce /\ NothingOutlivesStart
  BY DEF Init, AcceptedOnce, NothingOutlivesStart, AllDown, Down
<1>5. QED
  BY <1>2, <1>3, <1>4 DEF IInv

LEMMA NextPreserves == IInv /\ [Next]_vars => IInv'
<1> SUFFICES ASSUME IInv, [Next]_vars PROVE IInv'
  OBVIOUS
<1>0. /\ users \in Seq(Rows(IPs, Hashes, Coordinates)) /\ created \in BOOLEAN
      /\ UniqueIp /\ (main # "serving" => session = NoSessions /\ acceptor = AllDown)
  BY DEF IInv, TypeOK, NothingOutlivesStart
<1>1. CASE Launch
  BY <1>0, <1>1, NoSessionsStep DEF Launch, MainSteps
<1>2. CASE InitServerDb
  <2>1. created' \in BOOLEAN /\ main' \in MainSteps
    BY <1>0, <1>2 DEF InitServerDb, MainSteps
  <2>2. QED
    BY <1>0, <1>2, <2>1, NoSessionsStep DEF InitServerDb
<1>3. CASE Start
  BY <1>0, <1>3, NoSessionsStep DEF Start, MainSteps
<1>4. CASE Crash
  BY <1>0, <1>4, NoSessionsStep DEF Crash, MainSteps
<1>5. CASE \E c \in Sessions : Throw(c)
  BY <1>0, <1>5, NoSessionsStep DEF Throw, MainSteps
<1>6. CASE \E a \in Servers : Accepting(a) /\ UNCHANGED main
  BY <1>6, AcceptPreserves, AcceptFailsPreserves, HandleAcceptPreserves DEF Accepting
<1>7. CASE \E c \in Sessions : Handling(c) /\ UNCHANGED <<acceptor, main>>
  BY <1>7, SocketPreserves, ReceivePreserves, HandlerPreserves DEF Handling
<1>8. CASE UNCHANGED vars
  BY <1>8 DEF vars, IInv, TypeOK, UniqueIp, OneHandler, AcceptedOnce, NothingOutlivesStart
<1>9. QED
  BY <1>1, <1>2, <1>3, <1>4, <1>5, <1>6, <1>7, <1>8 DEF Next

\* The inductive invariant holds in every reachable state of the program.
THEOREM Invariance == Spec => []IInv
BY InitHolds, NextPreserves, PTL DEF Spec

\* Every variable keeps its type, whatever fails and whenever it fails.
THEOREM TypeCorrect == Spec => []TypeOK
<1>1. IInv => TypeOK
  BY DEF IInv
<1>2. QED
  BY <1>1, Invariance, PTL

\* Unless a statement of SQLite fails, initUser never gives an address a
\* second row, for any number of clients, addresses, crashes and restarts.
THEOREM OneRowPerAddress == Spec => []UniqueIp
<1>1. IInv => UniqueIp
  BY DEF IInv
<1>2. QED
  BY <1>1, Invariance, PTL

\* What sendToUser sends the table does not contradict, whatever fails, a refusal
\* excepted that was given because the file could not be opened.
THEOREM RepliesAreTrue == Spec => []TruthfulReply
<1>1. IInv => TruthfulReply
  <2> SUFFICES ASSUME IInv, NEW c \in Sessions, session[c].phase = "reply"
               PROVE  Truthful(session[c], users)
    BY DEF TruthfulReply
  <2>1. SessionOK(session[c], users, created)
    BY DEF IInv
  <2>2. QED
    BY <2>1 DEF SessionOK, HandlerKnows
<1>2. QED
  BY <1>1, Invariance, PTL

\* The three statements that write are the only steps that change the table.
LEMMA TableSteps ==
  ASSUME [Next]_vars, users' # users
  PROVE  \E c \in Sessions : InsertUser(c) \/ SetPassword(c) \/ UpdateCoordinates(c)
<1>1. CASE \E c \in Sessions : Handling(c)
  <2>1. PICK c \in Sessions : Handling(c)
    BY <1>1
  <2>2. ~SocketEvent(c) /\ ~ReceiveDataHandle(c)
    BY DEF SocketEvent, DataArrives, Reset, ReadFails, ReceiveDataHandle
  <2>3. HandlerStep(c)
    BY <2>1, <2>2 DEF Handling
  <2>4. /\ ~InitUser(c) /\ ~StoreCoordinates(c) /\ ~OpenForFriend(c)
        /\ ~SelectUser(c) /\ ~ReselectUser(c) /\ ~FindFriend(c)
        /\ ~FetchCoordinates(c) /\ ~SendToUser(c)
    BY DEF InitUser, StoreCoordinates, OpenForFriend, OpenConnection, SelectUser,
           ReselectUser, FindFriend, FetchCoordinates, SendToUser
  <2>5. QED
    BY <2>3, <2>4 DEF HandlerStep
<1>2. ~\E a \in Servers : Accepting(a)
  BY DEF Accepting, AcceptCompletes, AcceptFails, HandleAccept
<1>3. ~Launch /\ ~InitServerDb /\ ~Start /\ ~Crash /\ ~\E c \in Sessions : Throw(c)
  BY DEF Launch, InitServerDb, Start, Crash, Throw
<1>4. ~UNCHANGED vars
  BY DEF vars
<1>5. QED
  BY <1>1, <1>2, <1>3, <1>4 DEF Next

\* What a row holds changes only in an UPDATE of a client with the row's address.
THEOREM RowsAreTheirOwners == Spec => OnlyOwnerChangesRow
<1>1. IInv /\ [Next]_vars => [OwnerChangesRow]_vars
  <2> SUFFICES ASSUME IInv, [Next]_vars, users' # users PROVE OwnerChangesRow
    BY DEF OwnerChangesRow
  <2>0. users \in Seq(Rows(IPs, Hashes, Coordinates)) /\ session \in [Sessions -> SessionType]
    BY DEF IInv, TypeOK
  <2>1. PICK c \in Sessions : InsertUser(c) \/ SetPassword(c) \/ UpdateCoordinates(c)
    BY TableSteps
  <2>2. SessionOK(session[c], users, created)
    BY DEF IInv
  <2>3. CASE InsertUser(c)
    <3>1. users' = Inserted(users, session[c].ip) /\ session[c].ip \in IPs
      BY <2>2, <2>3 DEF InsertUser, SessionOK
    <3>2. \A i \in DOMAIN users : i \in DOMAIN users' /\ users'[i] = users[i]
      BY <2>0, <3>1, TableFacts
    <3>3. QED
      BY <3>2 DEF OwnerChangesRow
  <2>4. CASE SetPassword(c)
    <3> DEFINE id == session[c].database.results.id
    <3>1. session[c].phase = "set_password" /\ id \in DOMAIN users /\ users[id].ip = session[c].ip
      BY <2>2, <2>4 DEF SetPassword, SessionOK, HandlerKnows
    <3>2. PICK pass \in Passwords : users' = WithPassword(users, id, Hash[pass])
      BY <2>4 DEF SetPassword
    <3>3. Hash[pass] \in Hashes
      BY SessionAssumption, RequestsAssumption
    <3>4. /\ DOMAIN users' = DOMAIN users
          /\ \A i \in DOMAIN users : users'[i].ip = users[i].ip
          /\ \A i \in DOMAIN users : i # id => users'[i] = users[i]
      BY <2>0, <3>2, <3>3, PasswordFacts
    <3>5. QED
      BY <3>1, <3>4 DEF OwnerChangesRow
  <2>5. CASE UpdateCoordinates(c)
    <3> DEFINE m == session[c].message
    <3>1. session[c].phase = "update" /\ CoordinatesOf(m) \in Coordinates
      BY <2>2, <2>5, FormatFacts DEF UpdateCoordinates, SessionOK, HandlerKnows
    <3>2. users' = WithCoordinates(users, session[c].ip, CoordinatesOf(m))
      BY <2>5 DEF UpdateCoordinates
    <3>3. /\ DOMAIN users' = DOMAIN users
          /\ \A i \in DOMAIN users : users'[i].ip = users[i].ip
          /\ \A i \in DOMAIN users : users[i].ip # session[c].ip => users'[i] = users[i]
      BY <2>0, <3>1, <3>2, CoordinatesFacts
    <3>4. QED
      BY <3>1, <3>3 DEF OwnerChangesRow
  <2>6. QED
    BY <2>1, <2>3, <2>4, <2>5
<1>2. QED
  BY <1>1, Invariance, PTL DEF Spec, OnlyOwnerChangesRow

\* An address that has a row gets a second one only from an initUser whose
\* SELECT ended in an error.
THEOREM DuplicatesAreErrors == Spec => DuplicateOnlyAfterFailedSelect
<1>1. IInv /\ [Next]_vars => [DuplicateAfterFailedSelect]_vars
  <2> SUFFICES ASSUME IInv, [Next]_vars,
                      NEW i \in DOMAIN users' \ DOMAIN users, RowsOf(users'[i].ip) # {}
               PROVE  \E c \in Sessions : /\ session[c].phase = "insert"
                                          /\ session[c].ip = users'[i].ip
                                          /\ session[c].database.failed
    BY DEF DuplicateAfterFailedSelect
  <2>0. users \in Seq(Rows(IPs, Hashes, Coordinates)) /\ session \in [Sessions -> SessionType]
    BY DEF IInv, TypeOK
  <2>1. PICK c \in Sessions : InsertUser(c) \/ SetPassword(c) \/ UpdateCoordinates(c)
    BY TableSteps
  <2>2. SessionOK(session[c], users, created)
    BY DEF IInv
  <2>3. ~SetPassword(c) /\ ~UpdateCoordinates(c)
    BY DEF SetPassword, UpdateCoordinates, WithPassword, WithCoordinates
  <2>4. PICK o \in Outcomes(session[c].connected, created /\ ~(Len(users) >= MaxUsers),
                            ~created \/ Len(users) >= MaxUsers \/ "sql" \in Faults) :
          users' = IF o = "done" THEN Inserted(users, session[c].ip) ELSE users
    BY <2>1, <2>3 DEF InsertUser
  <2>5. users' = Inserted(users, session[c].ip) /\ session[c].connected
    BY <2>4, OutcomesFacts
  <2>6. session[c].phase = "insert" /\ session[c].ip \in IPs
    BY <2>1, <2>2, <2>3 DEF InsertUser, SessionOK
  <2>7. users'[i].ip = session[c].ip
    <3>1. i \in DOMAIN users' /\ i \notin DOMAIN users
      OBVIOUS
    <3>2. /\ DOMAIN users' = DOMAIN users \cup {Len(users) + 1}
          /\ users'[Len(users) + 1].ip = session[c].ip
      BY <2>0, <2>5, <2>6, TableFacts
    <3>3. QED
      BY <3>1, <3>2
  <2>8. \E j \in DOMAIN users : users[j].ip = session[c].ip
    BY <2>7 DEF RowsOf
  <2>9. session[c].database.failed
    <3>1. session[c].database.failed \in BOOLEAN
      BY <2>0 DEF SessionType
    <3>2. QED
      BY <2>2, <2>5, <2>6, <2>8, <3>1 DEF SessionOK, HandlerKnows
  <2>10. QED
    BY <2>6, <2>7, <2>9
<1>2. QED
  BY <1>1, Invariance, PTL DEF Spec, DuplicateOnlyAfterFailedSelect
-----------------------------------------------------------------------------
\* Connections that wait for handleAccept

\* A step that keeps what its query left in the session's SQLDatabase
LEMMA Moves ==
  ASSUME session \in [Sessions -> SessionType], NEW c \in Sessions, NEW step, NEW d,
         session' = [session EXCEPT ![c].phase = step, ![c].database = d]
  PROVE  (\A e \in Sessions \ {c} : session'[e] = session[e]) /\ session'[c].phase = step
<1>1. session[c] \in SessionType
  OBVIOUS
<1>2. QED
  BY <1>1 DEF SessionType

LEMMA Ends ==
  ASSUME session \in [Sessions -> SessionType], NEW c \in Sessions, session' = Destroyed(c)
  PROVE  (\A e \in Sessions \ {c} : session'[e] = session[e]) /\ session'[c].phase = "free"
BY DEF Destroyed, FreshSession

\* A session that is answered is on its way to sendToUser, or destroyed.
LEMMA AnsweredMoves ==
  ASSUME session \in [Sessions -> SessionType], NEW c \in Sessions,
         NEW d, NEW r, session' = Answered(c, d, r)
  PROVE  /\ \A e \in Sessions \ {c} : session'[e] = session[e]
         /\ session'[c].phase \in {"reply", "free"}
<1>1. session[c] \in SessionType
  OBVIOUS
<1>2. CASE session' = [session EXCEPT ![c].phase = "reply", ![c].database = d, ![c].reply = r]
  BY <1>1, <1>2 DEF SessionType
<1>3. QED
  BY <1>2, Ends DEF Answered

LEMMA OpenMoves ==
  ASSUME session \in [Sessions -> SessionType], NEW c \in Sessions,
         NEW from, NEW to, OpenConnection(c, from, to)
  PROVE  /\ session[c].phase = from
         /\ \A e \in Sessions \ {c} : session'[e] = session[e]
         /\ session'[c].phase = to
<1>1. session[c] \in SessionType
  OBVIOUS
<1>2. PICK ok : session' = [session EXCEPT ![c].phase = to, ![c].connected = ok]
  BY DEF OpenConnection
<1>3. QED
  BY <1>1, <1>2 DEF OpenConnection, SessionType

\* A step of a handler changes its own session only, and takes it to another step
\* or to its end.
LEMMA HandlerMoves ==
  ASSUME session \in [Sessions -> SessionType], NEW c \in Sessions, HandlerStep(c)
  PROVE  /\ session[c].phase \in HandlerSteps
         /\ \A e \in Sessions \ {c} : session'[e] = session[e]
         /\ session'[c].phase \in HandlerSteps \cup {"free"}
<1>1. CASE InitUser(c) \/ StoreCoordinates(c) \/ OpenForFriend(c)
  BY <1>1, OpenMoves DEF InitUser, StoreCoordinates, OpenForFriend, HandlerSteps
<1>2. CASE SelectUser(c)
  <2>0. PICK d : session' = [session EXCEPT
             ![c].phase = IF d.results = NoResults \/ d.results.id = NULL
                          THEN "insert" ELSE "set_password",
             ![c].database = d]
    BY <1>2 DEF SelectUser
  <2>. DEFINE step == IF d.results = NoResults \/ d.results.id = NULL
                      THEN "insert" ELSE "set_password"
  <2>1. /\ step \in {"insert", "set_password"}
        /\ session' = [session EXCEPT ![c].phase = step, ![c].database = d]
    BY <2>0
  <2>. HIDE DEF step
  <2>2. (\A e \in Sessions \ {c} : session'[e] = session[e]) /\ session'[c].phase = step
    BY <2>1, Moves
  <2>3. QED
    BY <1>2, <2>2 DEF SelectUser, HandlerSteps
<1>3. CASE InsertUser(c)
  <2>1. PICK d : session' = [session EXCEPT ![c].phase = "reselect", ![c].database = d]
    BY <1>3 DEF InsertUser
  <2>2. (\A e \in Sessions \ {c} : session'[e] = session[e]) /\ session'[c].phase = "reselect"
    BY <2>1, Moves
  <2>3. QED
    BY <1>3, <2>2 DEF InsertUser, HandlerSteps
<1>4. CASE ReselectUser(c)
  <2>1. PICK d : \/ session' = Destroyed(c)
                 \/ session' = [session EXCEPT ![c].phase = "set_password", ![c].database = d]
    BY <1>4 DEF ReselectUser
  <2>2. (\A e \in Sessions \ {c} : session'[e] = session[e]) /\ session'[c].phase \in {"set_password", "free"}
    BY <2>1, Moves, Ends
  <2>3. QED
    BY <1>4, <2>2 DEF ReselectUser, HandlerSteps
<1>5. CASE SetPassword(c)
  <2>1. PICK d, r : session' = Answered(c, d, r)
    BY <1>5 DEF SetPassword
  <2>2. QED
    BY <1>5, <2>1, AnsweredMoves DEF SetPassword, HandlerSteps
<1>6. CASE UpdateCoordinates(c)
  <2> DEFINE step == StepAfterStore(session[c].message)
  <2>1. PICK d : \/ step = "free" /\ session' = Destroyed(c)
                 \/ /\ step # "free"
                    /\ session' = [session EXCEPT ![c].phase = step, ![c].connected = FALSE,
                                                  ![c].database = d]
    BY <1>6 DEF UpdateCoordinates
  <2>2. step \in {"friend", "free"}
    BY FirstStepFacts
  <2> HIDE DEF step
  <2>3. session[c] \in SessionType
    OBVIOUS
  <2>4. (\A e \in Sessions \ {c} : session'[e] = session[e]) /\ session'[c].phase = step
    BY <2>1, <2>3, Ends DEF SessionType
  <2>5. QED
    BY <1>6, <2>2, <2>4 DEF UpdateCoordinates, HandlerSteps
<1>7. CASE FindFriend(c)
  <2>1. PICK d, r : \/ session' = Answered(c, d, r)
                    \/ session' = [session EXCEPT ![c].phase = "fetch", ![c].database = d]
    BY <1>7 DEF FindFriend
  <2>2. CASE session' = Answered(c, d, r)
    BY <1>7, <2>2, AnsweredMoves DEF FindFriend, HandlerSteps
  <2>3. CASE session' = [session EXCEPT ![c].phase = "fetch", ![c].database = d]
    <3>1. (\A e \in Sessions \ {c} : session'[e] = session[e]) /\ session'[c].phase = "fetch"
      BY <2>3, Moves
    <3>2. QED
      BY <1>7, <3>1 DEF FindFriend, HandlerSteps
  <2>4. QED
    BY <2>1, <2>2, <2>3
<1>8. CASE FetchCoordinates(c)
  <2>1. PICK d, r : session' = Answered(c, d, r)
    BY <1>8 DEF FetchCoordinates
  <2>2. QED
    BY <1>8, <2>1, AnsweredMoves DEF FetchCoordinates, HandlerSteps
<1>9. CASE SendToUser(c)
  BY <1>9, Ends DEF SendToUser, HandlerSteps
<1>10. QED
  BY <1>1, <1>2, <1>3, <1>4, <1>5, <1>6, <1>7, <1>8, <1>9 DEF HandlerStep

\* A connection that is held is held by one server.
LEMMA OneHolder ==
  ASSUME NEW f \in [Servers -> Acceptors], NEW c, NEW a \in Servers,
         f[a].state = "accepted", f[a].next = c,
         \A b \in Servers \ {a} : f[b].state = "accepted" => f[b].next # f[a].next
  PROVE  {b \in Servers : f[b] = [state |-> "accepted", next |-> c]} = {a}
<1>1. f[a] = [state |-> "accepted", next |-> c]
  BY DEF Acceptors
<1>2. \A b \in Servers : f[b] = [state |-> "accepted", next |-> c] => b = a
  OBVIOUS
<1>3. QED
  BY <1>1, <1>2

\* While the program serves, a session's step accepts no connection.
LEMMA HandlingAccepts ==
  ASSUME session \in [Sessions -> SessionType], NEW d \in Sessions, Handling(d),
         NEW c \in Sessions, session'[c].phase = "accepted"
  PROVE  session[c].phase = "accepted"
<1>0. session[c] \in SessionType /\ session[d] \in SessionType
  OBVIOUS
<1>1. CASE DataArrives(d)
  BY <1>0, <1>1 DEF DataArrives, SessionType
<1>2. CASE Reset(d)
  BY <1>0, <1>2 DEF Reset, SessionType
<1>3. CASE ReadFails(d)
  BY <1>0, <1>3 DEF ReadFails, Goto, SessionType
<1>4. CASE ReceiveDataHandle(d)
  <2>1. PICK step \in {"init", "store", "friend"} :
          session' = Destroyed(d) \/ session' = Goto(d, step)
    BY <1>4, FirstStepFacts DEF ReceiveDataHandle, Continue
  <2>2. QED
    BY <1>0, <2>1 DEF Destroyed, FreshSession, Goto, SessionType
<1>5. CASE HandlerStep(d)
  BY <1>5, HandlerMoves DEF HandlerSteps
<1>6. QED
  BY <1>1, <1>2, <1>3, <1>4, <1>5 DEF Handling, SocketEvent

Held(c) == \E a \in Servers : acceptor[a].state = "accepted" /\ acceptor[a].next = c

\* A connection that some server holds stays held until it is started.
LEMMA AcceptingHolds ==
  ASSUME session \in [Sessions -> SessionType], acceptor \in [Servers -> Acceptors],
         NEW a \in Servers, Accepting(a),
         NEW c \in Sessions, session'[c].phase = "accepted",
         session[c].phase = "accepted" => Held(c)
  PROVE  Held(c)'
<1>0. session[c] \in SessionType /\ acceptor[a] \in Acceptors
  OBVIOUS
<1>1. CASE AcceptCompletes(a)
  <2>1. PICK d \in Sessions, ip \in IPs :
          /\ session[d].phase = "free"
          /\ session' = Connected(d, ip)
          /\ acceptor' = [acceptor EXCEPT ![a] = [state |-> "accepted", next |-> d]]
    BY <1>1 DEF AcceptCompletes
  <2>2. /\ acceptor'[a] = [state |-> "accepted", next |-> d]
        /\ \A b \in Servers \ {a} : acceptor'[b] = acceptor[b]
        /\ \A e \in Sessions \ {d} : session'[e] = session[e]
    BY <2>1 DEF Connected
  <2>3. acceptor[a].state # "accepted"
    BY <1>1 DEF AcceptCompletes
  <2>4. QED
    BY <2>2, <2>3 DEF Held
<1>2. CASE AcceptFails(a)
  <2>1. /\ session' = session /\ acceptor[a].state # "accepted"
        /\ \A b \in Servers \ {a} : acceptor'[b] = acceptor[b]
    BY <1>2 DEF AcceptFails
  <2>2. QED
    BY <2>1 DEF Held
<1>3. CASE HandleAccept(a)
  <2>1. \A b \in Servers \ {a} : acceptor'[b] = acceptor[b]
    BY <1>3 DEF HandleAccept
  <2>2. CASE acceptor[a].state = "accepted"
    <3>1. session' = [session EXCEPT ![acceptor[a].next].phase = "reading"]
      BY <1>3, <2>2 DEF HandleAccept, Started, Goto
    <3>2. session[c].phase = "accepted" /\ acceptor[a].next # c
      BY <1>0, <3>1 DEF SessionType
    <3>3. QED
      BY <2>1, <3>2 DEF Held
  <2>3. CASE acceptor[a].state # "accepted"
    BY <1>3, <2>1, <2>3 DEF HandleAccept, Held
  <2>4. QED
    BY <2>2, <2>3
<1>4. QED
  BY <1>1, <1>2, <1>3 DEF Accepting

LEMMA HeldStep ==
  ASSUME IInv, IInv', ConnectionsAreHeld, [Next]_vars
  PROVE  ConnectionsAreHeld'
<1>0. /\ session \in [Sessions -> SessionType] /\ acceptor \in [Servers -> Acceptors]
      /\ acceptor' \in [Servers -> Acceptors]
      /\ \A c \in Sessions : session[c].phase = "accepted" => Held(c)
      /\ main = "serving" => \A a \in Servers : acceptor[a].state # "down"
  <2>1. ASSUME NEW c \in Sessions, session[c].phase = "accepted"
        PROVE  Held(c)
    <3>1. PICK a \in Servers :
            {b \in Servers : acceptor[b] = [state |-> "accepted", next |-> c]} = {a}
      BY <2>1 DEF ConnectionsAreHeld
    <3>2. acceptor[a] = [state |-> "accepted", next |-> c]
      BY <3>1
    <3>3. QED
      BY <3>2 DEF Held
  <2>2. QED
    BY <2>1 DEF IInv, TypeOK, ConnectionsAreHeld
<1>1. /\ \A c \in Sessions : session'[c].phase = "accepted" => Held(c)'
      /\ main' = "serving" => \A a \in Servers : acceptor'[a].state # "down"
  <2>1. CASE session' = NoSessions /\ main' # "serving"
    BY <2>1 DEF NoSessions, FreshSession
  <2>2. CASE Start
    <3>1. session = NoSessions
      BY <2>2 DEF Start, IInv, NothingOutlivesStart
    <3>2. QED
      BY <2>2, <3>1 DEF Start, NoSessions, FreshSession, Listening
  <2>3. CASE \E a \in Servers : Accepting(a) /\ UNCHANGED main
    <3>1. PICK a \in Servers : Accepting(a) /\ UNCHANGED main
      BY <2>3
    <3>2. /\ acceptor'[a].state # "down"
          /\ \A b \in Servers \ {a} : acceptor'[b] = acceptor[b]
      BY <1>0, <3>1 DEF Accepting, AcceptCompletes, AcceptFails, HandleAccept, Listening, Acceptors
    <3>3. QED
      BY <1>0, <3>1, <3>2, AcceptingHolds
  <2>4. CASE \E d \in Sessions : Handling(d) /\ UNCHANGED <<acceptor, main>>
    BY <1>0, <2>4, HandlingAccepts DEF Held
  <2>5. CASE UNCHANGED vars
    BY <1>0, <2>5 DEF vars, Held
  <2>6. CASE Launch \/ InitServerDb \/ Crash \/ \E c \in Sessions : Throw(c)
    BY <2>1, <2>6 DEF Launch, InitServerDb, Crash, Throw, IInv, NothingOutlivesStart
  <2>7. QED
    BY <2>2, <2>3, <2>4, <2>5, <2>6 DEF Next
<1>2. ASSUME NEW c \in Sessions, session'[c].phase = "accepted"
      PROVE  \E a \in Servers :
               {b \in Servers : acceptor'[b] = [state |-> "accepted", next |-> c]} = {a}
  <2>1. PICK a \in Servers : acceptor'[a].state = "accepted" /\ acceptor'[a].next = c
    BY <1>1, <1>2 DEF Held
  <2>2. \A b \in Servers \ {a} :
          acceptor'[b].state = "accepted" => acceptor'[b].next # acceptor'[a].next
    BY <2>1 DEF IInv, AcceptedOnce
  <2>3. QED
    BY <1>0, <2>1, <2>2, OneHolder
<1>3. QED
  BY <1>1, <1>2 DEF ConnectionsAreHeld

\* Every server has an accept outstanding or its completion queued, and each accepted
\* connection is held by the one handleAccept that starts it, for any number of servers
\* and connections and any accepts that fail: the safety half of Rearmed.
THEOREM NoConnectionIsForgotten == Spec => []ConnectionsAreHeld
<1>1. Init => ConnectionsAreHeld
  BY DEF Init, ConnectionsAreHeld, NoSessions, FreshSession
<1>2. IInv /\ IInv' /\ ConnectionsAreHeld /\ [Next]_vars => ConnectionsAreHeld'
  BY HeldStep
<1>3. QED
  BY <1>1, <1>2, Invariance, PTL DEF Spec
=============================================================================
