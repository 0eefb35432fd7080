--------------------------- MODULE MarkMeService ---------------------------
(***************************************************************************)
(* MarkMe as an implementation of LocationService: the account of an       *)
(* address is its row, and a client has asked from the moment its request  *)
(* was received until its Session is destroyed.                            *)
(***************************************************************************)
EXTENDS MarkMe

RowOf(table, ip) == CHOOSE i \in DOMAIN table : table[i].ip = ip

AccountOf(table, i) ==
  [id |-> i, password |-> table[i].password, coordinates |-> table[i].coordinates]

Accounts(table) ==
  [ip \in {table[i].ip : i \in DOMAIN table} |-> AccountOf(table, RowOf(table, ip))]

Received == UNION {Segments(m) : m \in Messages}

RequestOf ==
  [m \in Received |->
     LET coordinates == CoordinatesOf(m)
         friend == FriendOf(m)
     IN  [command |-> Header(m),
          coordinates |-> IF CheckCoordinatesFormat(coordinates) THEN coordinates ELSE NULL,
          valid |-> CheckFriendFormat(friend),
          id |-> FriendId(friend),
          hash |-> Hash[friend[2]]]]

HasStored(s) ==
  /\ s.phase \in {"friend", "find", "fetch"}
  /\ RequestOf[s.message].command = "/store_and_get"
  /\ RequestOf[s.message].coordinates # NULL

ClientOf(s) ==
  IF s.phase \in HandlerSteps \cup {"received"}
  THEN [state |-> IF s.phase = "reply" THEN "answered"
                  ELSE IF HasStored(s) THEN "stored" ELSE "asked",
        address |-> s.ip,
        request |-> RequestOf[s.message],
        reply |-> IF s.phase = "reply" THEN s.reply ELSE NoReply]
  ELSE [state |-> "away"]

ClientsOf(sessions) == [c \in Sessions |-> ClientOf(sessions[c])]

Service == INSTANCE LocationService WITH
  Clients <- Sessions,
  Addresses <- IPs,
  Requests <- {RequestOf[m] : m \in Received},
  Ids <- 1..MaxUsers,
  Nothing <- NULL,
  accounts <- Accounts(users),
  client <- ClientsOf(session)

\* As long as SQLite does not fail the server implements LocationService: the
\* SELECT, INSERT and UPDATE of one request, the two reads of a friend, and the
\* requests of other clients between them add up to requests that act at single
\* moments, through resets, restarts and crashes.
ImplementsService == Service!Spec
-----------------------------------------------------------------------------
(***************************************************************************)
(* What the refinement needs beyond IInv: each step of a handler belongs   *)
(* to a command and knows the checks its request has passed, runs on an    *)
(* open file unless opens fail, and while SQLite does not fail what it has *)
(* stored is there.                                                              *)
(***************************************************************************)
NoSQLFaults == Faults \cap {"open", "sql"} = {}

ReplyFits(kind, m) ==
  \/ kind = "credentials" /\ Header(m) = "/init"
  \/ kind \in {"ok", "wrong"} /\ Header(m) = "/check" /\ CheckFriendFormat(FriendOf(m))
  \/ /\ kind \in {"err 1", "err 2", "coordinates"}
     /\ Header(m) \in {"/get", "/store_and_get"} /\ CheckFriendFormat(FriendOf(m))

RequestFits(s) ==
  LET m == s.message
  IN  CASE s.phase \in {"init", "select", "insert", "reselect", "set_password"} ->
             Header(m) = "/init"
        [] s.phase \in {"store", "update"} ->
             Header(m) = "/store_and_get" /\ CheckCoordinatesFormat(CoordinatesOf(m))
        [] s.phase \in {"friend", "find", "fetch"} ->
             /\ Header(m) \in {"/get", "/check", "/store_and_get"}
             /\ s.phase = "fetch" => Header(m) # "/check"
             /\ CheckFriendFormat(FriendOf(m))
        [] s.phase = "reply" -> ReplyFits(s.reply.kind, m)
        [] OTHER -> TRUE

FileIsOpen(s) ==
  s.phase \in {"select", "insert", "reselect", "set_password", "update", "find", "fetch", "reply"}
    => s.connected

StoredIsThere(s, table) ==
  LET coordinates == CoordinatesOf(s.message)
  IN  (/\ s.phase \in {"friend", "find", "fetch", "reply"}
       /\ Header(s.message) = "/store_and_get" /\ CheckCoordinatesFormat(coordinates)) =>
        \A i \in DOMAIN table : table[i].ip = s.ip => table[i].coordinates = coordinates

RequestOK(s, table) ==
  /\ s.phase \in HandlerSteps \cup {"received"} =>
       s.sent \in Messages /\ s.message \in Segments(s.sent)
  /\ RequestFits(s)
  /\ "open" \notin Faults => FileIsOpen(s)
  /\ NoSQLFaults => StoredIsThere(s, table)

RequestInv ==
  /\ (NoSQLFaults /\ main \in {"start", "serving"}) => created
  /\ \A c \in Sessions : RequestOK(session[c], users)
=============================================================================
