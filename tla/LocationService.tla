-------------------------- MODULE LocationService --------------------------
(***************************************************************************)
(* What the server promises its clients while SQLite does not fail: one    *)
(* account per address, and requests that act on the accounts at single    *)
(* moments.  A request that has stored is not undone; a reply tells what   *)
(* the accounts held at one moment after what the request itself stored.   *)
(* Clients and the server may go away at any time; accounts stay.          *)
(***************************************************************************)
EXTENDS Naturals

CONSTANTS
  Clients,     \* the connections that can be open at the same time
  Addresses,
  Requests,    \* what clients ask: see Asked
  Ids,         \* the ids accounts can have
  Passwords,
  Hash,        \* what is kept of a password
  Nothing      \* no password, no coordinates

VARIABLES
  accounts,    \* of the addresses that have one
  client       \* what each connection asked, and how far its request is

Away == [state |-> "away"]

NoReply == [kind |-> "none"]
Reply(kind) == [kind |-> kind]

\* A request has a command, well-formed coordinates or Nothing, and the id and
\* the hashed password of a friend, which is valid when they are well-formed.
Asked == [state : {"asked"}, address : Addresses, request : Requests, reply : {NoReply}]

Init == accounts = [a \in {} |-> Nothing] /\ client = [c \in Clients |-> Away]

Ask(c) ==
  /\ client[c] = Away
  /\ client'[c] \in Asked
  /\ client' = [client EXCEPT ![c] = client'[c]]
  /\ UNCHANGED accounts

Answers(c, reply) ==
  client' = [client EXCEPT ![c].state = "answered", ![c].reply = reply]

\* The first half of /init: an account for an address that has none.
Enroll(c) ==
  LET a == client[c].address
  IN  /\ client[c].state = "asked" /\ client[c].request.command = "/init"
      /\ a \notin DOMAIN accounts
      /\ \E id \in Ids :
           /\ \A b \in DOMAIN accounts : accounts[b].id # id
           /\ accounts' = [b \in DOMAIN accounts \cup {a} |->
                IF b = a THEN [id |-> id, password |-> Nothing, coordinates |-> Nothing]
                         ELSE accounts[b]]
      /\ UNCHANGED client

\* The second half: a new password, which the client is told.
Renew(c) ==
  LET a == client[c].address
  IN  /\ client[c].state = "asked" /\ client[c].request.command = "/init"
      /\ a \in DOMAIN accounts
      /\ \E pass \in Passwords :
           /\ accounts' = [accounts EXCEPT ![a].password = Hash[pass]]
           /\ Answers(c, [kind |-> "credentials", id |-> accounts[a].id, pass |-> pass])

\* The first half of /store_and_get, of an address that has an account; the
\* request ends here if it names no valid friend.
Store(c) ==
  LET a == client[c].address
      r == client[c].request
  IN  /\ client[c].state = "asked" /\ r.command = "/store_and_get"
      /\ r.coordinates # Nothing
      /\ accounts' = [b \in DOMAIN accounts |->
           IF b = a THEN [accounts[b] EXCEPT !.coordinates = r.coordinates]
                    ELSE accounts[b]]
      /\ \/ r.valid /\ client' = [client EXCEPT ![c].state = "stored"]
         \/ ~r.valid /\ client' = [client EXCEPT ![c] = Away]

Friends(r) ==
  {b \in DOMAIN accounts : accounts[b].id = r.id /\ accounts[b].password = r.hash}

RightReplies(r) ==
  IF r.command = "/check"
  THEN {IF Friends(r) = {} THEN Reply("wrong") ELSE Reply("ok")}
  ELSE IF Friends(r) = {}
  THEN {Reply("err 1")}
  ELSE {IF accounts[b].coordinates = Nothing
        THEN Reply("err 2")
        ELSE [kind |-> "coordinates", coordinates |-> accounts[b].coordinates] :
          b \in Friends(r)}

\* /get, /check, and the second half of /store_and_get, which has stored before.
Answer(c) ==
  LET r == client[c].request
  IN  /\ client[c].state \in {"asked", "stored"} /\ r.valid
      /\ r.command \in {"/get", "/check", "/store_and_get"}
      /\ (r.command = "/store_and_get" /\ r.coordinates # Nothing) => client[c].state = "stored"
      /\ \E reply \in RightReplies(r) : Answers(c, reply)
      /\ UNCHANGED accounts

\* The reply was sent, or there is none, or the connection is lost.
Leave(c) ==
  /\ client' = [client EXCEPT ![c] = Away]
  /\ UNCHANGED accounts

Restart ==
  /\ client' = [c \in Clients |-> Away]
  /\ UNCHANGED accounts

Next ==
  \/ \E c \in Clients : Ask(c) \/ Enroll(c) \/ Renew(c) \/ Store(c) \/ Answer(c) \/ Leave(c)
  \/ Restart

Spec == Init /\ [][Next]_<<accounts, client>>
=============================================================================
