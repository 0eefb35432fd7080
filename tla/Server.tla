------------------------------- MODULE Server -------------------------------
(***************************************************************************)
(* The class Server: each object keeps one accept outstanding, for a       *)
(* Session made in advance.  All of them accept on the same port and their *)
(* handlers run on the same thread as those of the sessions.               *)
(***************************************************************************)
EXTENDS Session

CONSTANTS
  Servers,     \* the objects that start() makes, as many as -srv says
  NoSession    \* no connection

ASSUME ServerAssumption == NoSession \notin Sessions

VARIABLE acceptor   \* per server: its async_accept and the session it completed with

Acceptors ==
  [state : {"down", "listening", "accepted", "failed"}, next : Sessions \cup {NoSession}]

Down == [state |-> "down", next |-> NoSession]

\* Server::startAccept
Listening == [state |-> "listening", next |-> NoSession]

\* A client connects and the outstanding accept completes with its connection.
AcceptCompletes(a) ==
  /\ acceptor[a].state = "listening"
  /\ \E c \in {d \in Sessions : session[d].phase = "free"}, ip \in IPs :
       /\ session' = Connected(c, ip)
       /\ acceptor' = [acceptor EXCEPT ![a] = [state |-> "accepted", next |-> c]]
  /\ UNCHANGED <<users, created>>

AcceptFails(a) ==
  /\ "accept" \in Faults
  /\ acceptor[a].state = "listening"
  /\ acceptor' = [acceptor EXCEPT ![a].state = "failed"]
  /\ UNCHANGED <<users, created, session>>

\* Variant: an error returns before startAccept.
HandleAcceptReturnsOnError(a) ==
  /\ Idle
  /\ acceptor[a].state \in {"accepted", "failed"}
  /\ session' = IF acceptor[a].state = "accepted" THEN Started(acceptor[a].next) ELSE session
  /\ acceptor' = [acceptor EXCEPT ![a] =
                    IF acceptor[a].state = "accepted" THEN Listening ELSE Down]
  /\ UNCHANGED <<users, created>>

\* Server::handleAccept: on an error the session is dropped; startAccept in any case
HandleAccept(a) ==
  /\ Idle
  /\ acceptor[a].state \in {"accepted", "failed"}
  /\ session' = IF acceptor[a].state = "accepted" THEN Started(acceptor[a].next) ELSE session
  /\ acceptor' = [acceptor EXCEPT ![a] = Listening]
  /\ UNCHANGED <<users, created>>
=============================================================================
