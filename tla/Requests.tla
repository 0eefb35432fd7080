------------------------------ MODULE Requests ------------------------------
(***************************************************************************)
(* The text protocol of Session::receiveDataHandle.  A message is the      *)
(* sequence of its whitespace-separated tokens, the form in which          *)
(* std::istringstream hands it to the code; the empty string is what       *)
(* operator>> leaves in its target when there is no token left.            *)
(***************************************************************************)
EXTENDS Naturals, Sequences

CONSTANTS
  Tokens,     \* every token a client can send
  Numbers,    \* the tokens that match \d+\.\d+
  Digits,     \* the tokens made of 0-9 only
  Alnums,     \* the tokens made of 0-9 and a-z only
  Messages,   \* the messages clients send
  Cut,        \* Cut[t]: the tokens that are nonempty proper prefixes of t
  RowId       \* RowId[t]: the row id SQLite reads in the digit string t

Commands == {"/init", "/store", "/get", "/store_and_get", "/check"}

ASSUME RequestsAssumption ==
  /\ Numbers \subseteq Tokens /\ Digits \subseteq Alnums /\ Alnums \subseteq Tokens
  /\ Commands \subseteq Tokens
  /\ "" \notin Tokens
  /\ Messages \subseteq Seq(Tokens) \ {<<>>}
  /\ Cut \in [Tokens -> SUBSET Tokens]
  /\ RowId \in [Digits -> Nat]

(***************************************************************************)
(* One async_read_some delivers the bytes that one TCP segment brought, at *)
(* most BUFFER_SIZE_IN_BYTES of them, and the rest is never read: what     *)
(* arrives is a prefix of what was sent, and may end within a token.       *)
(***************************************************************************)
Segments(m) ==
  {SubSeq(m, 1, k) : k \in DOMAIN m}
    \cup UNION {{Append(SubSeq(m, 1, k - 1), t) : t \in Cut[m[k]]} : k \in DOMAIN m}

\* The i-th value extracted from the stream.
Arg(m, i) == IF i \in DOMAIN m THEN m[i] ELSE ""

Header(m) == Arg(m, 1)

\* The string handed to checkCoordinatesFormat, as the sequence of its pieces:
\* /store extracts one token, /store_and_get joins two of them with a space.
CoordinatesOf(m) ==
  IF Header(m) = "/store" THEN <<Arg(m, 2)>> ELSE <<Arg(m, 2), Arg(m, 3)>>

\* friend_id and friend_pass
FriendOf(m) ==
  IF Header(m) = "/store_and_get" THEN <<Arg(m, 4), Arg(m, 5)>>
                                  ELSE <<Arg(m, 2), Arg(m, 3)>>

\* ^\d+\.\d+\s\d+\.\d+$ : two numbers around one whitespace character
CheckCoordinatesFormat(pieces) ==
  Len(pieces) = 2 /\ \A i \in DOMAIN pieces : pieces[i] \in Numbers

\* Dropping the test for empty strings leaves two loops that empty strings pass.
CheckFriendFormatNoEmptyTest(friend) ==
  friend[1] \in Digits \cup {""} /\ friend[2] \in Alnums \cup {""}

\* Both strings nonempty, digits only and digits or lower-case letters only.
CheckFriendFormat(friend) == friend[1] \in Digits /\ friend[2] \in Alnums

\* The id that '%1%' denotes in "WHERE id = '%1%'"; a string that is no number
\* equals no id, and ids start at 1.
FriendId(friend) == IF friend[1] \in Digits THEN RowId[friend[1]] ELSE 0
=============================================================================
