------------------------------ MODULE MCMarkMe ------------------------------
(***************************************************************************)
(* A small instance of MarkMe for TLC.                                     *)
(***************************************************************************)
EXTENDS MarkMeService, TLC

MCNumbers == {"1.5", "2.75", "2.7"}
MCDigits == {"1", "2"}
MCAlnums == MCDigits \cup {"a", "b"}
MCTokens == Commands \cup MCNumbers \cup MCAlnums \cup {"/in"}

\* Numbers, and commands, that are prefixes of one another: the cuts that could
\* turn a request into another request.
MCCut ==
  [t \in MCTokens |-> CASE t = "2.75" -> {"2.7"}
                        [] t = "/init" -> {"/in"}
                        [] t = "/store_and_get" -> {"/store"}
                        [] OTHER -> {}]

MCRowId == [d \in MCDigits |-> IF d = "1" THEN 1 ELSE 2]
MCPasswords == {"a", "b"}
MCHash == [t \in MCTokens \cup {""} |-> IF t = "a" THEN "ha" ELSE IF t = "b" THEN "hb" ELSE "h"]
MCHashes == {"ha", "hb", "h"}

InitRequest == <<"/init">>
StoreRequest == <<"/store", "1.5", "2.75">>
StoreAndGetRequest == <<"/store_and_get", "1.5", "2.75", "1", "a">>
GetRequest == <<"/get", "1", "a">>
CheckRequest == <<"/check", "2", "b">>

AllMessages == {InitRequest, StoreRequest, StoreAndGetRequest, GetRequest, CheckRequest}
SomeMessages == {InitRequest, StoreAndGetRequest, CheckRequest}

LiveMessages == {StoreAndGetRequest, InitRequest}
OnePassword == {"a"}

FaultsOfPeersAndPower == {"reset", "crash"}
FaultsOfSQLite == {"open", "sql"}
FaultsOfPeers == {"reset", "accept"}
FaultOfOpen == {"open"}
NoFaults == {}

Symmetry == Permutations(Sessions) \cup Permutations(IPs) \cup Permutations(Servers)
=============================================================================
