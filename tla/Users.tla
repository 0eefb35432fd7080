-------------------------------- MODULE Users --------------------------------
(***************************************************************************)
(* The table users of the SQLite file and the statements the server runs   *)
(* on it.  Ids are INTEGER PRIMARY KEY AUTOINCREMENT and no row is ever    *)
(* deleted, so the table is a sequence of rows indexed by id.              *)
(***************************************************************************)
EXTENDS SQLDatabase, Naturals, Sequences

Rows(ips, hashes, coordinates) ==
  [ip : ips, password : hashes \cup {NULL}, coordinates : coordinates \cup {NULL}]

\* Variants a slip would give: other WHERE clauses than the code's.
IdsWithIpAndPassword(table, ip) ==
  {i \in DOMAIN table : table[i].ip = ip /\ table[i].password # NULL}
IdsOfFriendAnyPassword(table, id, hash) == {i \in DOMAIN table : i = id}
WithCoordinatesEverywhere(table, ip, coordinates) ==
  [i \in DOMAIN table |-> [table[i] EXCEPT !.coordinates = coordinates]]

WithCoordinatesOnce(table, ip, coordinates) ==
  [i \in DOMAIN table |->
     IF table[i].ip = ip /\ table[i].coordinates = NULL
     THEN [table[i] EXCEPT !.coordinates = coordinates] ELSE table[i]]

\* SELECT id FROM users WHERE ip = ...
IdsWithIp(table, ip) == {i \in DOMAIN table : table[i].ip = ip}

\* SELECT id FROM users WHERE id = ... AND password = ...
IdsOfFriend(table, id, hash) == {i \in DOMAIN table : i = id /\ table[i].password = hash}

\* INSERT INTO users(ip) VALUES(...)
Inserted(table, ip) ==
  Append(table, [ip |-> ip, password |-> NULL, coordinates |-> NULL])

\* UPDATE users SET password = ... WHERE id = ...
WithPassword(table, id, hash) ==
  [i \in DOMAIN table |->
     IF i = id THEN [table[i] EXCEPT !.password = hash] ELSE table[i]]

\* UPDATE users SET coordinates = ... WHERE ip = ...
WithCoordinates(table, ip, coordinates) ==
  [i \in DOMAIN table |->
     IF table[i].ip = ip THEN [table[i] EXCEPT !.coordinates = coordinates]
                         ELSE table[i]]
=============================================================================
