----------------------------- MODULE SQLDatabase -----------------------------
(***************************************************************************)
(* The class SQLDatabase: what one call of execute leaves in the object.   *)
(* A query selects one column, so queryResults_ is empty or holds one map  *)
(* with one entry, the cell of the last row that sqlite3_exec handed to    *)
(* the callback.  A call that delivers no row leaves the results of the    *)
(* call before it in place.                                                *)
(***************************************************************************)
EXTENDS Naturals

CONSTANTS
  NULL,       \* SQL's NULL, which callback stores as the string "NULL"
  NoEntry     \* no entry; operator[] makes it an empty string

\* queryResults_, by column: every query of the program selects id or coordinates.
NoResults == [id |-> NoEntry, coordinates |-> NoEntry]
Cell(column, value) ==
  [id |-> IF column = "id" THEN value ELSE NoEntry,
   coordinates |-> IF column = "coordinates" THEN value ELSE NoEntry]

\* SQLDatabase::SQLDatabase(): queryResults_ empty, lastErrorCode_ zero
NewDatabase == [results |-> NoResults, failed |-> FALSE]

\* How execute can end: not run on a closed connection, run, or in error.
Outcomes(connected, succeeds, fails) ==
  IF ~connected THEN {"skipped"}
  ELSE (IF succeeds THEN {"done"} ELSE {}) \cup (IF fails THEN {"failed"} ELSE {})

\* lastErrorCode_ # 0: a skipped call leaves the code of the call before it.
FailedAfter(database, outcome) ==
  IF outcome = "skipped" THEN database.failed ELSE outcome = "failed"

\* execute of a statement that returns no rows
Written(database, outcome) == [database EXCEPT !.failed = FailedAfter(database, outcome)]

(***************************************************************************)
(* execute of a SELECT.  answer maps the ids of the matching rows to the   *)
(* value of the column; rows come in the order of their ids and callback   *)
(* clears what the row before left.  An error may follow after some rows.  *)
(***************************************************************************)
LastOf(ids) == {i \in ids : \A j \in ids : j <= i}

Callback(results, column, answer, delivered) ==
  IF delivered = {} THEN {results}
                    ELSE {Cell(column, answer[i]) : i \in LastOf(delivered)}

Queried(database, outcome, column, answer) ==
  LET ids == DOMAIN answer
      prefixes == CASE outcome = "skipped" -> {{}}
                    [] outcome = "done" -> {ids}
                    [] outcome = "failed" -> {{}} \cup {{j \in ids : j <= i} : i \in ids}
  IN  {[results |-> r, failed |-> FailedAfter(database, outcome)] :
         r \in UNION {Callback(database.results, column, answer, p) : p \in prefixes}}
=============================================================================
