------------------------------ MODULE DbHelper ------------------------------
(* DbHelper and the database jobs that use it, as operators on the table   *)
(* of players: a statement is prepared, its parameters are bound in order, *)
(* one step is taken, and the columns of a row are read in order.          *)
(*                                                                         *)
(* The table has no primary key: for each player id it holds the rows with *)
(* that id, in the order they were inserted.  The two coordinates of the   *)
(* plane are one value, pos; the third is posZ.                            *)
EXTENDS Integers, Sequences

\* A prepared statement and the values bound to its parameters so far.
Prepare(sql) == [sql |-> sql, params |-> <<>>]
BindParam(stmt, value) == [stmt EXCEPT !.params = Append(@, value)]

(* What sqlite3_step makes of the table, and the columns of the row that   *)
(* it finds: none for a statement that is no SELECT, or finds no row.      *)
SQL_SelectTest(table, params) ==
  LET rows == table[params[1]] IN
  [table |-> table,
   row |-> IF rows = <<>> THEN <<>> ELSE <<rows[1].name, rows[1].pos, rows[1].posZ>>]

SQL_InsertTest(table, params) ==
  [table |-> [table EXCEPT ![params[1]] =
     Append(@, [name |-> params[2], pos |-> params[3], posZ |-> params[4],
                comment |-> params[5]])],
   row |-> <<>>]

SQL_UpdateTest(table, params) ==
  [table |-> [table EXCEPT ![params[4]] =
     [i \in DOMAIN @ |-> [@[i] EXCEPT !.pos = params[1], !.posZ = params[2],
                                      !.comment = params[3]]]],
   row |-> <<>>]

SQL_DeleteTest(table, params) ==
  [table |-> [table EXCEPT ![params[1]] = <<>>], row |-> <<>>]

Stepped(table, stmt) ==
  CASE stmt.sql = "Select" -> SQL_SelectTest(table, stmt.params)
    [] stmt.sql = "Insert" -> SQL_InsertTest(table, stmt.params)
    [] stmt.sql = "Update" -> SQL_UpdateTest(table, stmt.params)
    [] stmt.sql = "Delete" -> SQL_DeleteTest(table, stmt.params)

FetchRow(table, stmt) ==
  IF Stepped(table, stmt).row # <<>> THEN "RESULT_ROW" ELSE "RESULT_DONE"

\* The columns of a row of SQL_SelectTest, one GetResultParam after the other.
GetResultParams(row) == [name |-> row[1], pos |-> row[2], posZ |-> row[3]]
-----------------------------------------------------------------------------
(* The OnExecute of each job: the statement with its parameters.           *)
Statement(job) ==
  CASE job.kind = "Load" -> BindParam(Prepare("Select"), job.mPlayerId)
    [] job.kind = "Create" ->
         BindParam(BindParam(BindParam(BindParam(BindParam(Prepare("Insert"),
           job.mPlayerId), job.mPlayerName), job.mPos), job.mPosZ), job.mComment)
    [] job.kind = "Update" ->
         BindParam(BindParam(BindParam(BindParam(Prepare("Update"),
           job.mPos), job.mPosZ), job.mComment), job.mPlayerId)
    [] job.kind = "Delete" -> BindParam(Prepare("Delete"), job.mPlayerId)

(* The job and the table after OnExecute, if the step makes no error: only *)
(* a Load needs a row, and takes its columns; the others succeed whatever  *)
(* they found.                                                             *)
OnExecute(job, table) ==
  LET stmt == Statement(job)
      data == GetResultParams(Stepped(table, stmt).row)
  IN [table |-> Stepped(table, stmt).table,
      job |->
        IF job.kind # "Load" THEN [job EXCEPT !.mSuccess = TRUE]
        ELSE IF FetchRow(table, stmt) # "RESULT_ROW" THEN [job EXCEPT !.mSuccess = FALSE]
        ELSE [job EXCEPT !.mSuccess = TRUE, !.mPlayerName = data.name, !.mPos = data.pos,
                         !.mPosZ = data.posZ]]

\* The step returns an error: nothing is written, and the job has failed.
OnExecuteError(job, table) == [table |-> table, job |-> [job EXCEPT !.mSuccess = FALSE]]
=============================================================================
