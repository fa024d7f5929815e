----------------------------- MODULE MySqlQuery -----------------------------
(***************************************************************************)
(* The clients under src/ostc/mysql.  testMySqlRealQuery.cpp sends five    *)
(* statements, reads all results of each (ExecuteQuery) and checks their   *)
(* shape; testMySqlAPI.cpp sends one statement, and testMySqlPrepare.cpp a *)
(* prepared one.  Several of them may use one server; the runs of the      *)
(* first all create, call and drop the one stored procedure GetUserData.   *)
(* The server and libmysqlclient are not part of src/.                     *)
(***************************************************************************)
EXTENDS Integers, Sequences

CONSTANTS
    Runs,       \* the runs of the programs
    Programs,   \* the programs: "realQuery", "api", "prepare"
    UserRows    \* the numbers of rows a call of GetUserData may return

VARIABLES
    program,    \* what each run is a run of
    proc,       \* the server has a procedure GetUserData
    pc,         \* where each run is
    conn,       \* its connection
    stmt,       \* the statement it is at
    results,    \* the results of that statement it has not read yet
    numRows, numFields,     \* the rows and fields of the result: what ExecuteQuery
                            \* returns through its references, result_count, field_count
    found,      \* fFoundWaitTimeout
    fault,      \* history: a call failed this run, or the server has not the data it expects
    clash       \* history: another run created or dropped the procedure under this one

counts  == <<numRows, numFields, found>>
history == <<fault, clash>>
vars    == <<program, proc, pc, conn, stmt, results, counts, history>>

\* Mutant of Script: "if exists" is missing.
ScriptDrops == <<"show", "drop", "create", "call", "drop">>

\* The statements of a run.
Script == <<"show", "dropIfExists", "create", "call", "drop">>

Result == [rows : Nat, fields : Nat, known : BOOLEAN]

\* Types; no run goes past its last statement.
TypeOK ==
    /\ program \in [Runs -> Programs]
    /\ proc \in BOOLEAN
    /\ pc \in [Runs -> {"config", "connect", "query", "store", "check", "exit0", "exit1",
                       "stmtInit", "prepare", "execute", "metadata", "bind", "fetch",
                       "freeResult", "more", "closeStmt"}]
    /\ conn \in [Runs -> {"none", "open", "closed"}]
    /\ stmt \in [Runs -> 1 .. Len(Script)]
    /\ results \in [Runs -> Seq(Result)]
    /\ numRows \in [Runs -> Nat] /\ numFields \in [Runs -> Nat]
    /\ found \in [Runs -> BOOLEAN]
    /\ fault \in [Runs -> BOOLEAN] /\ clash \in [Runs -> BOOLEAN]

\* An earlier run may have left its procedure behind.
Init ==
    /\ program \in [Runs -> Programs]
    /\ proc \in BOOLEAN
    /\ pc = [r \in Runs |-> IF program[r] = "realQuery" THEN "config" ELSE "connect"]
    /\ conn = [r \in Runs |-> "none"]
    /\ stmt = [r \in Runs |-> 1]
    /\ results = [r \in Runs |-> << >>]
    /\ numRows = [r \in Runs |-> 0] /\ numFields = [r \in Runs |-> 0]
    /\ found = [r \in Runs |-> FALSE]
    /\ fault = [r \in Runs |-> FALSE] /\ clash = [r \in Runs |-> FALSE]

At(r, step) == pc[r] = step
Goto(r, step) == pc' = [pc EXCEPT ![r] = step]
Faulty(r) == fault' = [fault EXCEPT ![r] = TRUE]

\* Every error exit of testMySqlRealQuery and of testMySqlAPI closes the connection it has.
Abort(r) ==
    /\ Goto(r, "exit1")
    /\ conn' = [conn EXCEPT ![r] = "closed"]

-----------------------------------------------------------------------------
(* The server *)

Refuses(what) ==
    \/ what = "create" /\ proc
    \/ what \in {"call", "drop"} /\ ~ proc

\* proc after the statement.
After(what) ==
    IF what \in {"create", "dropIfExists", "drop"} THEN what = "create" ELSE proc

Status == [rows |-> 0, fields |-> 0, known |-> FALSE]

\* The results a statement sends: those of a call end with the status of the call.  A
\* prepared statement may be a call too.
Answers(what) ==
    CASE what = "show" -> {<<[rows |-> n, fields |-> 2, known |-> k]>> : n \in {1}, k \in BOOLEAN}
      [] what = "call" -> {<<[rows |-> n, fields |-> 3, known |-> FALSE], Status>> : n \in UserRows}
      [] what = "prepared" -> {<<[rows |-> n, fields |-> 2, known |-> FALSE]>> : n \in UserRows}
              \cup {<<[rows |-> n, fields |-> 2, known |-> FALSE], Status>> : n \in UserRows}
      [] what \in {"dropIfExists", "create", "drop"} -> {<<Status>>}

\* The data are not those testMySqlRealQuery was written for.
Unexpected(r, answer) ==
    /\ program[r] = "realQuery"
    /\ \/ Script[stmt[r]] = "show" /\ ~ answer[1].known
       \/ Script[stmt[r]] = "call" /\ answer[1].rows = 0

\* The server has executed r's first drop and not yet its last one.
UsesProc(r) ==
    \/ stmt[r] = 2 /\ pc[r] \in {"store", "check"}
    \/ stmt[r] \in {3, 4} /\ pc[r] \in {"query", "store", "check"}
    \/ stmt[r] = 5 /\ pc[r] = "query"

-----------------------------------------------------------------------------
(* main() up to the connection *)

\* The first configuration file there is, or the usage error.
Configure(r) ==
    /\ At(r, "config")
    /\ \E next \in {"connect", "exit1"} : Goto(r, next)
    /\ UNCHANGED <<program, proc, conn, stmt, results, counts, history>>

Connect(r) ==
    /\ At(r, "connect")
    /\ Goto(r, IF program[r] = "prepare" THEN "stmtInit" ELSE "query")
    /\ conn' = [conn EXCEPT ![r] = "open"]
    /\ UNCHANGED <<program, proc, stmt, results, counts, history>>

ConnectFails(r) ==
    /\ At(r, "connect")
    /\ Goto(r, "exit1")
    /\ UNCHANGED <<program, proc, conn, stmt, results, counts, history>>

-----------------------------------------------------------------------------
(* ExecuteQuery, and the one query of testMySqlAPI *)

\* mysql_real_query() or mysql_query() succeeds: the server has executed the statement.
Query(r) ==
    LET what == Script[stmt[r]]
    IN  /\ At(r, "query") /\ ~ Refuses(what)
        /\ proc' = After(what)
        /\ \E answer \in Answers(what) :
              /\ results' = [results EXCEPT ![r] = answer]
              /\ fault' = [fault EXCEPT ![r] = @ \/ Unexpected(r, answer)]
        /\ clash' = [s \in Runs |-> clash[s] \/ (s # r /\ UsesProc(s) /\ proc' # proc)]
        /\ numRows' = [numRows EXCEPT ![r] = 0]
        /\ numFields' = [numFields EXCEPT ![r] = 0]
        /\ found' = [found EXCEPT ![r] = FALSE]
        /\ Goto(r, "store")
        /\ UNCHANGED <<program, conn, stmt>>

\* The server refuses the statement: FFError is thrown and caught in main().
QueryRefused(r) ==
    /\ At(r, "query") /\ Refuses(Script[stmt[r]])
    /\ Abort(r)
    /\ UNCHANGED <<program, proc, stmt, results, counts, history>>

\* The statement fails for another reason; it may have been executed before the
\* connection broke.
QueryFails(r) ==
    LET what == Script[stmt[r]]
    IN  /\ At(r, "query")
        /\ proc' \in {proc, IF Refuses(what) THEN proc ELSE After(what)}
        /\ clash' = [s \in Runs |-> clash[s] \/ (s # r /\ UsesProc(s) /\ proc' # proc)]
        /\ Faulty(r)
        /\ Abort(r)
        /\ UNCHANGED <<program, stmt, results, counts>>

\* Mutant of StoreResult: only the first result is read.
StoreFirst(r) ==
    LET result == Head(results[r])
    IN  /\ At(r, "store") /\ program[r] = "realQuery"
        /\ results' = [results EXCEPT ![r] = Tail(@)]
        /\ numRows' = [numRows EXCEPT ![r] = result.rows + result.rows]
        /\ numFields' = [numFields EXCEPT ![r] = result.fields]
        /\ found' = [found EXCEPT ![r] = @ \/ result.known]
        /\ Goto(r, "check")
        /\ UNCHANGED <<program, proc, conn, stmt, history>>

\* One turn of the loop: the rows of a result set are taken from mysql_num_rows() and
\* then counted once more while they are fetched; a result without fields leaves the
\* counts of the one before it.
StoreResult(r) ==
    LET result == Head(results[r])
    IN  /\ At(r, "store") /\ program[r] = "realQuery"
        /\ results' = [results EXCEPT ![r] = Tail(@)]
        /\ IF result.fields > 0
           THEN /\ numRows' = [numRows EXCEPT ![r] = result.rows + result.rows]
                /\ numFields' = [numFields EXCEPT ![r] = result.fields]
                /\ found' = [found EXCEPT ![r] = @ \/ result.known]
           ELSE UNCHANGED counts
        /\ Goto(r, IF Len(results[r]) > 1 THEN "store" ELSE "check")
        /\ UNCHANGED <<program, proc, conn, stmt, history>>

\* mysql_store_result() returns NULL although there are fields: ExecuteQuery returns 1.
StoreFails(r) ==
    /\ At(r, "store") /\ program[r] = "realQuery" /\ Head(results[r]).fields > 0
    /\ Faulty(r)
    /\ Abort(r)
    /\ UNCHANGED <<program, proc, stmt, results, counts, clash>>

\* mysql_next_result() returns an error: it is printed, and the loop ends as if there
\* were no more results.
NextResultFails(r) ==
    /\ At(r, "store") /\ Len(results[r]) > 1
    /\ results' = [results EXCEPT ![r] = << >>]
    /\ numRows' = [numRows EXCEPT ![r] = Head(results[r]).rows + Head(results[r]).rows]
    /\ numFields' = [numFields EXCEPT ![r] = Head(results[r]).fields]
    /\ Goto(r, "check")
    /\ Faulty(r)
    /\ UNCHANGED <<program, proc, conn, stmt, found, clash>>

\* testMySqlAPI prints the rows of its one result, closes and ends.
ApiStore(r) ==
    /\ At(r, "store") /\ program[r] = "api"
    /\ results' = [results EXCEPT ![r] = Tail(@)]
    /\ numRows' = [numRows EXCEPT ![r] = Head(results[r]).rows]
    /\ numFields' = [numFields EXCEPT ![r] = Head(results[r]).fields]
    /\ found' = [found EXCEPT ![r] = Head(results[r]).known]
    /\ Goto(r, "exit0")
    /\ conn' = [conn EXCEPT ![r] = "closed"]
    /\ UNCHANGED <<program, proc, stmt, history>>

\* mysql_store_result() returns NULL: that is taken for an empty result, and main()
\* returns 0 without closing.
ApiStoreFails(r) ==
    /\ At(r, "store") /\ program[r] = "api"
    /\ Goto(r, "exit0")
    /\ Faulty(r)
    /\ UNCHANGED <<program, proc, conn, stmt, results, counts, clash>>

-----------------------------------------------------------------------------
(* testMySqlPrepare: the calls on the prepared statement *)

\* The calls before and after mysql_stmt_execute(), and what follows each.
StmtCalls == [stmtInit |-> "prepare", prepare |-> "execute", metadata |-> "bind", bind |-> "fetch"]

StmtCall(r) ==
    /\ pc[r] \in DOMAIN StmtCalls
    /\ Goto(r, StmtCalls[pc[r]])
    /\ UNCHANGED <<program, proc, conn, stmt, results, counts, history>>

StmtExecute(r) ==
    /\ At(r, "execute")
    /\ \E answer \in Answers("prepared") :
          /\ results' = [results EXCEPT ![r] = answer]
          /\ numFields' = [numFields EXCEPT ![r] = answer[1].fields]
    /\ Goto(r, "metadata")
    /\ UNCHANGED <<program, proc, conn, stmt, numRows, found, history>>

\* exit(EXIT_FAILURE), without mysql_close().
StmtFails(r) ==
    /\ pc[r] \in DOMAIN StmtCalls \cup {"execute", "freeResult"}
    /\ Goto(r, "exit1")
    /\ Faulty(r)
    /\ UNCHANGED <<program, proc, conn, stmt, results, counts, clash>>

StmtFetch(r) ==
    /\ At(r, "fetch") /\ numRows[r] < Head(results[r]).rows
    /\ numRows' = [numRows EXCEPT ![r] = @ + 1]
    /\ UNCHANGED <<program, proc, pc, conn, stmt, results, numFields, found, history>>

\* MYSQL_NO_DATA, or an error, which is taken for the end of the data.
StmtFetchEnds(r) ==
    /\ At(r, "fetch")
    /\ IF numRows[r] = Head(results[r]).rows THEN UNCHANGED fault ELSE Faulty(r)
    /\ Goto(r, "freeResult")
    /\ UNCHANGED <<program, proc, conn, stmt, results, counts, clash>>

\* mysql_stmt_free_result() reads what is left of the result.
StmtFreeResult(r) ==
    /\ At(r, "freeResult")
    /\ results' = [results EXCEPT ![r] = Tail(@)]
    /\ Goto(r, "more")
    /\ UNCHANGED <<program, proc, conn, stmt, counts, history>>

\* With more results outstanding the connection is closed under the statement.
StmtMore(r) ==
    /\ At(r, "more")
    /\ IF results[r] = << >>
       THEN Goto(r, "closeStmt") /\ UNCHANGED conn
       ELSE Goto(r, "exit0") /\ conn' = [conn EXCEPT ![r] = "closed"]
    /\ UNCHANGED <<program, proc, stmt, results, counts, history>>

\* mysql_stmt_close(), whose error is printed, and mysql_close().
StmtClose(r) ==
    /\ At(r, "closeStmt")
    /\ Goto(r, "exit0")
    /\ conn' = [conn EXCEPT ![r] = "closed"]
    /\ UNCHANGED <<program, proc, stmt, results, counts, history>>

-----------------------------------------------------------------------------
(* What main() of testMySqlRealQuery checks after each statement *)

AsExpected(r) ==
    CASE Script[stmt[r]] = "show" -> found[r] /\ numRows[r] >= 1 /\ numFields[r] = 2
      [] Script[stmt[r]] = "call" -> numRows[r] >= 1 /\ numFields[r] = 3
      [] Script[stmt[r]] \notin {"show", "call"} -> numRows[r] = 0 /\ numFields[r] = 0

CheckPasses(r) ==
    /\ At(r, "check") /\ AsExpected(r)
    /\ IF stmt[r] < Len(Script)
       THEN /\ stmt' = [stmt EXCEPT ![r] = @ + 1]
            /\ Goto(r, "query")
            /\ UNCHANGED conn
       ELSE /\ Goto(r, "exit0")
            /\ conn' = [conn EXCEPT ![r] = "closed"]
            /\ UNCHANGED stmt
    /\ UNCHANGED <<program, proc, results, counts, history>>

CheckFails(r) ==
    /\ At(r, "check") /\ ~ AsExpected(r)
    /\ Abort(r)
    /\ UNCHANGED <<program, proc, stmt, results, counts, history>>

Run(r) ==
    \/ Configure(r) \/ Connect(r) \/ ConnectFails(r)
    \/ Query(r) \/ QueryRefused(r) \/ QueryFails(r)
    \/ StoreResult(r) \/ StoreFails(r) \/ NextResultFails(r)
    \/ CheckPasses(r) \/ CheckFails(r)
    \/ ApiStore(r) \/ ApiStoreFails(r)
    \/ StmtCall(r) \/ StmtExecute(r) \/ StmtFails(r) \/ StmtFetch(r) \/ StmtFetchEnds(r)
    \/ StmtFreeResult(r) \/ StmtMore(r) \/ StmtClose(r)

Next == \E r \in Runs : Run(r)

Spec == Init /\ [][Next]_vars

-----------------------------------------------------------------------------

\* A statement is sent, and a prepared one closed, only when all results of the one before
\* have been read; otherwise the server would refuse it ("commands out of sync").  This is
\* what the loop around mysql_next_result() (testMySqlRealQuery.cpp:51-121) and the test of
\* mysql_more_results() (testMySqlPrepare.cpp:181-191) are for.
InSync == \A r \in Runs : pc[r] \in {"query", "check", "closeStmt"} => results[r] = << >>

\* Whatever an earlier run left on the server, a run that has connected fails only when
\* the server fails it or another run creates or drops the procedure under it: this is
\* what "drop procedure if exists" (testMySqlRealQuery.cpp:282) is for.
FailsOnlyIfDisturbed ==
    \A r \in Runs : pc[r] = "exit1" /\ conn[r] # "none" => fault[r] \/ clash[r]
=============================================================================
