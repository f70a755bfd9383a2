------------------------------- MODULE SqlLog -------------------------------
(***************************************************************************)
(* The logging driver of db-client/sql_log_driver.go between database/sql   *)
(* and a real driver.  database/sql runs a statement without preparing it   *)
(* if the driver lets it, prepares and runs it otherwise, and tries again   *)
(* on another connection what failed for a bad one.                         *)
(***************************************************************************)
EXTENDS Naturals, Sequences

CONSTANTS
  Calls,
  MaxTries     \* of database/sql: two cached connections and a new one

ASSUME SqlAssumption == MaxTries \in Nat \ {0}

\* The optional interfaces the wrapper looks for: ExecerContext and
\* QueryerContext of a connection, StmtExecContext and StmtQueryContext.
Features == {"ExecerContext", "QueryerContext", "StmtContext"}

VARIABLES
  features, \* of the real driver
  debug,    \* IsDebugEnabled
  pc,       \* of a call: idle, direct, prepare, ready (db.Prepare returned),
            \* statement, or how it ended: done, failed, cut
  op,       \* exec or query
  way,      \* straight (db.Exec, db.Query), prepared (db.Prepare), and then running
  tries,    \* tries that failed for a bad connection
  failures, \* history: a call's tries that the real driver answered with an error
  log

vars == <<features, debug, pc, op, way, tries, failures, log>>

-----------------------------------------------------------------------------
Line(c, level) == [call |-> c, level |-> level]

Ended == {"done", "failed", "cut"}

TypeOK ==
  /\ features \subseteq Features
  /\ debug \in BOOLEAN
  /\ pc \in [Calls -> {"idle", "direct", "prepare", "ready", "statement"} \union Ended]
  /\ op \in [Calls -> {"exec", "query"}]
  /\ way \in [Calls -> {"straight", "prepared", "running"}]
  /\ tries \in [Calls -> 0..MaxTries]
  /\ failures \in [Calls -> Nat]
  /\ log \in Seq([call : Calls, level : {"warn", "debug"}])

Init ==
  /\ features \in SUBSET Features
  /\ debug \in BOOLEAN
  /\ pc = [c \in Calls |-> "idle"]
  /\ op = [c \in Calls |-> "exec"] /\ way = [c \in Calls |-> "straight"]
  /\ tries = [c \in Calls |-> 0] /\ failures = [c \in Calls |-> 0]
  /\ log = <<>>

Goto(c, p) == pc' = [pc EXCEPT ![c] = p]

\* Mutant: driver.ErrSkip counts as an error.
logSqlExec_Skips(c, err) ==
  log' = IF err # "nil" THEN Append(log, Line(c, "warn"))
         ELSE IF debug THEN Append(log, Line(c, "debug")) ELSE log

\* driver.ErrSkip is a signal to database/sql and no error.
logSqlExec(c, err) ==
  log' = IF err = "skip" THEN log
         ELSE IF err # "nil" THEN Append(log, Line(c, "warn"))
         ELSE IF debug THEN Append(log, Line(c, "debug")) ELSE log

(* database/sql after a try: an error ends the call, unless the connection   *)
(* was bad and there are tries left.                                         *)
Failed(c, err, again) ==
  /\ failures' = [failures EXCEPT ![c] = @ + 1]
  /\ \/ /\ err = "bad" /\ tries[c] + 1 < MaxTries
        /\ tries' = [tries EXCEPT ![c] = @ + 1]
        /\ \E place \in again : Goto(c, place)
     \/ /\ err = "error" \/ tries[c] + 1 = MaxTries
        /\ Goto(c, "failed")
        /\ UNCHANGED tries

Begin(c) ==
  /\ pc[c] = "idle"
  /\ \E o \in {"exec", "query"}, w \in {"straight", "prepared"} :
       /\ op' = [op EXCEPT ![c] = o]
       /\ way' = [way EXCEPT ![c] = w]
       /\ Goto(c, IF w = "straight" THEN "direct" ELSE "prepare")
  /\ UNCHANGED <<features, debug, tries, failures, log>>

(* logConn.ExecContext, logConn.QueryContext: a driver without them, and     *)
(* one that cannot run this statement so, is skipped.                        *)
Direct(c) ==
  /\ pc[c] = "direct"
  /\ IF (IF op[c] = "exec" THEN "ExecerContext" ELSE "QueryerContext") \notin features
     THEN Goto(c, "prepare") /\ UNCHANGED <<tries, failures, log>>
     ELSE \E err \in {"nil", "skip", "bad", "error"} :
            /\ logSqlExec(c, err)
            /\ CASE err = "nil" -> Goto(c, "done") /\ UNCHANGED <<tries, failures>>
                 [] err = "skip" -> Goto(c, "prepare") /\ UNCHANGED <<tries, failures>>
                 [] OTHER -> Failed(c, err, {"direct"})
  /\ UNCHANGED <<features, debug, op, way>>

\* Where a try begins on a connection, which may have the statement or not
\* when it was prepared before.
TryFrom(c) ==
  CASE way[c] = "straight" -> {"direct"}
    [] way[c] = "prepared" -> {"prepare"}
    [] OTHER -> {"prepare", "statement"}

\* logConn.PrepareContext: only a failure is logged.
Prepare(c) ==
  /\ pc[c] = "prepare"
  /\ \E err \in {"nil", "bad", "error"} :
       IF err = "nil"
       THEN /\ Goto(c, IF way[c] = "prepared" THEN "ready" ELSE "statement")
            /\ UNCHANGED <<tries, failures, log>>
       ELSE /\ logSqlExec(c, err)
            /\ Failed(c, err, TryFrom(c))
  /\ UNCHANGED <<features, debug, op, way>>

\* The prepared statement is run, with tries of its own, on a connection that
\* may not be the one it was prepared on.
RunPrepared(c) ==
  /\ pc[c] = "ready"
  /\ way' = [way EXCEPT ![c] = "running"]
  /\ tries' = [tries EXCEPT ![c] = 0]
  /\ \E place \in {"prepare", "statement"} : Goto(c, place)
  /\ UNCHANGED <<features, debug, op, failures, log>>

(* logStmt.ExecContext, logStmt.QueryContext; a statement without them is    *)
(* run by Exec or Query, which has no context to be cancelled by.            *)
Statement(c) ==
  /\ pc[c] = "statement"
  /\ \E err \in {"nil", "bad", "error", "cancelled"} :
       /\ err = "cancelled" => "StmtContext" \in features
       /\ logSqlExec(c, err)
       /\ IF err = "nil" THEN Goto(c, "done") /\ UNCHANGED <<tries, failures>>
          ELSE Failed(c, IF err = "bad" THEN "bad" ELSE "error", TryFrom(c))
  /\ UNCHANGED <<features, debug, op, way>>

\* The rows of a query that was logged as a success fail while they are read.
RowsFail(c) ==
  /\ pc[c] = "done" /\ op[c] = "query"
  /\ Goto(c, "cut")
  /\ UNCHANGED <<features, debug, op, way, tries, failures, log>>

SetDebug ==
  /\ debug' = ~debug
  /\ UNCHANGED <<features, pc, op, way, tries, failures, log>>

Next ==
  \/ SetDebug
  \/ \E c \in Calls : Begin(c) \/ Direct(c) \/ Prepare(c) \/ RunPrepared(c)
                      \/ Statement(c) \/ RowsFail(c)

Spec == Init /\ [][Next]_vars

-----------------------------------------------------------------------------
(* However a statement is run, skipped, prepared and tried again, the log    *)
(* has one entry for each of its tries: the driver implements StatementLog.  *)
State == [c \in Calls |-> IF pc[c] \in Ended \union {"idle"} THEN pc[c] ELSE "running"]

Log == INSTANCE StatementLog WITH state <- State
IsStatementLog == Log!Spec

=============================================================================
