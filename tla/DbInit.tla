------------------------------- MODULE DbInit -------------------------------
(***************************************************************************)
(* dbClient.Init of db-client/client.go: opening databases, with or without  *)
(* the logging driver, which the first Init that wants it registers with     *)
(* database/sql under a name of its own.  Nothing locks registeredLogDrivers. *)
(***************************************************************************)
EXTENDS Naturals

CONSTANTS
  Inits,       \* calls of Init
  Drivers,     \* those a caller may name
  Linked       \* the drivers that are registered: "mysql" and "postgres" and
               \* whatever else the program imports

ASSUME DbAssumption == {"mysql", "postgres"} \subseteq Linked

VARIABLES
  oneAtATime,  \* do the callers wait for each other: fixed by the program
  sqlDrivers,  \* of database/sql: what each name with "-with-log" wraps
  registered,  \* registeredLogDrivers
  dbPc,        \* what a call does next
  driver, showSql,   \* the configuration of a call
  handle       \* what a call returned

dbVars == <<oneAtATime, sqlDrivers, registered, dbPc, driver, showSql, handle>>

-----------------------------------------------------------------------------
\* A handle: the driver below it, "none" without one; does it log; the error.
Errors == {"none", "unknown driver", "unsupported", "connection"}
Handles == [driver : Linked \union {"none"}, logs : BOOLEAN, err : Errors]
Handle(d, logs, err) == [driver |-> d, logs |-> logs, err |-> err]
None == Handle("none", FALSE, "none")

\* The name of the wrapping driver, as a value that differs from Linked.
Names == {<<d, "with-log">> : d \in Drivers \union Linked}

PCs == {"idle", "check", "wrap", "register", "note", "open", "connect", "ping",
        "done", "panicked", "dead"}

DbTypeOK ==
  /\ oneAtATime \in BOOLEAN
  /\ DOMAIN sqlDrivers \subseteq Names /\ \A n \in DOMAIN sqlDrivers : sqlDrivers[n] \in Linked
  /\ registered \subseteq Names
  /\ dbPc \in [Inits -> PCs]
  /\ driver \in [Inits -> Drivers \union {"none"}]
  /\ showSql \in [Inits -> BOOLEAN]
  /\ handle \in [Inits -> Handles]

InitDb ==
  /\ oneAtATime \in BOOLEAN
  /\ sqlDrivers = <<>>
  /\ registered = {}
  /\ dbPc = [i \in Inits |-> "idle"]
  /\ driver = [i \in Inits |-> "none"] /\ showSql = [i \in Inits |-> FALSE]
  /\ handle = [i \in Inits |-> None]

Goto(i, p) == dbPc' = [dbPc EXCEPT ![i] = p]

logDriverName(d) == <<d, "with-log">>

\* A call of Init for driver d ("" is mysql).
Begin(i, d, show) ==
  /\ dbPc[i] = "idle"
  /\ oneAtATime => \A j \in Inits : dbPc[j] \in {"idle", "done", "panicked"}
  /\ driver' = [driver EXCEPT ![i] = d]
  /\ showSql' = [showSql EXCEPT ![i] = show]
  /\ Goto(i, IF show THEN "check" ELSE "connect")
  /\ UNCHANGED <<oneAtATime, sqlDrivers, registered, handle>>

\* Mutant: the wrapping driver is noted before it is registered.
Check_NotesFirst(i) ==
  /\ dbPc[i] = "check"
  /\ Goto(i, IF logDriverName(driver[i]) \in registered THEN "open" ELSE "wrap")
  /\ registered' = registered \union {logDriverName(driver[i])}
  /\ UNCHANGED <<oneAtATime, sqlDrivers, driver, showSql, handle>>

Check(i) ==
  /\ dbPc[i] = "check"
  /\ Goto(i, IF logDriverName(driver[i]) \in registered THEN "open" ELSE "wrap")
  /\ UNCHANGED <<oneAtATime, sqlDrivers, registered, driver, showSql, handle>>

\* sql.Open(driverName, "") only fails for an unknown driver.
Wrap(i) ==
  /\ dbPc[i] = "wrap"
  /\ Goto(i, IF driver[i] \in Linked THEN "register" ELSE "open")
  /\ UNCHANGED <<oneAtATime, sqlDrivers, registered, driver, showSql, handle>>

\* sql.Register panics for a name that is taken.
Register(i) ==
  LET n == logDriverName(driver[i]) IN
  /\ dbPc[i] = "register"
  /\ IF n \in DOMAIN sqlDrivers
     THEN Goto(i, "panicked") /\ UNCHANGED sqlDrivers
     ELSE /\ sqlDrivers' = [m \in DOMAIN sqlDrivers \cup {n} |->
                              IF m = n THEN driver[i] ELSE sqlDrivers[m]]
          /\ Goto(i, "note")
  /\ UNCHANGED <<oneAtATime, registered, driver, showSql, handle>>

Note(i) ==
  /\ dbPc[i] = "note"
  /\ registered' = registered \union {logDriverName(driver[i])}
  /\ Goto(i, "open")
  /\ UNCHANGED <<oneAtATime, sqlDrivers, driver, showSql, handle>>

(* A map written by one goroutine while another reads or writes it: the      *)
(* runtime may end the process.                                              *)
MapRace(i, j) ==
  /\ i # j /\ dbPc[i] = "note" /\ dbPc[j] \in {"note", "check"}
  /\ dbPc' = [k \in Inits |-> "dead"]
  /\ UNCHANGED <<oneAtATime, sqlDrivers, registered, driver, showSql, handle>>

Hand(i, h) ==
  /\ handle' = [handle EXCEPT ![i] = h]
  /\ Goto(i, "done")

\* With ShowSql: sql.Open of the wrapping driver connects to nothing yet.
Open(i) ==
  LET n == logDriverName(driver[i]) IN
  /\ dbPc[i] = "open"
  /\ IF n \in DOMAIN sqlDrivers
     THEN /\ handle' = [handle EXCEPT ![i] = Handle(sqlDrivers[n], TRUE, "none")]
          /\ Goto(i, "ping")
     ELSE Hand(i, Handle("none", FALSE, "unknown driver"))
  /\ UNCHANGED <<oneAtATime, sqlDrivers, registered, driver, showSql>>

\* Without: InitMysql or InitPostgres, which connect.
Connect(i) ==
  /\ dbPc[i] = "connect"
  /\ \/ /\ driver[i] \notin {"mysql", "postgres"}
        /\ Hand(i, Handle("none", FALSE, "unsupported"))
     \/ /\ driver[i] \in {"mysql", "postgres"}
        /\ Hand(i, Handle("none", FALSE, "connection"))
     \/ /\ driver[i] \in {"mysql", "postgres"}
        /\ handle' = [handle EXCEPT ![i] = Handle(driver[i], FALSE, "none")]
        /\ Goto(i, "ping")
  /\ UNCHANGED <<oneAtATime, sqlDrivers, registered, driver, showSql>>

\* The handle is returned with the error of Ping, if there is one.
Ping(i) ==
  /\ dbPc[i] = "ping"
  /\ \E err \in {"none", "connection"} :
       Hand(i, [handle[i] EXCEPT !.err = err])
  /\ UNCHANGED <<oneAtATime, sqlDrivers, registered, driver, showSql>>

DbNext ==
  \E i \in Inits :
    \/ \E d \in Drivers, s \in BOOLEAN : Begin(i, d, s)
    \/ Check(i) \/ Wrap(i) \/ Register(i) \/ Note(i) \/ Open(i) \/ Connect(i) \/ Ping(i)
    \/ \E j \in Inits : MapRace(i, j)

DbSpec == InitDb /\ [][DbNext]_dbVars

-----------------------------------------------------------------------------
(* A database that Init opened speaks to the driver that was named, and logs *)
(* its statements exactly if ShowSql asked for it.                           *)
OpensWhatWasAsked ==
  \A i \in Inits :
    handle[i].driver # "none" =>
      handle[i].driver = driver[i] /\ handle[i].logs = showSql[i]

(* Racing or not, an Init for a driver the program links never fails to find *)
(* its driver.                                                               *)
LinkedDriversOpen ==
  \A i \in Inits :
    handle[i].err \in {"unknown driver", "unsupported"} /\ driver[i] \in Linked
      => ~showSql[i] /\ driver[i] \notin {"mysql", "postgres"}

(* Callers that wait for each other can Init as often as they like.          *)
NoPanic == oneAtATime => \A i \in Inits : dbPc[i] \notin {"panicked", "dead"}

(* dbClient.Init: a handle speaks to the driver that was named and logs as   *)
(* it was asked to, no driver the program links goes missing however Inits   *)
(* race, and none of them panics when they wait for each other.              *)
DatabaseAsAsked == DbTypeOK /\ OpensWhatWasAsked /\ LinkedDriversOpen /\ NoPanic

(* Its inductive form.  A wrapping driver wraps the driver it is named after, *)
(* and what is noted as registered is registered, whoever did it; a call with *)
(* ShowSql opens by name only what is registered or not linked.              *)
Wrapping == {"check", "wrap", "register", "note", "open", "panicked"}
DriversInv ==
  /\ \A n \in DOMAIN sqlDrivers : n = logDriverName(sqlDrivers[n])
  /\ registered \subseteq DOMAIN sqlDrivers
  /\ \A i \in Inits :
       /\ dbPc[i] \in Wrapping => showSql[i]
       /\ dbPc[i] = "connect" => ~showSql[i]
       /\ dbPc[i] \in Wrapping \cup {"idle", "connect"} => handle[i] = None
       /\ dbPc[i] \in {"register", "note"} => driver[i] \in Linked
       /\ dbPc[i] = "note" => logDriverName(driver[i]) \in DOMAIN sqlDrivers
       /\ dbPc[i] = "open" /\ driver[i] \in Linked => logDriverName(driver[i]) \in DOMAIN sqlDrivers

(* When callers wait for each other one at most is under way, and only it can *)
(* have registered a driver that is not noted yet.                           *)
Resting == {"idle", "done", "panicked"}
OneAtATimeInv ==
  oneAtATime =>
    /\ \A i, j \in Inits : dbPc[i] \notin Resting /\ dbPc[j] \notin Resting => i = j
    /\ \A i \in Inits : dbPc[i] \in {"wrap", "register"} => logDriverName(driver[i]) \notin registered
    /\ \A n \in DOMAIN sqlDrivers :
         n \in registered \/ \E i \in Inits : dbPc[i] = "note" /\ n = logDriverName(driver[i])
=============================================================================
