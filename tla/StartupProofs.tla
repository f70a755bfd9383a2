---------------------------- MODULE StartupProofs ----------------------------
(***************************************************************************)
(* Proofs about the parts that keep package variables for the life of the  *)
(* process: Registration, for any number of clients, versions and          *)
(* strategies; DbInit, for any set of calls and of drivers; Translations,  *)
(* for any set of callers, languages, messages and directories.            *)
(***************************************************************************)
EXTENDS Registration, DbInit, Translations, TLAPS

-----------------------------------------------------------------------------
(* No client is closed and no service is marked.                            *)
LEMMA LifeInit == Init => LifeInv
  BY DEF Init, LifeInv, ServedUntilClosed, SubscribedIsServed

(* Only Subscribe marks a service, with a client that is open; only          *)
(* Unsubscribe takes a callback away, and it takes the mark with it; only    *)
(* CloseClient closes, and RegisterNacos leaves the old client alone.        *)
LEMMA LifeStep == LifeInv /\ [Next]_vars => LifeInv'
<1> SUFFICES ASSUME LifeInv, [Next]_vars
             PROVE  LifeInv'
  OBVIOUS
<1> USE DEF LifeInv, ServedUntilClosed, SubscribedIsServed, Live
<1>1. CASE RegistryChange
  BY <1>1 DEF RegistryChange, clientVars, cacheVars
<1>2. ASSUME NEW c \in Clients, Notify(c)
      PROVE  LifeInv'
  BY <1>2 DEF Notify, clientVars, cacheVars
<1>3. ASSUME NEW c \in Clients, RunCallback(c)
      PROVE  LifeInv'
  BY <1>3 DEF RunCallback, clientVars
<1>4. CASE CreateFails
  BY <1>4 DEF CreateFails, cacheVars, sdkVars
<1>5. CASE RegisterFails
  BY <1>5 DEF RegisterFails, NewClient, cacheVars, sdkVars
<1>6. CASE RegisterSucceeds
  BY <1>6 DEF RegisterSucceeds, NewClient, cacheVars, sdkVars
<1>7. CASE CloseClient
  BY <1>7 DEF CloseClient
<1>8. CASE Subscribe
  <2>1. CASE UNCHANGED <<subscribed, cached, listening, pushed>>
    BY <1>8, <2>1 DEF Subscribe, clientVars
  <2>2. CASE listening' = listening \cup {client}
    BY <1>8, <2>2 DEF Subscribe, clientVars
  <2> QED
    BY <1>8, <2>1, <2>2 DEF Subscribe
<1>9. CASE Unsubscribe
  BY <1>9 DEF Unsubscribe, clientVars
<1>10. CASE UNCHANGED vars
  BY <1>10 DEF vars, clientVars, cacheVars, sdkVars
<1> QED
  BY <1>1, <1>2, <1>3, <1>4, <1>5, <1>6, <1>7, <1>8, <1>9, <1>10 DEF Next

(* However often RegisterNacos runs, and wherever it fails, a service that   *)
(* is marked subscribed has an open client that tells it of its changes, and *)
(* its callback, until CloseClient is called.                                *)
THEOREM ServicesStayServed == Spec => []ServedUntilClosed
<1>1. LifeInv => ServedUntilClosed
  BY DEF LifeInv
<1> QED
  BY LifeInit, LifeStep, <1>1, PTL DEF Spec

-----------------------------------------------------------------------------
(* Opening databases *)

DbInv == DatabaseAsAsked /\ DriversInv /\ OneAtATimeInv

LEMMA NamesDiffer == \A d, e : logDriverName(d) = logDriverName(e) => d = e
  BY DEF logDriverName

LEMMA DbStart == InitDb => DbInv
<1> SUFFICES ASSUME InitDb PROVE DbInv
  OBVIOUS
<1>1. None \in Handles /\ None.driver = "none" /\ None.err = "none"
  BY DEF None, Handle, Handles, Errors
<1>2. sqlDrivers = <<>> /\ DOMAIN sqlDrivers = {}
  BY DEF InitDb
<1>3. DbTypeOK
  BY <1>1, <1>2 DEF InitDb, DbTypeOK, PCs, Handles
<1>4. \A i \in Inits : dbPc[i] = "idle" /\ handle[i] = None
  BY DEF InitDb
<1>5. OpensWhatWasAsked /\ LinkedDriversOpen /\ NoPanic
  BY <1>1, <1>4 DEF OpensWhatWasAsked, LinkedDriversOpen, NoPanic
<1>6. DriversInv
  BY <1>2, <1>4 DEF InitDb, DriversInv, Wrapping
<1>7. OneAtATimeInv
  BY <1>2, <1>4 DEF OneAtATimeInv, Resting
<1> QED BY <1>3, <1>5, <1>6, <1>7 DEF DbInv, DatabaseAsAsked

(* A step of one call that moves it on and leaves the drivers alone.        *)
LEMMA CallMoves ==
  ASSUME DbInv, NEW i \in Inits, NEW p \in PCs \ {"panicked", "dead", "note"}, Goto(i, p),
         UNCHANGED <<oneAtATime, sqlDrivers, registered, driver, showSql, handle>>,
         dbPc[i] \notin Resting \cup {"note"},
         p \in Wrapping => showSql[i],
         p # "idle" /\ (p = "connect" => ~showSql[i]),
         p \in Wrapping \cup {"connect"} => handle[i] = None,
         p = "register" => driver[i] \in Linked,
         p = "open" /\ driver[i] \in Linked => logDriverName(driver[i]) \in DOMAIN sqlDrivers,
         p \in {"wrap", "register"} /\ oneAtATime => logDriverName(driver[i]) \notin registered
  PROVE  DbInv'
<1> USE DEF DbInv, DatabaseAsAsked
<1>1. /\ dbPc' \in [Inits -> PCs] /\ dbPc'[i] = p
      /\ \A k \in Inits : k # i => dbPc'[k] = dbPc[k]
  BY DEF Goto, DbTypeOK
<1>2. DbTypeOK'
  BY <1>1 DEF DbTypeOK
<1>3. OpensWhatWasAsked' /\ LinkedDriversOpen' /\ NoPanic'
  BY <1>1 DEF OpensWhatWasAsked, LinkedDriversOpen, NoPanic
<1>4. DriversInv'
  <2>1. ASSUME NEW k \in Inits
        PROVE  /\ dbPc'[k] \in Wrapping => showSql[k]
               /\ dbPc'[k] = "connect" => ~showSql[k]
               /\ dbPc'[k] \in Wrapping \cup {"idle", "connect"} => handle[k] = None
               /\ dbPc'[k] \in {"register", "note"} => driver[k] \in Linked
               /\ dbPc'[k] = "note" => logDriverName(driver[k]) \in DOMAIN sqlDrivers
               /\ dbPc'[k] = "open" /\ driver[k] \in Linked
                    => logDriverName(driver[k]) \in DOMAIN sqlDrivers
    <3>1. CASE k = i
      BY <1>1, <3>1
    <3>2. CASE k # i
      BY <1>1, <3>2 DEF DriversInv
    <3> QED BY <3>1, <3>2
  <2> QED BY <2>1 DEF DriversInv
<1>5. OneAtATimeInv'
  <2> SUFFICES ASSUME oneAtATime PROVE OneAtATimeInv'
    BY DEF OneAtATimeInv
  <2>1. \A j, k \in Inits : dbPc'[j] \notin Resting /\ dbPc'[k] \notin Resting => j = k
    BY <1>1 DEF OneAtATimeInv
  <2>2. \A k \in Inits : dbPc'[k] \in {"wrap", "register"} => logDriverName(driver[k]) \notin registered
    BY <1>1 DEF OneAtATimeInv
  <2>3. \A n \in DOMAIN sqlDrivers :
          n \in registered \/ \E k \in Inits : dbPc'[k] = "note" /\ n = logDriverName(driver[k])
    BY <1>1 DEF OneAtATimeInv
  <2> QED BY <2>1, <2>2, <2>3 DEF OneAtATimeInv
<1> QED BY <1>2, <1>3, <1>4, <1>5

LEMMA BeginKeeps ==
  ASSUME DbInv, NEW i \in Inits, NEW d \in Drivers, NEW show \in BOOLEAN, Begin(i, d, show)
  PROVE  DbInv'
<1> USE DEF DbInv, DatabaseAsAsked
<1>1. /\ dbPc' \in [Inits -> PCs] /\ dbPc'[i] = (IF show THEN "check" ELSE "connect")
      /\ \A k \in Inits : k # i => dbPc'[k] = dbPc[k]
  BY DEF Begin, Goto, DbTypeOK, PCs
<1>2. /\ driver' \in [Inits -> Drivers \cup {"none"}] /\ showSql' \in [Inits -> BOOLEAN]
      /\ driver'[i] = d /\ showSql'[i] = show
      /\ \A k \in Inits : k # i => driver'[k] = driver[k] /\ showSql'[k] = showSql[k]
  BY DEF Begin, DbTypeOK
<1>3. UNCHANGED <<oneAtATime, sqlDrivers, registered, handle>> /\ dbPc[i] = "idle"
  BY DEF Begin
<1>4. handle[i] = None /\ None.driver = "none" /\ None.err = "none"
  BY <1>3 DEF DriversInv, None, Wrapping, Handle
<1>5. DbTypeOK'
  BY <1>1, <1>2, <1>3 DEF DbTypeOK
<1>6. OpensWhatWasAsked' /\ LinkedDriversOpen'
  BY <1>2, <1>3, <1>4 DEF OpensWhatWasAsked, LinkedDriversOpen
<1>7. NoPanic'
  BY <1>1, <1>3 DEF NoPanic
<1>8. DriversInv'
  <2>1. ASSUME NEW k \in Inits
        PROVE  /\ dbPc'[k] \in Wrapping => showSql'[k]
               /\ dbPc'[k] = "connect" => ~showSql'[k]
               /\ dbPc'[k] \in Wrapping \cup {"idle", "connect"} => handle[k] = None
               /\ dbPc'[k] \in {"register", "note"} => driver'[k] \in Linked
               /\ dbPc'[k] = "note" => logDriverName(driver'[k]) \in DOMAIN sqlDrivers
               /\ dbPc'[k] = "open" /\ driver'[k] \in Linked
                    => logDriverName(driver'[k]) \in DOMAIN sqlDrivers
    <3>1. CASE k = i
      BY <1>1, <1>2, <1>4, <3>1 DEF Wrapping
    <3>2. CASE k # i
      BY <1>1, <1>2, <3>2 DEF DriversInv
    <3> QED BY <3>1, <3>2
  <2> QED BY <1>3, <2>1 DEF DriversInv, logDriverName
<1>9. OneAtATimeInv'
  <2> SUFFICES ASSUME oneAtATime PROVE OneAtATimeInv'
    BY <1>3 DEF OneAtATimeInv
  <2>1. \A k \in Inits : dbPc[k] \in Resting
    BY DEF Begin, Resting
  <2>2. \A k \in Inits : dbPc'[k] \notin Resting => k = i
    BY <1>1, <2>1
  <2>3. \A n \in DOMAIN sqlDrivers : n \in registered
    BY <2>1 DEF OneAtATimeInv, Resting
  <2> QED BY <1>1, <1>3, <2>2, <2>3 DEF OneAtATimeInv, Resting
<1> QED BY <1>5, <1>6, <1>7, <1>8, <1>9

(* The checks of a call, and a name that turns out to be taken.              *)
LEMMA CheckKeeps ==
  ASSUME DbInv, NEW i \in Inits, Check(i) \/ Wrap(i)
  PROVE  DbInv'
<1> DEFINE n == logDriverName(driver[i])
<1>1. dbPc[i] \in {"check", "wrap"} /\ showSql[i] /\ handle[i] = None
  BY DEF Check, Wrap, DbInv, DriversInv, Wrapping
<1>2. UNCHANGED <<oneAtATime, sqlDrivers, registered, driver, showSql, handle>>
  BY DEF Check, Wrap
<1>3. CASE Check(i)
  <2>1. Goto(i, IF n \in registered THEN "open" ELSE "wrap") /\ (n \in registered => n \in DOMAIN sqlDrivers)
    BY <1>3 DEF Check, DbInv, DriversInv
  <2> QED BY <1>1, <1>2, <2>1, CallMoves DEF PCs, Wrapping, Resting
<1>4. CASE Wrap(i)
  <2>1. Goto(i, IF driver[i] \in Linked THEN "register" ELSE "open") /\ dbPc[i] = "wrap"
    BY <1>4 DEF Wrap
  <2>2. oneAtATime => n \notin registered
    BY <2>1 DEF DbInv, OneAtATimeInv
  <2> QED BY <1>1, <1>2, <2>1, <2>2, CallMoves DEF PCs, Wrapping, Resting
<1> QED BY <1>3, <1>4

(* sql.Register: the driver is there from now on, or the call panics, which  *)
(* it can only do if another registered it since the check.                  *)
LEMMA RegisterKeeps ==
  ASSUME DbInv, NEW i \in Inits, Register(i)
  PROVE  DbInv'
<1> DEFINE n == logDriverName(driver[i])
<1> USE DEF DbInv, DatabaseAsAsked
<1>1. dbPc[i] = "register" /\ UNCHANGED <<oneAtATime, registered, driver, showSql, handle>>
  BY DEF Register
<1>2. showSql[i] /\ handle[i] = None /\ driver[i] \in Linked
  BY <1>1 DEF DriversInv, Wrapping
<1>3. oneAtATime => n \notin DOMAIN sqlDrivers
  <2> SUFFICES ASSUME oneAtATime, n \in DOMAIN sqlDrivers PROVE FALSE
    OBVIOUS
  <2>1. n \notin registered
    BY <1>1 DEF OneAtATimeInv
  <2>2. PICK k \in Inits : dbPc[k] = "note"
    BY <2>1 DEF OneAtATimeInv
  <2>3. k = i
    BY <1>1, <2>2 DEF OneAtATimeInv, Resting
  <2> QED BY <1>1, <2>2, <2>3
<1>4. CASE n \in DOMAIN sqlDrivers
  <2>1. ~oneAtATime /\ UNCHANGED sqlDrivers /\ Goto(i, "panicked")
    BY <1>3, <1>4 DEF Register
  <2>2. /\ dbPc' \in [Inits -> PCs] /\ dbPc'[i] = "panicked"
        /\ \A k \in Inits : k # i => dbPc'[k] = dbPc[k]
    BY <2>1 DEF Goto, DbTypeOK, PCs
  <2>3. DbTypeOK'
    BY <1>1, <2>1, <2>2 DEF DbTypeOK
  <2>4. DriversInv'
    BY <1>1, <1>2, <2>1, <2>2 DEF DriversInv, Wrapping
  <2>5. OpensWhatWasAsked' /\ LinkedDriversOpen' /\ NoPanic' /\ OneAtATimeInv'
    BY <1>1, <2>1 DEF OpensWhatWasAsked, LinkedDriversOpen, NoPanic, OneAtATimeInv
  <2> QED BY <2>3, <2>4, <2>5
<1>5. CASE n \notin DOMAIN sqlDrivers
  <2>1. /\ sqlDrivers' = [m \in DOMAIN sqlDrivers \cup {n} |->
                            IF m = n THEN driver[i] ELSE sqlDrivers[m]]
        /\ Goto(i, "note")
    BY <1>5 DEF Register
  <2>2. /\ DOMAIN sqlDrivers' = DOMAIN sqlDrivers \cup {n} /\ sqlDrivers'[n] = driver[i]
        /\ \A m \in DOMAIN sqlDrivers : sqlDrivers'[m] = sqlDrivers[m]
    BY <1>5, <2>1
  <2>3. /\ dbPc' \in [Inits -> PCs] /\ dbPc'[i] = "note"
        /\ \A k \in Inits : k # i => dbPc'[k] = dbPc[k]
    BY <2>1 DEF Goto, DbTypeOK, PCs
  <2>4. n \in Names
    BY <1>2 DEF Names, logDriverName
  <2> HIDE DEF n
  <2>5. DbTypeOK'
    BY <1>1, <1>2, <2>2, <2>3, <2>4 DEF DbTypeOK
  <2>6. DriversInv'
    BY <1>1, <1>2, <2>2, <2>3 DEF DriversInv, Wrapping, n
  <2>7. OpensWhatWasAsked' /\ LinkedDriversOpen' /\ NoPanic'
    BY <1>1, <2>3 DEF OpensWhatWasAsked, LinkedDriversOpen, NoPanic
  <2>8. OneAtATimeInv'
    BY <1>1, <2>2, <2>3 DEF OneAtATimeInv, Resting, n
  <2> QED BY <2>5, <2>6, <2>7, <2>8
<1> QED BY <1>4, <1>5

LEMMA NoteKeeps ==
  ASSUME DbInv, NEW i \in Inits, Note(i)
  PROVE  DbInv'
<1> DEFINE n == logDriverName(driver[i])
<1> USE DEF DbInv, DatabaseAsAsked
<1>1. /\ dbPc[i] = "note" /\ registered' = registered \cup {n} /\ Goto(i, "open")
      /\ UNCHANGED <<oneAtATime, sqlDrivers, driver, showSql, handle>>
  BY DEF Note
<1>2. n \in DOMAIN sqlDrivers /\ showSql[i] /\ handle[i] = None
  BY <1>1 DEF DriversInv, Wrapping
<1>3. /\ dbPc' \in [Inits -> PCs] /\ dbPc'[i] = "open"
      /\ \A k \in Inits : k # i => dbPc'[k] = dbPc[k]
  BY <1>1 DEF Goto, DbTypeOK, PCs
<1>4. DbTypeOK'
  BY <1>1, <1>2, <1>3 DEF DbTypeOK
<1>5. DriversInv'
  BY <1>1, <1>2, <1>3 DEF DriversInv, Wrapping
<1>6. OpensWhatWasAsked' /\ LinkedDriversOpen' /\ NoPanic'
  BY <1>1, <1>3 DEF OpensWhatWasAsked, LinkedDriversOpen, NoPanic
<1>7. OneAtATimeInv'
  <2> SUFFICES ASSUME oneAtATime PROVE OneAtATimeInv'
    BY <1>1 DEF OneAtATimeInv
  <2>1. \A j, k \in Inits : dbPc'[j] \notin Resting /\ dbPc'[k] \notin Resting => j = k
    BY <1>1, <1>3 DEF OneAtATimeInv, Resting
  <2>2. \A k \in Inits : dbPc'[k] \notin {"wrap", "register"}
    BY <1>1, <1>3 DEF OneAtATimeInv, Resting
  <2>3. \A m \in DOMAIN sqlDrivers : m \in registered'
    <3> SUFFICES ASSUME NEW m \in DOMAIN sqlDrivers, m \notin registered PROVE m = n
      BY <1>1
    <3>1. PICK k \in Inits : dbPc[k] = "note" /\ m = logDriverName(driver[k])
      BY DEF OneAtATimeInv
    <3>2. k = i
      BY <1>1, <3>1 DEF OneAtATimeInv, Resting
    <3> QED BY <3>1, <3>2
  <2> QED BY <1>1, <2>1, <2>2, <2>3 DEF OneAtATimeInv
<1> QED BY <1>4, <1>5, <1>6, <1>7

(* A call that gets its handle, or the error instead of it.                  *)
LEMMA HandKeeps ==
  ASSUME DbInv, NEW i \in Inits, NEW p \in {"ping", "done"}, Goto(i, p),
         handle' \in [Inits -> Handles],
         \A k \in Inits : k # i => handle'[k] = handle[k],
         UNCHANGED <<oneAtATime, sqlDrivers, registered, driver, showSql>>,
         dbPc[i] \in {"open", "connect", "ping"},
         handle'[i].driver # "none" => handle'[i].driver = driver[i] /\ handle'[i].logs = showSql[i],
         handle'[i].err \in {"unknown driver", "unsupported"} /\ driver[i] \in Linked
           => ~showSql[i] /\ driver[i] \notin {"mysql", "postgres"}
  PROVE  DbInv'
<1> USE DEF DbInv, DatabaseAsAsked
<1>1. /\ dbPc' \in [Inits -> PCs] /\ dbPc'[i] = p
      /\ \A k \in Inits : k # i => dbPc'[k] = dbPc[k]
  BY DEF Goto, DbTypeOK, PCs
<1>3. DbTypeOK'
  BY <1>1 DEF DbTypeOK
<1>4. OpensWhatWasAsked' /\ LinkedDriversOpen'
  BY DEF OpensWhatWasAsked, LinkedDriversOpen
<1>5. NoPanic'
  BY <1>1 DEF NoPanic
<1>6. DriversInv'
  BY <1>1 DEF DriversInv, Wrapping
<1>7. OneAtATimeInv'
  BY <1>1 DEF OneAtATimeInv, Resting
<1> QED BY <1>3, <1>4, <1>5, <1>6, <1>7

LEMMA OpenKeeps ==
  ASSUME DbInv, NEW i \in Inits, Open(i)
  PROVE  DbInv'
<1> DEFINE n == logDriverName(driver[i])
<1>1. /\ dbPc[i] = "open" /\ UNCHANGED <<oneAtATime, sqlDrivers, registered, driver, showSql>>
  BY DEF Open
<1>2. showSql[i] = TRUE /\ (driver[i] \in Linked => n \in DOMAIN sqlDrivers)
  BY <1>1 DEF DbInv, DriversInv, Wrapping, DatabaseAsAsked, DbTypeOK
<1>3. handle \in [Inits -> Handles]
  BY DEF DbInv, DatabaseAsAsked, DbTypeOK
<1>4. CASE n \in DOMAIN sqlDrivers
  <2>1. sqlDrivers[n] = driver[i] /\ sqlDrivers[n] \in Linked
    BY <1>4, NamesDiffer DEF DbInv, DriversInv, DatabaseAsAsked, DbTypeOK
  <2>2. handle' = [handle EXCEPT ![i] = Handle(sqlDrivers[n], TRUE, "none")] /\ Goto(i, "ping")
    BY <1>4 DEF Open
  <2>3. /\ handle' \in [Inits -> Handles] /\ handle'[i].err = "none"
        /\ handle'[i].driver = driver[i] /\ handle'[i].logs = TRUE
        /\ \A k \in Inits : k # i => handle'[k] = handle[k]
    BY <1>3, <2>1, <2>2 DEF Handle, Handles, Errors
  <2> QED BY <1>1, <1>2, <2>2, <2>3, HandKeeps
<1>5. CASE n \notin DOMAIN sqlDrivers
  <2>1. handle' = [handle EXCEPT ![i] = Handle("none", FALSE, "unknown driver")] /\ Goto(i, "done")
    BY <1>5 DEF Open, Hand
  <2>2. /\ handle' \in [Inits -> Handles] /\ handle'[i].driver = "none"
        /\ \A k \in Inits : k # i => handle'[k] = handle[k]
    BY <1>3, <2>1 DEF Handle, Handles, Errors
  <2> QED BY <1>1, <1>2, <1>5, <2>1, <2>2, HandKeeps
<1> QED BY <1>4, <1>5

LEMMA ConnectKeeps ==
  ASSUME DbInv, NEW i \in Inits, Connect(i)
  PROVE  DbInv'
<1>1. /\ dbPc[i] = "connect" /\ UNCHANGED <<oneAtATime, sqlDrivers, registered, driver, showSql>>
  BY DEF Connect
<1>2. showSql[i] = FALSE /\ handle \in [Inits -> Handles]
  BY <1>1 DEF DbInv, DriversInv, DatabaseAsAsked, DbTypeOK
<1>3. CASE /\ driver[i] \notin {"mysql", "postgres"}
           /\ Hand(i, Handle("none", FALSE, "unsupported"))
  <2>1. /\ handle' \in [Inits -> Handles] /\ handle'[i].driver = "none"
        /\ \A k \in Inits : k # i => handle'[k] = handle[k]
    BY <1>2, <1>3 DEF Hand, Handle, Handles, Errors
  <2> QED BY <1>1, <1>2, <1>3, <2>1, HandKeeps DEF Hand
<1>4. CASE Hand(i, Handle("none", FALSE, "connection"))
  <2>1. /\ handle' \in [Inits -> Handles] /\ handle'[i].driver = "none"
        /\ handle'[i].err = "connection"
        /\ \A k \in Inits : k # i => handle'[k] = handle[k]
    BY <1>2, <1>4 DEF Hand, Handle, Handles, Errors
  <2> QED BY <1>1, <1>4, <2>1, HandKeeps DEF Hand
<1>5. CASE /\ driver[i] \in {"mysql", "postgres"}
           /\ handle' = [handle EXCEPT ![i] = Handle(driver[i], FALSE, "none")]
           /\ Goto(i, "ping")
  <2>1. driver[i] \in Linked
    BY <1>5, DbAssumption
  <2>2. /\ handle' \in [Inits -> Handles] /\ handle'[i].err = "none"
        /\ handle'[i].driver = driver[i] /\ handle'[i].logs = FALSE
        /\ \A k \in Inits : k # i => handle'[k] = handle[k]
    BY <1>2, <1>5, <2>1 DEF Handle, Handles, Errors
  <2> QED BY <1>1, <1>2, <1>5, <2>2, HandKeeps
<1> QED BY <1>3, <1>4, <1>5 DEF Connect

LEMMA PingKeeps ==
  ASSUME DbInv, NEW i \in Inits, Ping(i)
  PROVE  DbInv'
<1>1. /\ dbPc[i] = "ping" /\ UNCHANGED <<oneAtATime, sqlDrivers, registered, driver, showSql>>
  BY DEF Ping
<1>2. PICK err \in {"none", "connection"} : Hand(i, [handle[i] EXCEPT !.err = err])
  BY DEF Ping
<1>3. handle \in [Inits -> Handles] /\ OpensWhatWasAsked
  BY DEF DbInv, DatabaseAsAsked, DbTypeOK
<1>4. /\ handle' \in [Inits -> Handles] /\ handle'[i].err = err
      /\ handle'[i].driver = handle[i].driver /\ handle'[i].logs = handle[i].logs
      /\ \A k \in Inits : k # i => handle'[k] = handle[k]
  BY <1>2, <1>3 DEF Hand, Handles, Errors
<1>5. handle'[i].driver # "none" => handle'[i].driver = driver[i] /\ handle'[i].logs = showSql[i]
  BY <1>3, <1>4 DEF OpensWhatWasAsked
<1> QED BY <1>1, <1>2, <1>4, <1>5, HandKeeps DEF Hand

(* Two calls at the map at once, which callers that wait for each other      *)
(* never are.                                                               *)
LEMMA MapRaceKeeps ==
  ASSUME DbInv, NEW i \in Inits, NEW j \in Inits, MapRace(i, j)
  PROVE  DbInv'
<1> USE DEF DbInv, DatabaseAsAsked
<1>1. /\ dbPc' = [k \in Inits |-> "dead"]
      /\ UNCHANGED <<oneAtATime, sqlDrivers, registered, driver, showSql, handle>>
  BY DEF MapRace
<1>2. ~oneAtATime
  BY DEF MapRace, OneAtATimeInv, Resting
<1>3. DbTypeOK'
  BY <1>1 DEF DbTypeOK, PCs
<1>4. DriversInv'
  BY <1>1 DEF DriversInv, Wrapping
<1>5. OpensWhatWasAsked' /\ LinkedDriversOpen' /\ NoPanic' /\ OneAtATimeInv'
  BY <1>1, <1>2 DEF OpensWhatWasAsked, LinkedDriversOpen, NoPanic, OneAtATimeInv
<1> QED BY <1>3, <1>4, <1>5

LEMMA DbStep == DbInv /\ [DbNext]_dbVars => DbInv'
<1> SUFFICES ASSUME DbInv, [DbNext]_dbVars PROVE DbInv'
  OBVIOUS
<1>1. ASSUME NEW i \in Inits, NEW d \in Drivers, NEW s \in BOOLEAN, Begin(i, d, s)
      PROVE  DbInv'
  BY <1>1, BeginKeeps
<1>2. ASSUME NEW i \in Inits, Check(i) \/ Wrap(i) \/ Register(i) \/ Note(i)
      PROVE  DbInv'
  BY <1>2, CheckKeeps, RegisterKeeps, NoteKeeps
<1>3. ASSUME NEW i \in Inits, Open(i) \/ Connect(i) \/ Ping(i)
      PROVE  DbInv'
  BY <1>3, OpenKeeps, ConnectKeeps, PingKeeps
<1>4. ASSUME NEW i \in Inits, NEW j \in Inits, MapRace(i, j)
      PROVE  DbInv'
  BY <1>4, MapRaceKeeps
<1>5. CASE UNCHANGED dbVars
  BY <1>5 DEF dbVars, DbInv, DatabaseAsAsked, DbTypeOK, OpensWhatWasAsked, LinkedDriversOpen,
     NoPanic, DriversInv, OneAtATimeInv
<1> QED BY <1>1, <1>2, <1>3, <1>4, <1>5 DEF DbNext

(* However many calls of Init there are, whatever drivers they name and      *)
(* however they race, a handle speaks to the driver that was named and logs  *)
(* as asked, and no driver the program links goes missing; if the callers    *)
(* wait for each other none of them panics.                                  *)
THEOREM DatabasesAsAsked == DbSpec => []DatabaseAsAsked
<1>1. DbInv => DatabaseAsAsked
  BY DEF DbInv
<1> QED BY DbStart, DbStep, <1>1, PTL DEF DbSpec

-----------------------------------------------------------------------------
(* Messages and their translations *)

MessagesInv == KnownIsTranslated /\ LoadInv

LEMMA FilesAre ==
  \A dir \in Dirs : Count(dir) \in Nat /\ \A f \in 1..Count(dir) : Files[dir][f] \in Messages
<1> SUFFICES ASSUME NEW dir \in Dirs
             PROVE  Count(dir) \in Nat /\ \A f \in 1..Count(dir) : Files[dir][f] \in Messages
  OBVIOUS
<1>1. Files[dir] \in Seq(Messages)
  BY TranslationsAssumption DEF Dirs
<1> QED BY <1>1 DEF Count

LEMMA NoDirIsOne == "" \in Dirs /\ Chinese \in Langs
  BY Zenon, TranslationsAssumption

LEMMA MaxCallsIs == MaxCalls \in Nat
  BY Zenon, TranslationsAssumption

LEMMA RangeFromZero == ASSUME NEW n \in Nat PROVE 0 \in 0..n
  OBVIOUS

LEMMA MessagesStart == I18nInit => MessagesInv
<1> SUFFICES ASSUME I18nInit PROVE MessagesInv
  OBVIOUS
<1> USE NoDirIsOne
<1>1. I18nTypeOK
  <2>1. NoTexts \in [Langs -> [Ids -> Texts]] /\ Unknown \in Texts
    BY DEF NoTexts, Texts
  <2>2. answer \in [Callers -> [text : Texts, known : BOOLEAN]]
    BY <2>1 DEF I18nInit
  <2>3. 0 \in 0..Count("") /\ 0 \in 0..MaxCalls
    BY FilesAre, NoDirIsOne, MaxCallsIs, RangeFromZero, Zenon
  <2>4. asked \in [Callers -> Dirs]
    BY DEF I18nInit
  <2> QED BY <2>1, <2>2, <2>3, <2>4 DEF I18nInit, I18nTypeOK
<1>2. KnownIsThere /\ KnownIsAnswered /\ FailureToldOnce
  BY DEF I18nInit, KnownIsThere, KnownIsAnswered, FailureToldOnce
<1>3. LoadInv
  BY DEF I18nInit, LoadInv
<1> QED BY <1>1, <1>2, <1>3 DEF MessagesInv, KnownIsTranslated

(* A message that is put into the bundle takes none away.                   *)
LEMMA BundleGrows ==
  ASSUME I18nTypeOK, NEW m \in Messages, NEW text \in Texts \ {Unknown},
         bundle' = [bundle EXCEPT ![m.lang][m.id] = text]
  PROVE  /\ bundle' \in [Langs -> [Ids -> Texts]] /\ There(m)'
         /\ \A k \in Messages : There(k) => There(k)'
         /\ \A l \in Langs, i \in Ids : bundle[l][i] # Unknown => bundle'[l][i] # Unknown
<1>1. m.lang \in Langs /\ m.id \in Ids /\ bundle \in [Langs -> [Ids -> Texts]]
  BY DEF Messages, I18nTypeOK
<1>2. bundle' \in [Langs -> [Ids -> Texts]]
  BY <1>1
<1>3. bundle'[m.lang][m.id] = text
  BY <1>1
<1>4. \A l \in Langs, i \in Ids : bundle'[l][i] = text \/ bundle'[l][i] = bundle[l][i]
  BY <1>1
<1>5. \A k \in Messages : k.lang \in Langs /\ k.id \in Ids
  BY DEF Messages
<1> QED BY <1>2, <1>3, <1>4, <1>5 DEF There

LEMMA CallInitKeeps ==
  ASSUME MessagesInv, NEW c \in Callers, NEW dir \in Dirs, CallInit(c, dir)
  PROVE  MessagesInv'
<1> USE DEF MessagesInv, KnownIsTranslated
<1>1. /\ i18nPc' = [i18nPc EXCEPT ![c] = "once"] /\ result' = [result EXCEPT ![c] = "none"]
      /\ asked' = [asked EXCEPT ![c] = dir]
      /\ UNCHANGED <<bad, once, published, bundle, defaultLang, loadedDir, loaded>>
      /\ UNCHANGED <<errors, known, answer, calls>>
  BY DEF CallInit, bundleVars
<1>2. I18nTypeOK'
  BY <1>1 DEF I18nTypeOK
<1>3. \A d \in Callers :
        /\ i18nPc'[d] = "load" => i18nPc[d] = "load" /\ asked'[d] = asked[d]
        /\ result'[d] = "error" => result[d] = "error" /\ asked'[d] = asked[d]
  BY <1>1 DEF I18nTypeOK
<1>4. KnownIsThere' /\ KnownIsAnswered' /\ FailureToldOnce'
  BY <1>1, <1>3 DEF KnownIsThere, KnownIsAnswered, FailureToldOnce, There, Broken, IsBad
<1>5. LoadInv'
  BY <1>1, <1>3 DEF LoadInv, There, IsBad
<1> QED BY <1>2, <1>4, <1>5

(* The first Init: nobody counts on a message before there is a bundle.      *)
LEMMA DoKeeps ==
  ASSUME MessagesInv, NEW c \in Callers, NEW lang \in Langs, Do(c, lang)
  PROVE  MessagesInv'
<1> USE DEF MessagesInv, KnownIsTranslated
<1>1. /\ once = "new" /\ once' = "running" /\ loadedDir' = asked[c] /\ loaded' = 0
      /\ defaultLang' = lang /\ published' = TRUE /\ bundle' = NoTexts
      /\ i18nPc' = [i18nPc EXCEPT ![c] = "load"]
      /\ UNCHANGED <<bad, asked, result, errors, known, answer, calls>>
  BY DEF Do, Unused
<1>2. I18nTypeOK'
  <2>1. asked[c] \in Dirs /\ 0 \in 0..Count(asked[c])
    BY FilesAre DEF I18nTypeOK
  <2>2. NoTexts \in [Langs -> [Ids -> Texts]]
    BY DEF NoTexts, Texts
  <2> QED BY <1>1, <2>1, <2>2 DEF I18nTypeOK
<1>3. \A d \in Callers : known[d] = {} /\ i18nPc[d] # "load" /\ result[d] # "error"
  BY <1>1 DEF LoadInv
<1>4. KnownIsThere' /\ KnownIsAnswered' /\ FailureToldOnce'
  BY <1>1, <1>3 DEF KnownIsThere, KnownIsAnswered, FailureToldOnce
<1>5. \A d \in Callers : i18nPc'[d] = "load" <=> d = c
  BY <1>1, <1>3 DEF I18nTypeOK
<1>6. LoadInv'
  BY <1>1, <1>5 DEF LoadInv
<1> QED BY <1>2, <1>4, <1>6

(* What the end of an Init gives its caller to count on.                    *)
LEMMA EndOfInit ==
  ASSUME I18nTypeOK, NEW c \in Callers, NEW r \in {"nil", "error"}, End(c, r)
  PROVE  /\ i18nPc' \in [Callers -> {"idle", "once", "load"}] /\ i18nPc'[c] = "idle"
         /\ \A d \in Callers : d # c => i18nPc'[d] = i18nPc[d] /\ result'[d] = result[d]
         /\ result' \in [Callers -> {"none", "nil", "error"}] /\ result'[c] = r
         /\ errors' = IF r = "error" THEN errors + 1 ELSE errors
         /\ known' \in [Callers -> SUBSET Messages]
         /\ \A d \in Callers : \A m \in known'[d] : m \in known[d] \cup FilesOf(loadedDir)
<1>1. FilesOf(loadedDir) \subseteq Messages
  BY FilesAre DEF FilesOf, I18nTypeOK
<1>2. /\ i18nPc' = [i18nPc EXCEPT ![c] = "idle"] /\ result' = [result EXCEPT ![c] = r]
      /\ errors' = IF r = "error" THEN errors + 1 ELSE errors
      /\ known' = [known EXCEPT ![c] =
                     IF asked[c] = loadedDir THEN @ \cup FilesOf(loadedDir) ELSE @]
  BY DEF End
<1>3. known' \in [Callers -> SUBSET Messages]
  BY <1>1, <1>2 DEF I18nTypeOK
<1>4. \A d \in Callers : \A m \in known'[d] : m \in known[d] \cup FilesOf(loadedDir)
  BY <1>2 DEF I18nTypeOK
<1> QED BY <1>2, <1>3, <1>4 DEF I18nTypeOK

(* The walk that has ended has got past every file before the first bad one. *)
LEMMA WalkedAll ==
  ASSUME I18nTypeOK, published, LoadInv,
         loaded = Count(loadedDir) \/ IsBad(loadedDir, loaded + 1)
  PROVE  \A m \in FilesOf(loadedDir) : There(m)
<1> SUFFICES ASSUME NEW m \in FilesOf(loadedDir) PROVE There(m)
  OBVIOUS
<1>1. PICK f \in 1..Count(loadedDir) :
        /\ m = Files[loadedDir][f] /\ \A h \in 1..f : ~IsBad(loadedDir, h)
  BY DEF FilesOf
<1>2. Count(loadedDir) \in Nat /\ loaded \in 0..Count(loadedDir)
  BY FilesAre DEF I18nTypeOK
<1>3. f \in 1..loaded
  <2>1. CASE loaded = Count(loadedDir)
    BY <2>1
  <2>2. CASE IsBad(loadedDir, loaded + 1)
    <3>1. loaded + 1 \notin 1..f
      BY <1>1, <2>2
    <3> QED BY <1>2, <3>1
  <2> QED BY <2>1, <2>2
<1> QED BY <1>1, <1>3 DEF LoadInv

(* An Init that finds another's done may count on its files as well, if they *)
(* are those it asked for.                                                   *)
LEMMA DoNothingKeeps ==
  ASSUME MessagesInv, NEW c \in Callers, DoNothing(c)
  PROVE  MessagesInv'
<1> USE DEF MessagesInv, KnownIsTranslated
<1>1. /\ once = "done" /\ End(c, "nil")
      /\ UNCHANGED <<bad, once, published, bundle, defaultLang, loadedDir, loaded>>
      /\ UNCHANGED <<asked, answer, calls>>
  BY DEF DoNothing, Done, bundleVars
<1>2. errors' = errors
  BY <1>1, EndOfInit
<1>3. I18nTypeOK'
  BY <1>1, <1>2, EndOfInit DEF I18nTypeOK
<1>4. published /\ \A m \in FilesOf(loadedDir) : There(m)
  BY <1>1, WalkedAll DEF LoadInv
<1>5. \A d \in Callers : \A m \in known'[d] : There(m)
  BY <1>1, <1>4, EndOfInit DEF KnownIsThere
<1>9. \A d \in Callers : result'[d] = "error" => result[d] = "error"
  BY <1>1, EndOfInit
<1>6. KnownIsThere' /\ KnownIsAnswered' /\ FailureToldOnce'
  BY <1>1, <1>2, <1>5, <1>9 DEF KnownIsThere, KnownIsAnswered, FailureToldOnce, There, Broken, IsBad
<1>7. \A d \in Callers : i18nPc'[d] = "load" => i18nPc[d] = "load"
  BY <1>1, EndOfInit
<1>8. LoadInv'
  BY <1>1, <1>4, <1>7 DEF LoadInv, There, IsBad
<1> QED BY <1>3, <1>6, <1>8

(* The walk: one more file, or its end.                                     *)
LEMMA LoadKeeps ==
  ASSUME MessagesInv, NEW c \in Callers, loadMessageFiles(c)
  PROVE  MessagesInv'
<1> USE DEF MessagesInv, KnownIsTranslated
<1>1. i18nPc[c] = "load" /\ UNCHANGED <<bad, published, defaultLang, loadedDir, asked, answer, calls>>
  BY DEF loadMessageFiles
<1>2. once = "running" /\ published /\ errors = 0 /\ asked[c] = loadedDir
  BY <1>1 DEF LoadInv, FailureToldOnce
<1>8. Count(loadedDir) \in Nat /\ loaded \in 0..Count(loadedDir)
  BY FilesAre DEF I18nTypeOK
<1>3. CASE loaded # Count(loadedDir) /\ ~IsBad(loadedDir, loaded + 1)
  <2>2. loaded + 1 \in 1..Count(loadedDir) /\ loaded \in Nat /\ Files[loadedDir][loaded + 1] \in Messages
    <3>1. loaded + 1 \in 1..Count(loadedDir) /\ loaded \in Nat
      BY <1>3, <1>8
    <3>2. loadedDir \in Dirs
      BY DEF I18nTypeOK
    <3> QED BY <3>1, <3>2, FilesAre, Zenon
  <2>. PICK m \in Messages : m = Files[loadedDir][loaded + 1]
    BY <2>2
  <2>1. /\ loaded' = loaded + 1 /\ UNCHANGED <<once, i18nPc, result, errors, known>>
        /\ bundle' = [bundle EXCEPT ![m.lang][m.id] = "file"]
    BY <1>1, <1>3 DEF loadMessageFiles, LoadMessageFile
  <2>0. "file" \in Texts \ {Unknown}
    BY DEF Texts, Unknown
  <2>3. /\ bundle' \in [Langs -> [Ids -> Texts]] /\ There(m)'
        /\ \A k \in Messages : There(k) => There(k)'
    BY <2>0, <2>1, BundleGrows
  <2>4. I18nTypeOK'
    BY <1>1, <1>8, <2>1, <2>2, <2>3 DEF I18nTypeOK
  <2>5. KnownIsThere'
    BY <2>1, <2>3 DEF KnownIsThere, I18nTypeOK
  <2>6. KnownIsAnswered' /\ FailureToldOnce'
    BY <1>1, <1>2, <2>1 DEF KnownIsAnswered, FailureToldOnce
  <2>7. \A f \in 1..loaded' : There(Files[loadedDir][f])' /\ ~IsBad(loadedDir, f)
    <3> SUFFICES ASSUME NEW f \in 1..(loaded + 1)
                 PROVE  There(Files[loadedDir][f])' /\ ~IsBad(loadedDir, f)
      BY <2>1
    <3>1. CASE f = loaded + 1
      BY <1>1, <1>3, <2>3, <3>1
    <3>2. CASE f # loaded + 1
      <4>1. f \in 1..loaded /\ f \in 1..Count(loadedDir)
        BY <1>8, <2>2, <3>2
      <4>2. There(Files[loadedDir][f]) /\ ~IsBad(loadedDir, f) /\ Files[loadedDir][f] \in Messages
        BY <1>2, <4>1, FilesAre DEF LoadInv, I18nTypeOK
      <4> QED BY <1>1, <2>3, <4>2
    <3> QED BY <3>1, <3>2
  <2>8. LoadInv'
    BY <1>1, <1>2, <2>1, <2>7 DEF LoadInv, IsBad
  <2> QED BY <2>4, <2>5, <2>6, <2>8
<1>4. ASSUME NEW r \in {"nil", "error"}, End(c, r), once' = "done", UNCHANGED <<loaded, bundle>>,
             loaded = Count(loadedDir) \/ IsBad(loadedDir, loaded + 1),
             Broken(loadedDir) <=> r = "error"
      PROVE  MessagesInv'
  <2>1. errors' = IF Broken(loadedDir) THEN 1 ELSE 0
    BY <1>2, <1>4, EndOfInit
  <2>2. I18nTypeOK'
    BY <1>1, <1>4, <2>1, EndOfInit DEF I18nTypeOK
  <2>7. \A m \in FilesOf(loadedDir) : There(m)
    BY <1>2, <1>4, WalkedAll
  <2>3. \A d \in Callers : \A m \in known'[d] : There(m)
    BY <1>4, <2>7, EndOfInit DEF KnownIsThere
  <2>8. \A d \in Callers : result'[d] = "error" => asked[d] = loadedDir
    BY <1>2, <1>4, EndOfInit DEF FailureToldOnce
  <2>4. KnownIsThere' /\ KnownIsAnswered' /\ FailureToldOnce'
    BY <1>1, <1>4, <2>1, <2>3, <2>8
       DEF KnownIsThere, KnownIsAnswered, FailureToldOnce, There, Broken, IsBad
  <2>5. \A d \in Callers : i18nPc'[d] # "load"
    BY <1>1, <1>4, EndOfInit DEF LoadInv
  <2>6. LoadInv'
    BY <1>1, <1>2, <1>4, <2>5 DEF LoadInv, There, IsBad
  <2> QED BY <2>2, <2>4, <2>6
<1>5. CASE loaded = Count(loadedDir)
  <2>1. ~Broken(loadedDir)
    BY <1>2, <1>5 DEF LoadInv, Broken
  <2>2. End(c, "nil") /\ once' = "done" /\ UNCHANGED <<loaded, bundle>>
    BY <1>1, <1>5 DEF loadMessageFiles
  <2> QED BY <1>4, <1>5, <2>1, <2>2
<1>6. CASE loaded # Count(loadedDir) /\ IsBad(loadedDir, loaded + 1)
  <2>1. End(c, "error") /\ once' = "done" /\ UNCHANGED <<loaded, bundle>>
    BY <1>1, <1>6 DEF loadMessageFiles, LoadFails
  <2>2. Broken(loadedDir)
    <3>1. loaded + 1 \in 1..Count(loadedDir)
      BY <1>6, <1>8
    <3> QED BY <1>6, <3>1 DEF Broken
  <2> QED BY <1>4, <1>6, <2>1, <2>2
<1> QED BY <1>3, <1>5, <1>6

LEMMA CallCounted ==
  ASSUME I18nTypeOK, calls < MaxCalls, calls' = calls + 1
  PROVE  calls' \in 0..MaxCalls
  BY MaxCallsIs DEF I18nTypeOK

LEMMA AnswerNoted ==
  ASSUME NEW text \in Texts, NEW m, NEW S
  PROVE  [text |-> text, known |-> m \in S] \in [text : Texts, known : BOOLEAN]
  OBVIOUS

LEMMA RegisterMessageKeeps ==
  ASSUME MessagesInv, NEW c \in Callers, NEW m \in Messages, RegisterMessage(c, m)
  PROVE  MessagesInv'
<1> USE DEF MessagesInv, KnownIsTranslated
<1>1. /\ calls < MaxCalls /\ calls' = calls + 1
      /\ UNCHANGED <<bad, once, published, defaultLang, loadedDir, loaded>>
      /\ UNCHANGED <<i18nPc, asked, result, errors, answer>>
  BY DEF RegisterMessage
<1>2. calls' \in 0..MaxCalls
  BY <1>1, CallCounted
<1>3. CASE published
  <2>1. /\ bundle' = [bundle EXCEPT ![m.lang][m.id] = "own"]
        /\ known' = [known EXCEPT ![c] = @ \cup {m}]
    BY <1>3 DEF RegisterMessage
  <2>0. "own" \in Texts \ {Unknown}
    BY DEF Texts, Unknown
  <2>2. /\ bundle' \in [Langs -> [Ids -> Texts]] /\ There(m)'
        /\ \A k \in Messages : There(k) => There(k)'
    BY <2>0, <2>1, BundleGrows
  <2>3. known' \in [Callers -> SUBSET Messages]
    BY <2>1 DEF I18nTypeOK
  <2>4. I18nTypeOK'
    BY <1>1, <1>2, <2>2, <2>3 DEF I18nTypeOK
  <2>5. \A d \in Callers : \A k \in known'[d] : k \in known[d] \/ k = m
    BY <2>1 DEF I18nTypeOK
  <2>6. KnownIsThere'
    BY <2>2, <2>3, <2>5 DEF KnownIsThere, I18nTypeOK
  <2>7. KnownIsAnswered' /\ FailureToldOnce'
    BY <1>1 DEF KnownIsAnswered, FailureToldOnce, Broken, IsBad
  <2>8. \A f \in 1..loaded : There(Files[loadedDir][f])'
    <3> SUFFICES ASSUME NEW f \in 1..loaded PROVE There(Files[loadedDir][f])'
      OBVIOUS
    <3>1. f \in 1..Count(loadedDir) /\ loadedDir \in Dirs
      BY FilesAre DEF I18nTypeOK
    <3>2. There(Files[loadedDir][f]) /\ Files[loadedDir][f] \in Messages
      BY <1>3, <3>1, FilesAre DEF LoadInv
    <3> QED BY <1>1, <2>2, <3>2
  <2>9. LoadInv'
    BY <1>1, <1>3, <2>8 DEF LoadInv, IsBad
  <2> QED BY <2>4, <2>6, <2>7, <2>9
<1>4. CASE ~published
  <2>1. UNCHANGED <<bundle, known>>
    BY <1>4 DEF RegisterMessage
  <2>2. I18nTypeOK'
    BY <1>1, <1>2, <2>1 DEF I18nTypeOK
  <2>3. KnownIsThere' /\ KnownIsAnswered' /\ FailureToldOnce' /\ LoadInv'
    BY <1>1, <2>1
       DEF KnownIsThere, KnownIsAnswered, FailureToldOnce, LoadInv, There, Broken, IsBad
  <2> QED BY <2>2, <2>3
<1> QED BY <1>3, <1>4

(* A question about a message its caller may count on, in its own language   *)
(* or the default one, has the bundle's text for an answer.                 *)
LEMMA TranslateKeeps ==
  ASSUME MessagesInv, NEW c \in Callers, NEW lang \in Langs \cup {""}, NEW id \in Ids,
         Translate(c, id, lang)
  PROVE  MessagesInv'
<1> DEFINE l == LangOf(lang)
           question == [lang |-> l, id |-> id]
<1> USE DEF MessagesInv, KnownIsTranslated
<1>10. calls' \in 0..MaxCalls
  <2>1. calls < MaxCalls /\ calls' = calls + 1
    BY DEF Translate
  <2> QED BY <2>1, CallCounted
<1>1. /\ UNCHANGED <<bad, once, published, bundle, defaultLang, loadedDir, loaded>>
      /\ UNCHANGED <<i18nPc, asked, result, errors, known>>
  BY DEF Translate, bundleVars
<1>2. PICK text \in {Unknown, bundle[l][id], bundle[defaultLang][id]} :
        /\ published /\ bundle[l][id] # Unknown => text = bundle[l][id]
        /\ answer' = [answer EXCEPT ![c] = [text |-> text, known |-> question \in known[c]]]
  BY DEF Translate, LangOf
<1>3. l \in Langs /\ defaultLang \in Langs
  BY DEF LangOf, I18nTypeOK
<1>4. text \in Texts
  <2>1. bundle[l][id] \in Texts /\ bundle[defaultLang][id] \in Texts
    <3>1. bundle \in [Langs -> [Ids -> Texts]]
      BY DEF I18nTypeOK
    <3> HIDE DEF l
    <3> QED BY <1>3, <3>1
  <2>2. Unknown \in Texts
    BY DEF Texts
  <2> QED BY <2>1, <2>2
<1>5. answer' \in [Callers -> [text : Texts, known : BOOLEAN]]
  <2>1. [text |-> text, known |-> question \in known[c]] \in [text : Texts, known : BOOLEAN]
    <3> HIDE DEF question
    <3> QED BY <1>4, AnswerNoted, Zenon
  <2> HIDE DEF question
  <2> QED BY <1>2, <2>1 DEF I18nTypeOK
<1>6. I18nTypeOK'
  BY <1>1, <1>5, <1>10 DEF I18nTypeOK
<1>7. question \in known[c] => text # Unknown
  <2> SUFFICES ASSUME question \in known[c] PROVE text # Unknown
    OBVIOUS
  <2>1. published /\ There(question)
    BY DEF LoadInv, KnownIsThere
  <2> QED BY <1>2, <2>1 DEF There
<1>8. KnownIsAnswered'
  BY <1>2, <1>7 DEF KnownIsAnswered, I18nTypeOK
<1>9. KnownIsThere' /\ FailureToldOnce' /\ LoadInv'
  BY <1>1 DEF KnownIsThere, FailureToldOnce, LoadInv, There, Broken, IsBad
<1> QED BY <1>6, <1>8, <1>9

LEMMA MessagesStep == MessagesInv /\ [I18nNext]_i18nVars => MessagesInv'
<1> SUFFICES ASSUME MessagesInv, [I18nNext]_i18nVars PROVE MessagesInv'
  OBVIOUS
<1>1. ASSUME NEW c \in Callers, (\E dir \in Dirs : CallInit(c, dir)) \/ InitSteps(c)
      PROVE  MessagesInv'
  BY <1>1, CallInitKeeps, DoKeeps, DoNothingKeeps, LoadKeeps DEF InitSteps
<1>2. ASSUME NEW c \in Callers, NEW m \in Messages, RegisterMessage(c, m)
      PROVE  MessagesInv'
  BY <1>2, RegisterMessageKeeps
<1>3. ASSUME NEW c \in Callers, NEW lang \in Langs \cup {""}, NEW id \in Ids,
             Translate(c, id, lang)
      PROVE  MessagesInv'
  BY <1>3, TranslateKeeps
<1>4. CASE UNCHANGED i18nVars
  BY <1>4 DEF i18nVars, bundleVars, MessagesInv, KnownIsTranslated, I18nTypeOK, KnownIsThere,
     KnownIsAnswered, FailureToldOnce, LoadInv, There, Broken, IsBad
<1> QED BY <1>1, <1>2, <1>3, <1>4 DEF I18nNext

(* For all directories, broken or not, and any callers, each with a          *)
(* directory of its own: what a caller registered, or what is good of the    *)
(* directory its Init asked for when that is the one that is loaded, is      *)
(* there and is what Translate answers; a broken one is told to one caller. *)
THEOREM KnownStaysTranslated == I18nSpec => []KnownIsTranslated
<1>1. MessagesInv => KnownIsTranslated
  BY DEF MessagesInv
<1> QED BY MessagesStart, MessagesStep, <1>1, PTL DEF I18nSpec

(* No step takes the bundle, its default language or a message of it away.   *)
THEOREM BundleNeverShrinks == I18nSpec => BundleStays
<1> DEFINE Stays == published =>
             /\ defaultLang' = defaultLang
             /\ \A l \in Langs, i \in Ids : bundle[l][i] # Unknown => bundle'[l][i] # Unknown
<1>1. ASSUME MessagesInv, I18nNext, published
      PROVE  /\ defaultLang' = defaultLang
             /\ \A l \in Langs, i \in Ids : bundle[l][i] # Unknown => bundle'[l][i] # Unknown
  <2> USE DEF MessagesInv, KnownIsTranslated
  <2>1. ASSUME NEW c \in Callers, NEW lang \in Langs, Do(c, lang)
        PROVE  FALSE
    BY <1>1, <2>1 DEF Do, Unused, LoadInv
  <2>2. ASSUME NEW c \in Callers, NEW m \in Messages, RegisterMessage(c, m)
        PROVE  /\ defaultLang' = defaultLang
               /\ \A l \in Langs, i \in Ids : bundle[l][i] # Unknown => bundle'[l][i] # Unknown
    <3>1. bundle' = [bundle EXCEPT ![m.lang][m.id] = "own"]
      BY <1>1, <2>2 DEF RegisterMessage
    <3> QED BY <1>1, <2>2, <3>1, BundleGrows DEF RegisterMessage, Texts, Unknown
  <2>3. ASSUME NEW c \in Callers, loadMessageFiles(c)
        PROVE  /\ defaultLang' = defaultLang
               /\ \A l \in Langs, i \in Ids : bundle[l][i] # Unknown => bundle'[l][i] # Unknown
    <3>1. CASE UNCHANGED bundle
      BY <2>3, <3>1 DEF loadMessageFiles
    <3>2. CASE LoadMessageFile(c) /\ loaded # Count(loadedDir)
      <4>1. loaded + 1 \in 1..Count(loadedDir) /\ Files[loadedDir][loaded + 1] \in Messages
        <5>1. loadedDir \in Dirs /\ loaded \in 0..Count(loadedDir)
          BY <1>1 DEF I18nTypeOK
        <5>2. Count(loadedDir) \in Nat
          BY <5>1, FilesAre, Zenon
        <5>3. loaded + 1 \in 1..Count(loadedDir)
          BY <3>2, <5>1, <5>2
        <5> QED BY <5>1, <5>3, FilesAre, Zenon
      <4>. PICK m \in Messages : m = Files[loadedDir][loaded + 1]
        BY <4>1
      <4>2. bundle' = [bundle EXCEPT ![m.lang][m.id] = "file"]
        BY <3>2 DEF LoadMessageFile
      <4> QED BY <1>1, <2>3, <4>2, BundleGrows DEF loadMessageFiles, Texts, Unknown
    <3> QED BY <2>3, <3>1, <3>2 DEF loadMessageFiles, LoadFails
  <2>4. ASSUME UNCHANGED <<defaultLang, bundle>>
        PROVE  /\ defaultLang' = defaultLang
               /\ \A l \in Langs, i \in Ids : bundle[l][i] # Unknown => bundle'[l][i] # Unknown
    BY <2>4
  <2>5. PICK c \in Callers :
          \/ (\E dir \in Dirs : CallInit(c, dir)) \/ InitSteps(c)
          \/ \E m \in Messages : RegisterMessage(c, m)
          \/ \E lang \in Langs \cup {""}, id \in Ids : Translate(c, id, lang)
    BY <1>1 DEF I18nNext
  <2>6. CASE (\E dir \in Dirs : CallInit(c, dir)) \/ DoNothing(c)
    BY <2>4, <2>6 DEF CallInit, DoNothing, bundleVars
  <2>7. CASE \E lang \in Langs \cup {""}, id \in Ids : Translate(c, id, lang)
    BY <2>4, <2>7 DEF Translate, bundleVars
  <2> QED BY <2>1, <2>2, <2>3, <2>5, <2>6, <2>7 DEF InitSteps
<1>2. MessagesInv /\ [I18nNext]_i18nVars => [Stays]_i18nVars
  BY <1>1
<1>3. I18nSpec => []MessagesInv
  BY MessagesStart, MessagesStep, PTL DEF I18nSpec
<1> QED BY <1>2, <1>3, PTL DEF I18nSpec, BundleStays
=============================================================================
