--------------------------- MODULE RecordsProofs ---------------------------
(***************************************************************************)
(* Proofs about the parts that look at what passes through them: SqlLog,   *)
(* for any number of calls and tries; GinLogger, for any requests and      *)
(* configurations; AntPathMatcher, for any callers and patterns.           *)
(***************************************************************************)
EXTENDS SqlLog, GinLogger, AntPathMatcher, SequenceTheorems, TLAPS

LogLines == Seq([call : Calls, level : {"warn", "debug"}])
Errors == {"nil", "skip", "bad", "error", "cancelled"}

LEMMA LogTyped ==
  ASSUME log \in LogLines, debug \in BOOLEAN, NEW c \in Calls, NEW err \in Errors,
         logSqlExec(c, err)
  PROVE  log' \in LogLines
<1> DEFINE E == [call : Calls, level : {"warn", "debug"}]
<1>1. Line(c, "warn") \in E /\ Line(c, "debug") \in E
  BY DEF Line
<1>2. log \in Seq(E)
  BY DEF LogLines
<1> HIDE DEF E
<1>3. log' \in Seq(E)
  BY <1>1, <1>2 DEF logSqlExec
<1> QED BY <1>3 DEF LogLines, E

\* Where a try may begin.
Places == {"direct", "prepare", "statement"}

LEMMA FailedTyped ==
  ASSUME TypeOK, NEW c \in Calls, NEW err, NEW p \in SUBSET Places,
         Failed(c, err, p)
  PROVE  /\ pc' \in [Calls -> {"idle", "direct", "prepare", "ready", "statement"}
                              \union Ended]
         /\ tries' \in [Calls -> 0..MaxTries]
         /\ failures' \in [Calls -> Nat]
<1>1. failures' \in [Calls -> Nat]
  BY DEF Failed, TypeOK
<1>2. /\ tries' = tries \/ (tries[c] + 1 < MaxTries /\ tries' = [tries EXCEPT ![c] = tries[c] + 1])
      /\ \E place \in Places \union {"failed"} : Goto(c, place)
  BY DEF Failed
<1>3. tries' \in [Calls -> 0..MaxTries]
  <2>1. MaxTries \in Nat /\ tries \in [Calls -> 0..MaxTries] /\ tries[c] \in 0..MaxTries
    BY SqlAssumption DEF TypeOK
  <2>2. tries[c] + 1 < MaxTries => tries[c] + 1 \in 0..MaxTries
    BY <2>1
  <2> QED BY <1>2, <2>1, <2>2
<1>4. pc' \in [Calls -> {"idle", "direct", "prepare", "ready", "statement"} \union Ended]
  BY <1>2 DEF TypeOK, Goto, Ended, Places
<1> QED BY <1>1, <1>3, <1>4

(* The steps of one call.                                                    *)
LEMMA StepType ==
  ASSUME TypeOK, [Next]_vars
  PROVE  TypeOK'
<1> USE SqlAssumption
<1>1. ASSUME NEW c \in Calls, Begin(c) PROVE TypeOK'
  BY <1>1 DEF TypeOK, Begin, Goto, Ended
<1>2. ASSUME NEW c \in Calls, Direct(c) PROVE TypeOK'
  <2>1. CASE log' = log /\ tries' = tries /\ failures' = failures
    BY <1>2, <2>1 DEF TypeOK, Direct, Goto, Ended, Failed
  <2>2. CASE \E err \in {"nil", "skip", "bad", "error"} :
               /\ logSqlExec(c, err)
               /\ \/ (Goto(c, "done") \/ Goto(c, "prepare")) /\ UNCHANGED <<tries, failures>>
                  \/ Failed(c, err, {"direct"})
    <3>1. log' \in LogLines
      BY <2>2, LogTyped DEF TypeOK, LogLines, Errors
    <3>2. CASE (Goto(c, "done") \/ Goto(c, "prepare")) /\ UNCHANGED <<tries, failures>>
      BY <1>2, <3>1, <3>2 DEF TypeOK, Direct, Goto, Ended, LogLines
    <3>3. CASE \E err : Failed(c, err, {"direct"})
      <4>1. {"direct"} \in SUBSET Places
        BY DEF Places
      <4> QED BY <1>2, <3>1, <3>3, <4>1, FailedTyped DEF TypeOK, Direct, LogLines
    <3> QED BY <2>2, <3>2, <3>3
  <2> QED BY <1>2, <2>1, <2>2 DEF Direct
<1>3. ASSUME NEW c \in Calls, Prepare(c) PROVE TypeOK'
  <2>1. log' \in LogLines
    BY <1>3, LogTyped DEF Prepare, TypeOK, LogLines, Errors
  <2>2. CASE \E err : Failed(c, err, TryFrom(c))
    <3>1. TryFrom(c) \in SUBSET Places
      BY DEF TryFrom, Places
    <3> QED BY <1>3, <2>1, <2>2, <3>1, FailedTyped DEF TypeOK, Prepare, LogLines
  <2>3. CASE UNCHANGED <<tries, failures, log>>
             /\ Goto(c, IF way[c] = "prepared" THEN "ready" ELSE "statement")
    BY <1>3, <2>3 DEF TypeOK, Prepare, Goto, Ended
  <2> QED BY <1>3, <2>2, <2>3 DEF Prepare
<1>4. ASSUME NEW c \in Calls, RunPrepared(c) PROVE TypeOK'
  BY <1>4 DEF TypeOK, RunPrepared, Goto, Ended
<1>5. ASSUME NEW c \in Calls, Statement(c) PROVE TypeOK'
  <2>1. log' \in LogLines
    BY <1>5, LogTyped DEF Statement, TypeOK, LogLines, Errors
  <2>2. CASE \E err : Failed(c, err, TryFrom(c))
    <3>1. TryFrom(c) \in SUBSET Places
      BY DEF TryFrom, Places
    <3> QED BY <1>5, <2>1, <2>2, <3>1, FailedTyped DEF TypeOK, Statement, LogLines
  <2>3. CASE Goto(c, "done") /\ UNCHANGED <<tries, failures>>
    BY <1>5, <2>1, <2>3 DEF TypeOK, Statement, Goto, Ended, LogLines
  <2> QED BY <1>5, <2>2, <2>3 DEF Statement
<1>6. ASSUME NEW c \in Calls, RowsFail(c) PROVE TypeOK'
  BY <1>6 DEF TypeOK, RowsFail, Goto, Ended
<1>7. CASE SetDebug \/ UNCHANGED vars
  BY <1>7 DEF TypeOK, SetDebug, vars
<1> QED BY <1>1, <1>2, <1>3, <1>4, <1>5, <1>6, <1>7 DEF Next

(* The variables of every call have their types, and no call is tried more   *)
(* than MaxTries times.                                                      *)
THEOREM TypeCorrect == Spec => []TypeOK
<1>1. Init => TypeOK
  BY SqlAssumption DEF Init, TypeOK
<1> QED BY <1>1, StepType, PTL DEF Spec

-----------------------------------------------------------------------------
\* A try that failed is a step of the log, one that succeeded another.
LEMMA FailedStep ==
  ASSUME TypeOK, NEW c \in Calls, pc[c] \notin Ended \union {"idle"},
         NEW err \in Errors \ {"nil", "skip"}, logSqlExec(c, err), debug' = debug,
         NEW e, NEW p \in SUBSET Places, Failed(c, e, p)
  PROVE  Log!Fail(c)
<1>1. log' = Append(log, [call |-> c, level |-> "warn"])
  BY DEF logSqlExec, Line, Errors
<1>2. State[c] = "running"
  BY DEF State
<1>3. \/ State' = [State EXCEPT ![c] = "running"]
      \/ State' = [State EXCEPT ![c] = "failed"]
  <2>1. PICK place \in Places \union {"failed"} : Goto(c, place)
    BY DEF Failed
  <2> QED BY <2>1 DEF Goto, State, Ended, TypeOK, Places
<1> QED BY <1>1, <1>2, <1>3 DEF Log!Fail, Log!Line, Failed

LEMMA DoneStep ==
  ASSUME TypeOK, NEW c \in Calls, pc[c] \notin Ended \union {"idle"},
         logSqlExec(c, "nil"), Goto(c, "done"), UNCHANGED <<debug, failures>>
  PROVE  Log!Succeed(c)
<1>1. log' = IF debug THEN Append(log, [call |-> c, level |-> "debug"]) ELSE log
  BY DEF logSqlExec, Line
<1>2. State[c] = "running" /\ State' = [State EXCEPT ![c] = "done"]
  BY DEF State, Goto, Ended, TypeOK
<1> QED BY <1>1, <1>2 DEF Log!Succeed, Log!Line

\* A step on the way to a try leaves the log's state alone.
LEMMA SilentStep ==
  ASSUME TypeOK, NEW c \in Calls, pc[c] \notin Ended \union {"idle"},
         NEW p \in {"direct", "prepare", "ready", "statement"}, Goto(c, p),
         UNCHANGED <<debug, failures, log>>
  PROVE  UNCHANGED Log!vars
<1>1. State' = State
  BY DEF State, Goto, Ended, TypeOK
<1> QED BY <1>1 DEF Log!vars

LEMMA StepLogs ==
  ASSUME TypeOK, [Next]_vars
  PROVE  [Log!Next]_(Log!vars)
<1>1. ASSUME NEW c \in Calls, Begin(c) PROVE Log!Begin(c)
  <2>1. State[c] = "idle" /\ State' = [State EXCEPT ![c] = "running"]
    BY <1>1 DEF State, Begin, Goto, Ended, TypeOK
  <2> QED BY <1>1, <2>1 DEF Begin, Log!Begin
<1>2. ASSUME NEW c \in Calls, Direct(c)
      PROVE  Log!Fail(c) \/ Log!Succeed(c) \/ UNCHANGED Log!vars
  <2>1. CASE Goto(c, "prepare") /\ UNCHANGED <<tries, failures, log>>
    BY <1>2, <2>1, SilentStep DEF Direct, Ended
  <2>2. ASSUME NEW err \in {"nil", "skip", "bad", "error"}, logSqlExec(c, err),
               CASE err = "nil" -> Goto(c, "done") /\ UNCHANGED <<tries, failures>>
                 [] err = "skip" -> Goto(c, "prepare") /\ UNCHANGED <<tries, failures>>
                 [] OTHER -> Failed(c, err, {"direct"})
        PROVE  Log!Fail(c) \/ Log!Succeed(c) \/ UNCHANGED Log!vars
    <3>1. CASE err = "nil"
      BY <1>2, <2>2, <3>1, DoneStep DEF Direct, Ended
    <3>2. CASE err = "skip"
      BY <1>2, <2>2, <3>2, SilentStep DEF Direct, Ended, logSqlExec
    <3>3. CASE err \in {"bad", "error"}
      <4>1. Failed(c, err, {"direct"}) /\ {"direct"} \in SUBSET Places
        BY <2>2, <3>3 DEF Places
      <4> QED BY <1>2, <2>2, <3>3, <4>1, FailedStep DEF Direct, Ended, Errors
    <3> QED BY <3>1, <3>2, <3>3
  <2> QED BY <1>2, <2>1, <2>2 DEF Direct
<1>3. ASSUME NEW c \in Calls, Prepare(c)
      PROVE  Log!Fail(c) \/ UNCHANGED Log!vars
  <2>1. PICK err \in {"nil", "bad", "error"} :
          IF err = "nil"
          THEN /\ Goto(c, IF way[c] = "prepared" THEN "ready" ELSE "statement")
               /\ UNCHANGED <<tries, failures, log>>
          ELSE logSqlExec(c, err) /\ Failed(c, err, TryFrom(c))
    BY <1>3 DEF Prepare
  <2>2. CASE err = "nil"
    BY <1>3, <2>1, <2>2, SilentStep DEF Prepare, Ended
  <2>3. CASE err # "nil"
    <3>1. TryFrom(c) \in SUBSET Places
      BY DEF TryFrom, Places
    <3> QED BY <1>3, <2>1, <2>3, <3>1, FailedStep DEF Prepare, Ended, Errors
  <2> QED BY <2>2, <2>3
<1>4. ASSUME NEW c \in Calls, RunPrepared(c) PROVE UNCHANGED Log!vars
  BY <1>4, SilentStep DEF RunPrepared, Ended
<1>5. ASSUME NEW c \in Calls, Statement(c) PROVE Log!Fail(c) \/ Log!Succeed(c)
  <2>1. PICK err \in {"nil", "bad", "error", "cancelled"} :
          /\ logSqlExec(c, err)
          /\ IF err = "nil" THEN Goto(c, "done") /\ UNCHANGED <<tries, failures>>
             ELSE Failed(c, IF err = "bad" THEN "bad" ELSE "error", TryFrom(c))
    BY <1>5 DEF Statement
  <2>2. CASE err = "nil"
    BY <1>5, <2>1, <2>2, DoneStep DEF Statement, Ended
  <2>3. CASE err # "nil"
    <3>1. TryFrom(c) \in SUBSET Places
      BY DEF TryFrom, Places
    <3> QED BY <1>5, <2>1, <2>3, <3>1, FailedStep DEF Statement, Ended, Errors
  <2> QED BY <2>2, <2>3
<1>6. ASSUME NEW c \in Calls, RowsFail(c) PROVE Log!Cut(c)
  <2>1. State[c] = "done" /\ State' = [State EXCEPT ![c] = "cut"]
    BY <1>6 DEF State, RowsFail, Goto, Ended, TypeOK
  <2> QED BY <1>6, <2>1 DEF RowsFail, Log!Cut
<1>7. ASSUME SetDebug PROVE Log!SetDebug
  <2>1. State' = State
    BY <1>7 DEF SetDebug, State
  <2>2. failures' = failures /\ log' = log /\ debug' = ~debug
    BY <1>7 DEF SetDebug
  <2> QED BY Zenon, <2>1, <2>2 DEF Log!SetDebug
<1>8. CASE UNCHANGED vars
  BY <1>8 DEF vars, Log!vars, State
<1> QED
  BY <1>1, <1>2, <1>3, <1>4, <1>5, <1>6, <1>7, <1>8 DEF Next, Log!Next

(* However a statement is run, skipped, prepared and tried again, the log    *)
(* has one warning for each try that failed, one debug entry for the one     *)
(* that succeeded with debug on, and nothing else.                           *)
THEOREM OneEntryPerTry == Spec => IsStatementLog
<1>1. Init => Log!Init
  BY DEF Init, Log!Init, State, Ended
<1>2. TypeOK /\ [Next]_vars => [Log!Next]_(Log!vars)
  BY StepLogs
<1> QED BY <1>1, <1>2, TypeCorrect, PTL DEF Spec, IsStatementLog, Log!Spec

-----------------------------------------------------------------------------
(* GinLogger.  What a breakpoint's Handler was given and what was logged is  *)
(* told by how far the request has come.                                     *)

(* Until GinRecovery may answer above the middleware, nothing that was       *)
(* captured differs from what was sent.                                      *)
Orderly == recovery = "inside" /\ ~ownPanic

GinEntries ==
  { Entry(text, s) : text \in {"start", "panic", "end"}, s \in Statuses \cup {0} }

\* What the handler of the request can read of its body.
BodyInv ==
  /\ got = "empty" => req.body = <<>>
  /\ ginPc \notin {"escaped", "gone"} /\ body = "read" /\ got = "nothing" => req.body = <<>>
  /\ ginPc \notin {"check", "params"} /\ req.method = "POST" =>
       body = "broken" \/ rawBody = req.body

\* The entries and the answer, by phase.
EntriesInv ==
  /\ entries \in Seq(GinEntries)
  /\ ginPc \in {"check", "params", "request", "start"} =>
       entries = <<>> /\ sent = <<>> /\ captured = <<>>
  /\ ginPc \in {"handler", "panic"} => entries = <<Entry("start", 0)>>
  /\ ginPc \in {"response", "end"} => Len(entries) \in 1..2 /\ entries[1] = Entry("start", 0)
  /\ ginPc = "escaped" => Len(entries) <= 2
  /\ ginPc = "gone" /\ Orderly =>
       /\ Len(entries) > 0
       /\ entries[1] = Entry("start", 0)
       /\ entries[Len(entries)] = Entry("end", status)

\* The records of a breakpoint, by phase.
RecordsInv ==
  /\ ginPc \notin {"escaped", "gone"} => ~ownPanic
  /\ ginPc = "escaped" => ownPanic \/ recovery = "outside"
  /\ ginPc \in {"check", "params", "request"} => records = <<>>
  /\ ginPc \in {"request", "response"} => isBreakpoint
  /\ ~isBreakpoint => records = <<>>
  /\ isBreakpoint /\ ginPc \in {"start", "handler", "panic", "response"} =>
       records = <<RequestRecord>>
  /\ isBreakpoint /\ (ginPc = "end" \/ (ginPc = "gone" /\ Orderly)) =>
       records = <<RequestRecord, ResponseRecord>>
  /\ isBreakpoint /\ ginPc \in {"escaped", "gone"} =>
       \/ records = <<>> /\ ownPanic
       \/ Len(records) \in 1..2 /\ records[1] = RequestRecord
  /\ isBreakpoint /\ Orderly => captured = sent

GinInv == GinTypeOK /\ BodyInv /\ EntriesInv /\ RecordsInv

LEMMA GinStart ==
  ASSUME GinInit
  PROVE  GinInv
<1>1. GinTypeOK
  <2>1. MaxChanges \in Nat
    BY Zenon, GinAssumption
  <2>2. <<>> \in Seq(Pieces) /\ Len(<<>>) = 0
    OBVIOUS
  <2>3. sent \in Seq(Pieces) /\ captured \in Seq(Pieces)
    BY Zenon, <2>2 DEF GinInit
  <2>4. Len(entries) = 0 /\ Len(records) = 0
    BY Zenon, <2>2 DEF GinInit
  <2>5. Len(entries) <= 3 /\ Len(records) <= 2 /\ changes \in 0..MaxChanges
    BY <2>1, <2>4 DEF GinInit
  <2>6. rawBody \in {<<>>, req.body} /\ isBreakpoint \in BOOLEAN /\ ownPanic \in BOOLEAN
    BY Zenon DEF GinInit
  <2> QED BY Zenon, <2>3, <2>5, <2>6 DEF GinInit, GinTypeOK, Statuses
<1>2. BodyInv
  BY DEF GinInit, BodyInv
<1>3. EntriesInv
  BY DEF GinInit, EntriesInv
<1>4. RecordsInv
  BY DEF GinInit, RecordsInv
<1> QED BY <1>1, <1>2, <1>3, <1>4 DEF GinInv

\* What no step changes, and what it makes of the records' and entries' text.
LEMMA RequestStays ==
  ASSUME [GinNext]_ginVars
  PROVE  /\ req' = req /\ recovery' = recovery
         /\ GinEntries' = GinEntries
         /\ \A text, s : Entry(text, s)' = Entry(text, s)
<1>1. req' = req /\ recovery' = recovery
  BY DEF GinNext, Check, Params, MaskingPanics, SendBreakpointRequest, LogStart, ReadBody, SetStatus, Write,
         HandlerReturns, HandlerPanics, RecoverInside, Escapes, SendBreakpointResponse,
         LogEnd, Change, ginVars, confVars
<1>2. RequestId(req)' = RequestId(req)
  BY <1>1 DEF RequestId
<1>3. \A text, s : Entry(text, s)' = Entry(text, s)
  BY <1>2 DEF Entry
<1> QED BY <1>1, <1>3 DEF GinEntries

(* The breakpoint is decided, and the raw body read, before any record.      *)
LEMMA DecidedOnce ==
  ASSUME [GinNext]_ginVars
  PROVE  /\ ginPc # "check" => isBreakpoint' = isBreakpoint
         /\ ginPc # "params" => rawBody' = rawBody
BY DEF GinNext, Check, Params, MaskingPanics, SendBreakpointRequest, LogStart, ReadBody, SetStatus, Write,
       HandlerReturns, HandlerPanics, RecoverInside, Escapes, SendBreakpointResponse,
       LogEnd, Change, ginVars, bodyVars

LEMMA BodyStep ==
  ASSUME GinTypeOK, BodyInv, [GinNext]_ginVars
  PROVE  BodyInv'
<1> USE DEF BodyInv, GinTypeOK
<1>1. CASE Check
  BY <1>1 DEF Check, bodyVars
<1>2. CASE Params \/ MaskingPanics
  BY <1>2 DEF Params, MaskingPanics
<1>3. CASE SendBreakpointRequest
  BY <1>3 DEF SendBreakpointRequest, CallHandler, bodyVars
<1>4. CASE ReadBody
  BY <1>4 DEF ReadBody
<1>5. CASE LogStart \/ SetStatus \/ Write \/ HandlerReturns \/ HandlerPanics \/ LogEnd \/ Change
  BY <1>5 DEF LogStart, SetStatus, Write, HandlerReturns, HandlerPanics, LogEnd, Change, bodyVars
<1>6. CASE RecoverInside \/ Escapes
  BY <1>6 DEF RecoverInside, Escapes, Recovers, bodyVars
<1>7. CASE SendBreakpointResponse
  BY <1>7 DEF SendBreakpointResponse, CallHandler, bodyVars
<1>8. CASE UNCHANGED ginVars
  BY <1>8 DEF ginVars, bodyVars
<1> QED BY <1>1, <1>2, <1>3, <1>4, <1>5, <1>6, <1>7, <1>8 DEF GinNext

\* The three entries of a request are of its own.
LEMMA EntryTyped ==
  ASSUME NEW text \in {"start", "panic", "end"}, NEW s \in Statuses \cup {0}
  PROVE  Entry(text, s) \in GinEntries
BY DEF GinEntries

LEMMA Appended ==
  ASSUME NEW S, NEW s \in Seq(S), NEW e \in S
  PROVE  /\ Append(s, e) \in Seq(S) /\ Len(Append(s, e)) = Len(s) + 1
         /\ Append(s, e)[Len(s) + 1] = e
         /\ s # <<>> => Append(s, e)[1] = s[1]
OBVIOUS

LEMMA OneOrTwo ==
  \A n : n \in 1..2 => n <= 2
OBVIOUS

LEMMA EntriesStep ==
  ASSUME GinInv, [GinNext]_ginVars
  PROVE  EntriesInv'
<1> DEFINE E == Entry("start", 0)
<1>1. /\ entries \in Seq(GinEntries) /\ GinTypeOK /\ EntriesInv
      /\ ginPc \notin {"escaped", "gone"} => ~ownPanic
      /\ ginPc = "escaped" => ownPanic \/ recovery = "outside"
  BY DEF GinInv, EntriesInv, RecordsInv
<1>2. /\ recovery' = recovery /\ GinEntries' = GinEntries /\ E' = E
      /\ Entry("end", status)' = Entry("end", status')
  BY Zenon, RequestStays
<1>3. /\ Entry("start", 0) \in GinEntries /\ Entry("panic", 0) \in GinEntries
      /\ Entry("end", status) \in GinEntries
  BY <1>1, EntryTyped DEF GinTypeOK
<1>4. /\ ginPc \in {"check", "params", "request", "start"} =>
           entries = <<>> /\ sent = <<>> /\ captured = <<>>
      /\ ginPc \in {"handler", "panic"} => entries = <<E>>
      /\ ginPc \in {"response", "end"} => Len(entries) \in 1..2 /\ entries[1] = E
      /\ ginPc = "escaped" => Len(entries) <= 2
  BY <1>1 DEF EntriesInv
<1>5. <<E>> \in Seq(GinEntries) /\ Len(<<E>>) = 1 /\ <<E>>[1] = E /\ Len(<<>>) = 0
  BY <1>3
<1> HIDE DEF E
<1>6. CASE Check \/ Params \/ MaskingPanics \/ SendBreakpointRequest
  <2>1. /\ UNCHANGED <<entries, sent, captured>>
        /\ ginPc' \in {"params", "request", "start", "escaped"}
        /\ entries = <<>> /\ sent = <<>> /\ captured = <<>>
    BY <1>4, <1>6 DEF Check, Params, MaskingPanics, SendBreakpointRequest, CallHandler,
                      respVars, logVars
  <2> QED BY <1>1, <1>2, <1>5, <2>1 DEF EntriesInv
<1>7. CASE LogStart
  <2>1. entries' = Append(<<>>, E) /\ ginPc' = "handler"
    BY <1>4, <1>7 DEF LogStart, E
  <2>2. Append(<<>>, E) = <<E>>
    OBVIOUS
  <2> QED BY <1>2, <1>5, <2>1, <2>2 DEF EntriesInv, E
<1>8. CASE ReadBody \/ SetStatus \/ Write \/ HandlerReturns \/ HandlerPanics
  <2>1. entries' = entries /\ entries = <<E>>
        /\ ginPc' \in {"handler", "response", "end", "panic", "escaped"}
    BY <1>4, <1>8 DEF ReadBody, SetStatus, Write, HandlerReturns, HandlerPanics, logVars
  <2>2. /\ entries' \in Seq(GinEntries') /\ entries' = <<E'>> /\ Len(entries') = 1
        /\ entries'[1] = E'
    BY <1>2, <1>5, <2>1
  <2> QED BY <2>1, <2>2 DEF EntriesInv, E
<1>9. CASE RecoverInside
  <2>1. /\ entries' = Append(<<E>>, Entry("panic", 0))
        /\ ginPc' \in {"response", "end"}
    BY <1>4, <1>9 DEF RecoverInside, Recovers
  <2>2. /\ Append(<<E>>, Entry("panic", 0)) \in Seq(GinEntries)
        /\ Len(Append(<<E>>, Entry("panic", 0))) = 2
        /\ Append(<<E>>, Entry("panic", 0))[1] = E
    BY <1>3, <1>5, Appended
  <2>3. entries' \in Seq(GinEntries') /\ Len(entries') = 2 /\ entries'[1] = E'
    BY <1>2, <2>1, <2>2
  <2> QED BY <2>1, <2>3 DEF EntriesInv, E
<1>10. CASE Escapes
  <2>1. CASE recovery = "outside"
    <3>1. entries' = Append(entries, Entry("panic", 0)) /\ ginPc' = "gone"
      BY <1>10, <2>1 DEF Escapes, Recovers
    <3>2. entries' \in Seq(GinEntries)
      BY <1>1, <1>3, <3>1, Appended
    <3> QED BY <1>2, <2>1, <3>1, <3>2 DEF EntriesInv, Orderly
  <2>2. CASE recovery # "outside"
    <3>1. entries' = entries /\ ginPc' = "gone" /\ ownPanic' = ownPanic /\ ownPanic
      BY <1>1, <1>10, <2>2 DEF Escapes
    <3> QED BY <1>1, <1>2, <3>1 DEF EntriesInv, Orderly
  <2> QED BY <2>1, <2>2
<1>11. CASE SendBreakpointResponse
  <2>1. /\ entries' = entries /\ ginPc' \in {"end", "escaped"}
        /\ Len(entries) \in 1..2 /\ entries[1] = E
    BY <1>4, <1>11 DEF SendBreakpointResponse, CallHandler
  <2>2. entries' \in Seq(GinEntries')
    BY Zenon, <1>1, <1>2, <2>1
  <2>3. Len(entries') \in 1..2 /\ entries'[1] = E'
    BY Zenon, <1>2, <2>1
  <2>4. Len(entries') <= 2
    BY Zenon, <2>3, OneOrTwo
  <2> QED BY <2>1, <2>2, <2>3, <2>4 DEF EntriesInv, E
<1>12. CASE LogEnd
  <2>1. /\ entries' = Append(entries, Entry("end", status)) /\ ginPc' = "gone"
        /\ status' = status /\ Len(entries) \in 1..2 /\ entries[1] = E
    BY <1>4, <1>12 DEF LogEnd, respVars
  <2>2. entries # <<>>
    BY <1>5, <2>1
  <2>3. /\ entries' \in Seq(GinEntries) /\ Len(entries') = Len(entries) + 1
        /\ entries'[Len(entries) + 1] = Entry("end", status) /\ entries'[1] = E
    BY <1>1, <1>3, <2>1, <2>2, Appended
  <2>4. Len(entries') > 0 /\ entries'[Len(entries')] = Entry("end", status)
    BY <2>1, <2>3
  <2>5. Entry("end", status)' = Entry("end", status)
    BY <1>2, <2>1
  <2>6. entries' \in Seq(GinEntries') /\ entries'[1] = E' /\ entries'[Len(entries')] = Entry("end", status)'
    BY <1>2, <2>3, <2>4, <2>5
  <2> QED BY <2>1, <2>4, <2>6 DEF EntriesInv, E
<1>13. CASE Change \/ UNCHANGED ginVars
  <2>1. UNCHANGED <<entries, sent, captured, ginPc, status, ownPanic>>
    BY <1>13 DEF Change, ginVars, respVars, logVars
  <2>2. Entry("end", status)' = Entry("end", status)
    BY <1>2, <2>1
  <2> QED BY <1>1, <1>2, <2>1, <2>2 DEF EntriesInv, Orderly, E
<1> QED
  BY <1>6, <1>7, <1>8, <1>9, <1>10, <1>11, <1>12, <1>13 DEF GinNext

LEMMA RecordSequences ==
  ASSUME NEW r, NEW s
  PROVE  /\ Append(<<>>, r) = <<r>> /\ Len(<<r>>) = 1 /\ <<r>>[1] = r
         /\ Append(<<r>>, s) = <<r, s>> /\ Len(<<r, s>>) = 2 /\ <<r, s>>[1] = r
<1>1. Append(<<>>, r) = <<r>>
  OBVIOUS
<1>2. Append(<<r>>, s) = <<r, s>>
  <2> DEFINE S == {r, s}
  <2>1. <<r>> \in Seq(S) /\ <<r, s>> \in Seq(S) /\ Len(<<r, s>>) = 2
        /\ <<r, s>>[1] = r /\ <<r, s>>[2] = s
    OBVIOUS
  <2>4. 1..2 = {1, 2}
    OBVIOUS
  <2>2. Append(<<r>>, s) \in Seq(S) /\ Len(Append(<<r>>, s)) = 2
    OBVIOUS
  <2>3. Append(<<r>>, s)[1] = r /\ Append(<<r>>, s)[2] = s
    OBVIOUS
  <2> HIDE DEF S
  <2> QED BY <2>1, <2>2, <2>3, <2>4, SeqEqual
<1>3. Len(<<r>>) = 1 /\ <<r>>[1] = r /\ Len(<<r, s>>) = 2 /\ <<r, s>>[1] = r
  OBVIOUS
<1> QED BY <1>1, <1>2, <1>3

\* What CallHandler makes of the records.
LEMMA HandlerCalled ==
  ASSUME NEW record, NEW next, CallHandler(record, next)
  PROVE  \/ records' = Append(records, record) /\ ginPc' = next /\ ownPanic' = ownPanic
         \/ /\ records' \in {records, Append(records, record)}
            /\ ginPc' = "escaped" /\ ownPanic' = TRUE
BY DEF CallHandler

LEMMA RecordsStep ==
  ASSUME GinInv, [GinNext]_ginVars
  PROVE  RecordsInv'
<1> DEFINE R == RequestRecord
           A == ResponseRecord
<1>1. /\ GinTypeOK /\ RecordsInv
      /\ ginPc \in {"check", "params", "request", "start"} => sent = <<>> /\ captured = <<>>
      /\ ginPc \in {"handler", "panic"} => entries = <<Entry("start", 0)>>
  BY DEF GinInv, EntriesInv
<1>2. /\ req' = req /\ recovery' = recovery
      /\ ginPc # "check" => isBreakpoint' = isBreakpoint
      /\ ginPc # "params" => rawBody' = rawBody
  BY Zenon, RequestStays, DecidedOnce
<1>3. ginPc # "params" => R' = R
  BY <1>2 DEF RequestRecord, RequestId
<1>4. status' = status /\ captured' = captured => A' = A
  BY <1>2 DEF ResponseRecord, RequestId
<1>5. /\ Len(<<R>>) = 1 /\ <<R>>[1] = R /\ Append(<<>>, R) = <<R>>
      /\ Append(<<R>>, A) = <<R, A>> /\ Len(<<R, A>>) = 2 /\ <<R, A>>[1] = R
      /\ Len(<<>>) = 0
  BY RecordSequences
<1>6. /\ isBreakpoint \in BOOLEAN /\ ownPanic \in BOOLEAN
  BY <1>1 DEF GinTypeOK
<1>7. /\ ginPc \notin {"escaped", "gone"} => ~ownPanic
      /\ ginPc = "escaped" => ownPanic \/ recovery = "outside"
      /\ ginPc \in {"check", "params", "request"} => records = <<>>
      /\ ginPc \in {"request", "response"} => isBreakpoint
      /\ ~isBreakpoint => records = <<>>
      /\ isBreakpoint /\ ginPc \in {"start", "handler", "panic", "response"} => records = <<R>>
      /\ isBreakpoint /\ (ginPc = "end" \/ (ginPc = "gone" /\ Orderly)) => records = <<R, A>>
      /\ isBreakpoint /\ ginPc \in {"escaped", "gone"} =>
           \/ records = <<>> /\ ownPanic
           \/ Len(records) \in 1..2 /\ records[1] = R
      /\ isBreakpoint /\ Orderly => captured = sent
  BY <1>1 DEF RecordsInv
<1> DEFINE Kept == \/ records' = <<>> /\ ownPanic'
                   \/ Len(records') \in 1..2 /\ records'[1] = R'
           Later ==
             /\ ginPc' \notin {"escaped", "gone"} => ~ownPanic'
             /\ ginPc' = "escaped" => ownPanic' \/ recovery' = "outside"
             /\ ginPc' \in {"check", "params", "request"} => records' = <<>>
             /\ ginPc' \in {"request", "response"} => isBreakpoint'
             /\ ~isBreakpoint' => records' = <<>>
             /\ isBreakpoint' /\ ginPc' \in {"start", "handler", "panic", "response"} =>
                  records' = <<R'>>
             /\ isBreakpoint' /\ (ginPc' = "end" \/ (ginPc' = "gone" /\ Orderly')) =>
                  records' = <<R', A'>>
             /\ isBreakpoint' /\ ginPc' \in {"escaped", "gone"} => Kept
             /\ isBreakpoint' /\ Orderly' => captured' = sent'
<1>8. SUFFICES Later
  BY DEF RecordsInv
<1>9. Orderly' <=> recovery = "inside" /\ ~ownPanic'
  BY <1>2 DEF Orderly
<1>10. Orderly <=> recovery = "inside" /\ ~ownPanic
  BY DEF Orderly
<1> HIDE DEF R, A
<1>11. CASE Check \/ Params
  <2>1. /\ UNCHANGED <<records, ownPanic, sent, captured>>
        /\ ginPc' \in {"params", "request", "start"} /\ records = <<>> /\ ~ownPanic
        /\ ginPc' = "request" => isBreakpoint'
        /\ ginPc' = "start" => ~isBreakpoint'
        /\ sent = <<>> /\ captured = <<>>
    BY <1>1, <1>2, <1>6, <1>7, <1>11 DEF Check, Params, respVars, logVars
  <2> QED BY <1>9, <2>1
<1>a. CASE MaskingPanics
  <2>1. /\ UNCHANGED <<records, sent, captured, isBreakpoint>> /\ records = <<>> /\ ownPanic'
        /\ ginPc' = "escaped" /\ sent = <<>> /\ captured = <<>>
    BY <1>1, <1>7, <1>a DEF MaskingPanics, respVars
  <2> QED BY <1>9, <2>1
<1>12. CASE SendBreakpointRequest
  <2>1. /\ isBreakpoint /\ isBreakpoint' /\ records = <<>> /\ ~ownPanic /\ R' = R
        /\ UNCHANGED <<sent, captured>> /\ sent = <<>> /\ captured = <<>>
    BY <1>1, <1>2, <1>3, <1>6, <1>7, <1>12 DEF SendBreakpointRequest, respVars
  <2>2. \/ records' = Append(records, R) /\ ginPc' = "start" /\ ownPanic' = ownPanic
        \/ /\ records' \in {records, Append(records, R)}
           /\ ginPc' = "escaped" /\ ownPanic' = TRUE
    BY <1>12, HandlerCalled DEF SendBreakpointRequest, R
  <2> QED BY <1>5, <1>9, <2>1, <2>2
<1>13. CASE LogStart \/ ReadBody \/ SetStatus \/ Write \/ HandlerReturns \/ HandlerPanics
  <2>1. /\ UNCHANGED <<records, ownPanic>> /\ ~ownPanic /\ R' = R
        /\ isBreakpoint' = isBreakpoint
        /\ ~isBreakpoint => records = <<>>
        /\ isBreakpoint => records = <<R>>
        /\ ginPc' \in {"handler", "response", "end", "panic", "escaped"}
        /\ ginPc' = "response" => isBreakpoint
        /\ ginPc' = "end" => ~isBreakpoint
        /\ ginPc' = "escaped" => recovery # "inside"
    BY <1>2, <1>3, <1>6, <1>7, <1>13
    DEF LogStart, ReadBody, SetStatus, Write, HandlerReturns, HandlerPanics, logVars
  <2>2. isBreakpoint /\ Orderly => captured' = sent'
    <3>1. CASE Write
      <4>1. entries # <<>>
        BY <1>1, <3>1, <1>5 DEF Write
      <4> QED BY <1>7, <3>1, <4>1 DEF Write, Hand, Wrapped
    <3>2. CASE LogStart \/ ReadBody \/ SetStatus \/ HandlerReturns \/ HandlerPanics
      BY <1>7, <3>2 DEF LogStart, ReadBody, SetStatus, HandlerReturns, HandlerPanics, respVars
    <3> QED BY <1>13, <3>1, <3>2
  <2>3. recovery \in {"inside", "outside"}
    BY Zenon, <1>1, GinAssumption DEF GinTypeOK
  <2> QED BY <1>2, <1>5, <1>9, <1>10, <2>1, <2>2, <2>3
<1>14. CASE RecoverInside
  <2>1. /\ UNCHANGED <<records, ownPanic>> /\ ~ownPanic /\ R' = R
        /\ isBreakpoint' = isBreakpoint
        /\ ~isBreakpoint => records = <<>>
        /\ isBreakpoint => records = <<R>>
        /\ ginPc' = IF isBreakpoint THEN "response" ELSE "end"
    BY <1>2, <1>3, <1>7, <1>14 DEF RecoverInside, Recovers
  <2>2. entries # <<>>
    BY <1>1, <1>14, <1>5 DEF RecoverInside
  <2>3. isBreakpoint /\ Orderly => captured' = sent'
    BY <1>7, <1>14, <2>2 DEF RecoverInside, Recovers, Hand, Wrapped
  <2> QED BY <1>6, <1>9, <1>10, <2>1, <2>3
<1>15. CASE Escapes
  <2>1. /\ UNCHANGED <<records, ownPanic>> /\ ginPc' = "gone" /\ R' = R
        /\ isBreakpoint' = isBreakpoint /\ ginPc = "escaped"
    BY <1>2, <1>3, <1>15 DEF Escapes, Recovers
  <2>2. ~Orderly'
    BY <1>7, <1>9, <2>1
  <2> QED BY <1>7, <2>1, <2>2
<1>16. CASE SendBreakpointResponse
  <2>1. /\ isBreakpoint /\ isBreakpoint' /\ records = <<R>> /\ ~ownPanic
        /\ R' = R /\ A' = A
        /\ UNCHANGED <<sent, captured>>
    BY <1>2, <1>3, <1>4, <1>6, <1>7, <1>16 DEF SendBreakpointResponse, respVars
  <2>2. \/ records' = Append(records, A) /\ ginPc' = "end" /\ ownPanic' = ownPanic
        \/ /\ records' \in {records, Append(records, A)}
           /\ ginPc' = "escaped" /\ ownPanic' = TRUE
    BY <1>16, HandlerCalled DEF SendBreakpointResponse, A
  <2>3. \/ records' = <<R, A>> /\ ginPc' = "end" /\ ownPanic' = ownPanic
        \/ /\ Len(records') \in 1..2 /\ records'[1] = R
           /\ ginPc' = "escaped" /\ ownPanic' = TRUE
    BY <1>5, <2>1, <2>2
  <2> QED BY <1>7, <1>9, <1>10, <2>1, <2>3
<1>17. CASE LogEnd
  <2>1. /\ UNCHANGED <<records, ownPanic, sent, captured>> /\ ginPc' = "gone" /\ ~ownPanic
        /\ R' = R /\ A' = A
        /\ isBreakpoint' = isBreakpoint
        /\ isBreakpoint => records = <<R, A>>
        /\ ~isBreakpoint => records = <<>>
    BY <1>2, <1>3, <1>4, <1>7, <1>17 DEF LogEnd, respVars
  <2> QED BY <1>5, <1>7, <1>9, <1>10, <2>1
<1>18. CASE Change \/ UNCHANGED ginVars
  <2>1. /\ UNCHANGED <<records, ownPanic, sent, captured, status, ginPc, isBreakpoint, rawBody>>
    BY <1>18 DEF Change, ginVars, respVars, logVars, bodyVars
  <2>2. R' = R /\ A' = A
    BY <1>2, <1>4, <2>1 DEF R, RequestRecord, RequestId
  <2>3. Orderly' = Orderly
    BY <1>2, <2>1 DEF Orderly
  <2> QED BY <1>2, <1>7, <2>1, <2>2, <2>3
<1> QED
  BY <1>11, <1>a, <1>12, <1>13, <1>14, <1>15, <1>16, <1>17, <1>18 DEF GinNext

LEMMA GinTypeStep ==
  ASSUME GinInv, [GinNext]_ginVars, EntriesInv', RecordsInv'
  PROVE  GinTypeOK'
<1>1. GinTypeOK /\ BodyInv
  BY DEF GinInv
<1>2. req' = req /\ recovery' = recovery
  BY Zenon, RequestStays
<1>3. /\ config \in Configs /\ recovery \in Recovery /\ changes \in 0..MaxChanges
      /\ req \in Requests /\ isBreakpoint \in BOOLEAN /\ ownPanic \in BOOLEAN
      /\ rawBody \in {<<>>, req.body}
      /\ got \in {"nothing", "body", "empty", "error"} /\ status \in Statuses
      /\ sent \in Seq(Pieces) /\ captured \in Seq(Pieces)
      /\ body \in {"client", "broken", "restored", "read"}
      /\ ginPc \in {"check", "params", "request", "start", "handler", "response", "end",
                    "panic", "escaped", "gone"}
  BY <1>1 DEF GinTypeOK
<1>4. MaxChanges \in Nat
  BY Zenon, GinAssumption
<1> DEFINE SmallTyped ==
             /\ config' \in Configs /\ changes' \in 0..MaxChanges
             /\ isBreakpoint' \in BOOLEAN /\ ownPanic' \in BOOLEAN
             /\ rawBody' \in {<<>>, req.body}
             /\ got' \in {"nothing", "body", "empty", "error"} /\ status' \in Statuses
             /\ body' \in {"client", "broken", "restored", "read"}
             /\ ginPc' \in {"check", "params", "request", "start", "handler", "response", "end",
                            "panic", "escaped", "gone"}
<1>5. SmallTyped
  <2>1. CASE Check
    BY <1>3, <2>1 DEF Check, confVars, bodyVars, respVars, logVars
  <2>2. CASE Params
    BY <1>3, <2>2 DEF Params, confVars, respVars, logVars
  <2>a. CASE MaskingPanics
    BY <1>3, <2>a DEF MaskingPanics, confVars, respVars
  <2>b. CASE SetStatus
    BY <1>3, <2>b DEF SetStatus, Statuses, confVars, bodyVars, logVars
  <2>3. CASE SendBreakpointRequest \/ SendBreakpointResponse
    <3>1. /\ UNCHANGED <<confVars, isBreakpoint, bodyVars, respVars>>
          /\ ginPc' \in {"start", "end", "escaped"} /\ ownPanic' \in {ownPanic, TRUE}
      BY <2>3 DEF SendBreakpointRequest, SendBreakpointResponse, CallHandler
    <3>2. /\ config' \in Configs /\ changes' \in 0..MaxChanges
          /\ isBreakpoint' \in BOOLEAN /\ rawBody' \in {<<>>, req.body}
          /\ body' \in {"client", "broken", "restored", "read"}
          /\ got' \in {"nothing", "body", "empty", "error"} /\ status' \in Statuses
      BY <1>2, <1>3, <3>1 DEF confVars, bodyVars, respVars
    <3>3. ginPc' \in {"check", "params", "request", "start", "handler", "response", "end",
                      "panic", "escaped", "gone"}
      BY <3>1
    <3>4. ownPanic' \in BOOLEAN
      BY Zenon, <1>3, <3>1
    <3> QED BY Zenon, <3>2, <3>3, <3>4
  <2>4. CASE LogStart \/ Write \/ HandlerReturns \/ HandlerPanics \/ LogEnd
    BY <1>3, <2>4 DEF LogStart, Write, HandlerReturns, HandlerPanics, LogEnd,
                      confVars, bodyVars, respVars, logVars
  <2>5. CASE ReadBody
    BY <1>3, <2>5 DEF ReadBody, confVars, respVars, logVars
  <2>6. CASE RecoverInside \/ Escapes
    BY <1>3, <2>6 DEF RecoverInside, Escapes, Recovers, Statuses, confVars, bodyVars
  <2>7. CASE Change
    BY <1>3, <1>4, <2>7 DEF Change, bodyVars, respVars, logVars
  <2>8. CASE UNCHANGED ginVars
    BY <1>3, <2>8 DEF ginVars, confVars, bodyVars, respVars, logVars
  <2> QED BY <2>1, <2>2, <2>a, <2>b, <2>3, <2>4, <2>5, <2>6, <2>7, <2>8 DEF GinNext
<1>6. sent' \in Seq(Pieces) /\ captured' \in Seq(Pieces)
  <2>1. ASSUME NEW piece \in Pieces, Hand(piece)
        PROVE  sent' \in Seq(Pieces) /\ captured' \in Seq(Pieces)
    <3>1. Append(sent, piece) \in Seq(Pieces) /\ Append(captured, piece) \in Seq(Pieces)
      BY <1>3, Appended
    <3> QED BY <1>3, <2>1, <3>1 DEF Hand
  <2>2. CASE UNCHANGED respVars \/ UNCHANGED ginVars \/ UNCHANGED <<sent, captured>>
    BY <1>3, <2>2 DEF respVars, ginVars
  <2>3. UNCHANGED respVars \/ UNCHANGED ginVars \/ UNCHANGED <<sent, captured>>
          \/ \E piece \in Pieces : Hand(piece)
    BY DEF GinNext, Check, Params, MaskingPanics, SendBreakpointRequest, LogStart, ReadBody, SetStatus, Write,
           HandlerReturns, HandlerPanics, RecoverInside, Escapes, Recovers,
           SendBreakpointResponse, LogEnd, Change, Pieces
  <2> QED BY <2>1, <2>2, <2>3
<1>7. Len(entries') <= 3
  <2>1. entries' \in Seq(GinEntries')
    BY DEF EntriesInv
  <2>2. CASE ginPc' # "gone"
    <3>1. \/ entries' = <<>> \/ entries' = <<Entry("start", 0)'>>
          \/ Len(entries') \in 1..2 \/ Len(entries') <= 2
      BY <1>5, <2>2 DEF EntriesInv
    <3>2. Len(<<>>) = 0 /\ Len(<<Entry("start", 0)'>>) = 1
      OBVIOUS
    <3>3. Len(entries') <= 2
      <4>1. Len(entries') \in 1..2 => Len(entries') <= 2
        BY Zenon, OneOrTwo
      <4>2. 0 <= 2 /\ 1 <= 2
        OBVIOUS
      <4> QED BY Zenon, <3>1, <3>2, <4>1, <4>2
    <3> QED BY <2>1, <3>3
  <2>3. CASE ginPc' = "gone"
    <3>1. entries \in Seq(GinEntries) /\ EntriesInv
      BY DEF GinInv, EntriesInv
    <3>2. \/ ginPc = "gone" /\ entries' = entries
          \/ ginPc \in {"end", "escaped"} /\ Len(entries) <= 2
               /\ (entries' = entries \/ \E e \in GinEntries : entries' = Append(entries, e))
      <4>1. /\ Entry("panic", 0) \in GinEntries /\ Entry("end", status) \in GinEntries
        BY <1>3, EntryTyped
      <4>2. ginPc \in {"end", "escaped"} => Len(entries) \in 1..2 \/ Len(entries) <= 2
        BY Zenon, <3>1 DEF EntriesInv
      <4>3. ginPc \in {"end", "escaped"} => Len(entries) <= 2
        BY Zenon, <4>2, OneOrTwo
      <4> QED
        BY <1>3, <2>3, <4>1, <4>3
        DEF GinNext, Check, Params, MaskingPanics, SendBreakpointRequest, LogStart, ReadBody, SetStatus, Write,
            HandlerReturns, HandlerPanics, RecoverInside, Escapes, Recovers, CallHandler,
            SendBreakpointResponse, LogEnd, Change, ginVars, logVars
    <3>3. Len(entries) <= 3
      BY <1>1 DEF GinTypeOK
    <3> QED BY <3>1, <3>2, <3>3, Appended
  <2> QED BY <2>2, <2>3
<1>8. Len(records') <= 2
  <2>1. \/ records' = <<>> \/ records' = <<RequestRecord'>>
        \/ records' = <<RequestRecord', ResponseRecord'>>
        \/ Len(records') \in 1..2
    BY <1>5 DEF RecordsInv
  <2>2. /\ Len(<<>>) = 0 /\ Len(<<RequestRecord'>>) = 1
        /\ Len(<<RequestRecord', ResponseRecord'>>) = 2
    OBVIOUS
  <2>3. Len(records') \in 1..2 => Len(records') <= 2
    BY Zenon, OneOrTwo
  <2>4. 0 <= 2 /\ 1 <= 2 /\ 2 <= 2
    OBVIOUS
  <2> QED BY Zenon, <2>1, <2>2, <2>3, <2>4
<1> QED BY Zenon, <1>2, <1>3, <1>5, <1>6, <1>7, <1>8 DEF GinTypeOK

(* GinInv is an invariant, and it says of a request that is over what       *)
(* RequestIsRecorded asks for.                                               *)
LEMMA GinInvRecords ==
  ASSUME GinInv
  PROVE  RequestIsRecorded
<1>1. GinTypeOK /\ HandlerGetsBody
  BY DEF GinInv, BodyInv, HandlerGetsBody
<1>2. RecordsPaired
  <2>1. SUFFICES ASSUME ginPc = "gone" 
                 PROVE  IF ~isBreakpoint THEN records = <<>>
                        ELSE
                          /\ records = <<>> => ownPanic
                          /\ records # <<>> =>
                               /\ records[1].type = "request"
                               /\ req.method = "POST" => body = "broken" \/ records[1].body = req.body
                          /\ recovery = "inside" /\ ~ownPanic =>
                               /\ Len(records) = 2
                               /\ records[2].type = "response" /\ records[2].id = records[1].id
                               /\ records[2].status = status /\ records[2].response = sent
    BY DEF RecordsPaired
  <2>2. /\ RequestRecord.type = "request" /\ RequestRecord.body = rawBody
        /\ ResponseRecord.type = "response" /\ ResponseRecord.id = RequestRecord.id
        /\ ResponseRecord.status = status /\ ResponseRecord.response = captured
    BY DEF RequestRecord, ResponseRecord
  <2>3. req.method = "POST" => body = "broken" \/ rawBody = req.body
    BY <2>1 DEF GinInv, BodyInv
  <2>4. CASE ~isBreakpoint
    BY <2>4 DEF GinInv, RecordsInv
  <2>5. CASE isBreakpoint
    <3>1. \/ records = <<>> /\ ownPanic
          \/ Len(records) \in 1..2 /\ records[1] = RequestRecord
      BY <2>1, <2>5 DEF GinInv, RecordsInv
    <3>2. Len(<<>>) = 0
      OBVIOUS
    <3>3. recovery = "inside" /\ ~ownPanic =>
            records = <<RequestRecord, ResponseRecord>> /\ captured = sent
      BY <2>1, <2>5 DEF GinInv, RecordsInv, Orderly
    <3>4. /\ Len(<<RequestRecord, ResponseRecord>>) = 2
          /\ <<RequestRecord, ResponseRecord>>[1] = RequestRecord
          /\ <<RequestRecord, ResponseRecord>>[2] = ResponseRecord
      OBVIOUS
    <3>5. records # <<>> => records[1] = RequestRecord
      BY <3>1
    <3>6. records = <<>> => ownPanic
      BY <3>1, <3>2
    <3>7. recovery = "inside" /\ ~ownPanic =>
            /\ Len(records) = 2 /\ records[1] = RequestRecord /\ records[2] = ResponseRecord
            /\ captured = sent
      BY <3>3, <3>4
    <3> QED BY <2>2, <2>3, <2>5, <3>5, <3>6, <3>7
  <2> QED BY <1>1, <2>4, <2>5 DEF GinTypeOK
<1>3. EndIsLogged
  BY DEF GinInv, EntriesInv, EndIsLogged, Orderly
<1> QED BY <1>1, <1>2, <1>3 DEF RequestIsRecorded

(* The handlers of every request get the body the middleware read before     *)
(* them, the records of every breakpoint come in pairs that tell what was     *)
(* sent and answered, and the end of every request is logged with the status *)
(* it was answered with, whatever panics where and however the configuration *)
(* changes meanwhile.                                                        *)
THEOREM RecordsAreKept == GinSpec => []RequestIsRecorded
<1>1. GinInit => GinInv
  BY GinStart
<1>2. GinInv /\ [GinNext]_ginVars => GinInv'
  <2> SUFFICES ASSUME GinInv, [GinNext]_ginVars PROVE GinInv'
    OBVIOUS
  <2>1. GinTypeOK /\ BodyInv
    BY DEF GinInv
  <2>2. EntriesInv' /\ RecordsInv' /\ BodyInv'
    BY Zenon, <2>1, EntriesStep, RecordsStep, BodyStep
  <2>3. GinTypeOK'
    BY Zenon, <2>2, GinTypeStep
  <2> QED BY <2>2, <2>3 DEF GinInv
<1>3. GinInv => RequestIsRecorded
  BY GinInvRecords
<1> QED BY <1>1, <1>2, <1>3, PTL DEF GinSpec

-----------------------------------------------------------------------------
(* AntPathMatcher.  What a caller has left of its patterns is a tail of      *)
(* them, and what it has passed over does not denote the path.               *)

Meant(q, i) == Denotes(Cleaned(q.patterns[i]), Cleaned(q.path))

\* The patterns from k on.
RestFrom(q, k, rest) ==
  /\ rest \in Seq(PatternsOf(q))
  /\ Len(rest) = Len(q.patterns) + 1 - k
  /\ \A i \in 1..Len(rest) : rest[i] = q.patterns[k + i - 1]

WaitsAt(q, k, rest) ==
  /\ RestFrom(q, k, rest)
  /\ \A j \in 1..(k - 1) : ~Meant(q, j)
  /\ ~PassedOver(q.patterns[k], q.path) /\ ~Same(q.patterns[k], q.path)

WaitingInv ==
  \A c \in Callers : antPc[c] \in {"load", "compile"} =>
    \E k \in 1..Len(question[c].patterns) : WaitsAt(question[c], k, left[c])

CallsTyped ==
  /\ program \in DOMAIN Programs
  /\ question = [c \in Callers |-> question[c]]
  /\ left = [c \in Callers |-> left[c]]

ClearInv == clears > 0 => DOMAIN patternCache \subseteq stored \union todo

AntInv == CallsTyped /\ AntTypeOK /\ WaitingInv /\ AnswersMeant /\ ClearInv

LEMMA ProgramsTyped ==
  ASSUME NEW name \in DOMAIN Programs
  PROVE  /\ Programs[name].clears \in Nat
         /\ \A q \in Programs[name].questions : q.patterns \in Seq(PatternsOf(q)) \ { <<>> }
BY Zenon, AntPathAssumption

\* The patterns from k on, and those from f of these on, which are a tail too.
LEMMA RestOfRest ==
  ASSUME NEW q, q.patterns \in Seq(PatternsOf(q)), NEW k \in 1..(Len(q.patterns) + 1),
         NEW rest, RestFrom(q, k, rest), NEW f \in 1..(Len(rest) + 1)
  PROVE  /\ Len(rest) \in Nat /\ k + f - 1 \in 1..(Len(q.patterns) + 1)
         /\ RestFrom(q, k + f - 1, SubSeq(rest, f, Len(rest)))
         /\ f > Len(rest) <=> k + f - 1 > Len(q.patterns)
<1> DEFINE n == Len(q.patterns)
           m == Len(rest)
           sub == SubSeq(rest, f, m)
<1>1. n \in Nat /\ m \in Nat /\ m = n + 1 - k /\ rest \in Seq(PatternsOf(q))
  BY DEF RestFrom
<1>2. \A i \in 1..m : rest[i] = q.patterns[k + i - 1]
  BY DEF RestFrom
<1>3. sub \in Seq(PatternsOf(q)) /\ Len(sub) = m - f + 1
      /\ \A i \in 1..(m - f + 1) : sub[i] = rest[f + i - 1]
  BY <1>1, SubSeqProperties
<1> HIDE DEF sub, m, n
<1>4. k \in 1..(n + 1) /\ f \in 1..(m + 1)
  BY DEF m, n
<1>5. Len(sub) = n + 1 - (k + f - 1)
  BY <1>1, <1>3, <1>4
<1>6. ASSUME NEW i \in 1..Len(sub)
      PROVE  sub[i] = q.patterns[(k + f - 1) + i - 1]
  <2>1. i \in 1..(m - f + 1) /\ f + i - 1 \in 1..m
    BY <1>1, <1>3, <1>4, <1>6
  <2>2. sub[i] = q.patterns[k + (f + i - 1) - 1]
    BY <1>2, <1>3, <2>1
  <2>3. k + (f + i - 1) - 1 = (k + f - 1) + i - 1
    BY <1>4, <2>1
  <2> QED BY <2>2, <2>3
<1>7. k + f - 1 \in 1..(n + 1) /\ (f > m <=> k + f - 1 > n)
  BY <1>1, <1>4
<1>8. RestFrom(q, k + f - 1, sub)
  BY <1>3, <1>5, <1>6 DEF RestFrom, n
<1> QED BY <1>1, <1>7, <1>8 DEF n, m, sub

\* The hypothesis about one pattern of one question.
LEMMA OneDecided ==
  ASSUME PatternsDecided, NEW name \in DOMAIN Programs, NEW q \in Programs[name].questions,
         NEW i \in 1..Len(q.patterns)
  PROVE  LET p == Cleaned(q.patterns[i])
             text == Cleaned(q.path)
         IN Meant(q, i) <=>
              \/ Same(q.patterns[i], q.path)
              \/ HasWildcards(p) /\ MatchString(convertPatternToRegex(p), text)
BY Zenon DEF PatternsDecided, Meant

(* A caller that goes on with the rest of its patterns waits for one that it *)
(* cannot decide alone or is done, with the right answer.                    *)
LEMMA TryRight ==
  ASSUME PatternsDecided, AntTypeOK, CallsTyped,
         NEW q \in Programs[program].questions, NEW c \in Callers,
         NEW k \in 1..(Len(q.patterns) + 1), NEW rest, RestFrom(q, k, rest),
         \A j \in 1..(k - 1) : ~Meant(q, j),
         Try(c, rest, q.path)
  PROVE  /\ \/ antPc' = [antPc EXCEPT ![c] = "done"]
            \/ antPc' = [antPc EXCEPT ![c] = "load"]
         /\ left' = [left EXCEPT ![c] = left'[c]]
         /\ answer' = [answer EXCEPT ![c] = answer'[c]] /\ answer'[c] \in BOOLEAN
         /\ antPc'[c] = "load" =>
              \E n \in 1..Len(q.patterns) : WaitsAt(q, n, left'[c])
         /\ antPc'[c] = "done" =>
              (answer'[c] <=> \E i \in 1..Len(q.patterns) : Meant(q, i))
<1>1. /\ antPc \in [Callers -> {"idle", "load", "compile", "done"}]
      /\ answer \in [Callers -> BOOLEAN] /\ left = [d \in Callers |-> left[d]]
  BY Zenon DEF AntTypeOK, CallsTyped
<1>2. q.patterns \in Seq(PatternsOf(q)) /\ Len(q.patterns) \in Nat
  BY ProgramsTyped DEF CallsTyped
<1>3. PICK first \in 1..(Len(rest) + 1) :
        /\ \A j \in 1..(first - 1) : PassedOver(rest[j], q.path)
        /\ first <= Len(rest) => ~PassedOver(rest[first], q.path)
        /\ left' = [left EXCEPT ![c] = SubSeq(rest, first, Len(rest))]
        /\ antPc' = [antPc EXCEPT ![c] =
             IF first > Len(rest) \/ (first <= Len(rest) /\ Same(rest[first], q.path))
             THEN "done" ELSE "load"]
        /\ answer' = [answer EXCEPT ![c] = first <= Len(rest) /\ Same(rest[first], q.path)]
  BY DEF Try
<1> DEFINE same == first <= Len(rest) /\ Same(rest[first], q.path)
           n == k + first - 1
           sub == SubSeq(rest, first, Len(rest))
<1>4. /\ Len(rest) \in Nat /\ n \in 1..(Len(q.patterns) + 1) /\ RestFrom(q, n, sub)
      /\ first > Len(rest) <=> n > Len(q.patterns)
  BY <1>2, RestOfRest
<1>5. first <= Len(rest) => rest[first] = q.patterns[n]
  BY <1>3, <1>4 DEF RestFrom
<1>6. ASSUME NEW j \in 1..(n - 1) PROVE ~Meant(q, j)
  <2>1. CASE j \in 1..(k - 1)
    BY <2>1
  <2>2. CASE j \notin 1..(k - 1)
    <3>1. j - k + 1 \in 1..(first - 1) /\ j - k + 1 \in 1..Len(rest) /\ j \in 1..Len(q.patterns)
      BY <1>2, <1>4, <2>2
    <3>2. rest[j - k + 1] = q.patterns[k + (j - k + 1) - 1]
      BY <3>1 DEF RestFrom
    <3>3. k + (j - k + 1) - 1 = j
      BY <1>2
    <3>4. PassedOver(q.patterns[j], q.path)
      BY <1>3, <3>1, <3>2, <3>3
    <3> QED BY <3>1, <3>4, OneDecided DEF PassedOver, CallsTyped
  <2> QED BY <2>1, <2>2
<1>7. same => n \in 1..Len(q.patterns) /\ Meant(q, n)
  <2> SUFFICES ASSUME same PROVE n \in 1..Len(q.patterns) /\ Meant(q, n)
    OBVIOUS
  <2>1. n \in 1..Len(q.patterns)
    BY <1>2, <1>4
  <2>2. Same(q.patterns[n], q.path)
    BY <1>5
  <2> QED BY <2>1, <2>2, OneDecided DEF CallsTyped
<1>8. same \in BOOLEAN
  BY DEF Same
<1> HIDE DEF same, n, sub
<1>9. /\ left' = [left EXCEPT ![c] = sub] /\ answer' = [answer EXCEPT ![c] = same]
      /\ antPc' = [antPc EXCEPT ![c] = IF first > Len(rest) \/ same THEN "done" ELSE "load"]
  BY <1>3 DEF same, sub
<1>10. left'[c] = sub /\ answer'[c] = same
      /\ antPc'[c] = IF first > Len(rest) \/ same THEN "done" ELSE "load"
  BY <1>1, <1>9
<1>11. antPc'[c] = "load" => \E i \in 1..Len(q.patterns) : WaitsAt(q, i, left'[c])
  <2> SUFFICES ASSUME antPc'[c] = "load" PROVE WaitsAt(q, n, sub) /\ n \in 1..Len(q.patterns)
    BY <1>10
  <2>1. first <= Len(rest) /\ ~same
    BY <1>4, <1>10
  <2>2. n \in 1..Len(q.patterns)
    BY <1>2, <1>4, <2>1
  <2>3. ~PassedOver(q.patterns[n], q.path) /\ ~Same(q.patterns[n], q.path)
    BY <1>3, <1>5, <2>1 DEF same
  <2> QED BY <1>4, <1>6, <2>2, <2>3 DEF WaitsAt
<1>12. antPc'[c] = "done" => (answer'[c] <=> \E i \in 1..Len(q.patterns) : Meant(q, i))
  <2>1. CASE same
    BY <1>7, <1>10, <2>1
  <2>2. CASE ~same
    <3> SUFFICES ASSUME antPc'[c] = "done"
                 PROVE  ~answer'[c] /\ \A i \in 1..Len(q.patterns) : ~Meant(q, i)
      OBVIOUS
    <3>1. n > Len(q.patterns)
      BY <1>4, <1>10, <2>2
    <3>2. \A i \in 1..Len(q.patterns) : i \in 1..(n - 1)
      BY <1>2, <1>4, <3>1
    <3> QED BY <1>6, <1>10, <2>2, <3>2
  <2> QED BY <2>1, <2>2
<1>13. \/ antPc' = [antPc EXCEPT ![c] = "done"]
       \/ antPc' = [antPc EXCEPT ![c] = "load"]
  BY <1>9
<1> QED BY <1>8, <1>9, <1>10, <1>11, <1>12, <1>13

\* Of AntTypeOK, what the steps of callers and what those of the cache change.
CallersTyped ==
  /\ antPc \in [Callers -> {"idle", "load", "compile", "done"}]
  /\ \A c \in Callers : antPc[c] # "idle" => question[c] \in Programs[program].questions
  /\ \A c \in Callers : antPc[c] \in {"load", "compile"} => left[c] # <<>>
  /\ answer \in [Callers -> BOOLEAN]

CacheRight == \A p \in DOMAIN patternCache : patternCache[p] = convertPatternToRegex(p)

LEMMA AntTypes ==
  AntTypeOK <=> CallersTyped /\ CacheRight /\ clears \in 0..Programs[program].clears
BY DEF AntTypeOK, CallersTyped, CacheRight

LEMMA WaitsForSome ==
  ASSUME NEW q, q.patterns \in Seq(PatternsOf(q)), NEW k \in 1..Len(q.patterns),
         NEW rest, WaitsAt(q, k, rest)
  PROVE  /\ rest # <<>> /\ Head(rest) = q.patterns[k]
         /\ RestFrom(q, k, rest) /\ RestFrom(q, k + 1, Tail(rest))
<1>1. /\ rest \in Seq(PatternsOf(q)) /\ Len(rest) = Len(q.patterns) + 1 - k
      /\ \A i \in 1..Len(rest) : rest[i] = q.patterns[k + i - 1]
  BY DEF WaitsAt, RestFrom
<1>2. Len(rest) >= 1 /\ Len(<<>>) = 0
  BY <1>1
<1>3. rest[1] = q.patterns[k]
  BY <1>1, <1>2
<1>4. Tail(rest) \in Seq(PatternsOf(q)) /\ Len(Tail(rest)) = Len(rest) - 1
      /\ \A i \in 1..Len(Tail(rest)) : Tail(rest)[i] = rest[i + 1]
  BY <1>1, <1>2
<1>5. ASSUME NEW i \in 1..Len(Tail(rest))
      PROVE  Tail(rest)[i] = q.patterns[(k + 1) + i - 1]
  <2>1. i + 1 \in 1..Len(rest)
    BY <1>1, <1>4
  <2>2. k + (i + 1) - 1 = (k + 1) + i - 1
    BY <1>4
  <2> QED BY <1>1, <1>4, <2>1, <2>2
<1>6. RestFrom(q, k + 1, Tail(rest))
  <2>1. Len(q.patterns) \in Nat
    OBVIOUS
  <2>2. Len(Tail(rest)) = Len(q.patterns) + 1 - (k + 1)
    <3>1. \A m, r : \A n \in Nat : m = n + 1 - k /\ r = m - 1 => r = n + 1 - (k + 1)
      <4>1. k \in Int
        BY <2>1
      <4> QED BY <4>1
    <3> QED BY Zenon, <1>1, <1>4, <2>1, <3>1
  <2> QED BY Zenon, <1>4, <1>5, <2>2 DEF RestFrom
<1> QED BY <1>2, <1>3, <1>6 DEF WaitsAt

(* A step of one caller leaves it waiting or rightly done.                   *)
LEMMA CallerStep ==
  ASSUME AntInv, NEW c \in Callers, program' = program,
         NEW p \in {"load", "compile", "done"}, antPc' = [antPc EXCEPT ![c] = p],
         NEW q \in Programs[program].questions, question' = [question EXCEPT ![c] = q],
         NEW l, left' = [left EXCEPT ![c] = l],
         NEW a \in BOOLEAN, answer' = [answer EXCEPT ![c] = a],
         p \in {"load", "compile"} => \E n \in 1..Len(q.patterns) : WaitsAt(q, n, l),
         p = "done" => (a <=> \E i \in 1..Len(q.patterns) : Meant(q, i))
  PROVE  CallsTyped' /\ CallersTyped' /\ WaitingInv' /\ AnswersMeant'
<1>1. CallsTyped /\ CallersTyped /\ WaitingInv /\ AnswersMeant
  BY AntTypes DEF AntInv
<1>2. CallsTyped'
  BY <1>1 DEF CallsTyped
<1>3. /\ \A d \in Callers : d # c => /\ antPc'[d] = antPc[d] /\ question'[d] = question[d]
                                     /\ left'[d] = left[d] /\ answer'[d] = answer[d]
      /\ antPc'[c] = p /\ question'[c] = q /\ left'[c] = l /\ answer'[c] = a
  BY <1>1 DEF CallsTyped, CallersTyped
<1>4. q.patterns \in Seq(PatternsOf(q))
  BY <1>1, ProgramsTyped DEF CallsTyped
<1>5. p \in {"load", "compile"} => l # <<>>
  BY <1>4, WaitsForSome
<1>6. CallersTyped'
  BY <1>1, <1>3, <1>5 DEF CallersTyped
<1>7. WaitingInv'
  BY <1>1, <1>3 DEF WaitingInv
<1>8. AnswersMeant'
  BY <1>1, <1>3 DEF AnswersMeant, Meant
<1> QED BY <1>2, <1>6, <1>7, <1>8

LEMMA TryStep ==
  ASSUME PatternsDecided, AntInv, NEW c \in Callers, program' = program,
         NEW q \in Programs[program].questions, question' = [question EXCEPT ![c] = q],
         NEW k \in 1..(Len(q.patterns) + 1), NEW rest, RestFrom(q, k, rest),
         \A j \in 1..(k - 1) : ~Meant(q, j),
         Try(c, rest, q.path)
  PROVE  CallsTyped' /\ CallersTyped' /\ WaitingInv' /\ AnswersMeant'
<1>1. AntTypeOK /\ CallsTyped
  BY DEF AntInv
<1>2. /\ \/ antPc' = [antPc EXCEPT ![c] = "done"]
         \/ antPc' = [antPc EXCEPT ![c] = "load"]
      /\ left' = [left EXCEPT ![c] = left'[c]]
      /\ answer' = [answer EXCEPT ![c] = answer'[c]] /\ answer'[c] \in BOOLEAN
      /\ antPc'[c] = "load" => \E n \in 1..Len(q.patterns) : WaitsAt(q, n, left'[c])
      /\ antPc'[c] = "done" => (answer'[c] <=> \E i \in 1..Len(q.patterns) : Meant(q, i))
  BY <1>1, TryRight
<1>3. PICK p \in {"load", "done"} : antPc' = [antPc EXCEPT ![c] = p]
  BY <1>2
<1>4. antPc'[c] = p
  BY <1>1, <1>3 DEF AntTypeOK
<1>5. PICK l : l = left'[c]
  OBVIOUS
<1>6. PICK a \in BOOLEAN : a = answer'[c]
  BY <1>2
<1> QED BY <1>2, <1>3, <1>4, <1>5, <1>6, CallerStep

(* A caller that was waiting for a pattern and has it compiled.              *)
LEMMA MatchedStep ==
  ASSUME PatternsDecided, AntInv, NEW c \in Callers, antPc[c] \in {"load", "compile"},
         program' = program, question' = question,
         Matched(c, convertPatternToRegex(Key(c)))
  PROVE  CallsTyped' /\ CallersTyped' /\ WaitingInv' /\ AnswersMeant'
<1> DEFINE q == question[c]
<1>1. /\ AntTypeOK /\ CallsTyped /\ CallersTyped /\ WaitingInv
  BY AntTypes DEF AntInv
<1>2. q \in Programs[program].questions
  BY <1>1 DEF CallersTyped
<1>3. program \in DOMAIN Programs /\ q.patterns \in Seq(PatternsOf(q))
  BY <1>1, <1>2, ProgramsTyped DEF CallsTyped
<1>4. PICK k \in 1..Len(q.patterns) : WaitsAt(q, k, left[c])
  BY <1>1 DEF WaitingInv
<1>5. /\ Head(left[c]) = q.patterns[k]
      /\ RestFrom(q, k, left[c]) /\ RestFrom(q, k + 1, Tail(left[c]))
  BY <1>3, <1>4, WaitsForSome
<1>6. /\ \A j \in 1..(k - 1) : ~Meant(q, j)
      /\ ~PassedOver(q.patterns[k], q.path) /\ ~Same(q.patterns[k], q.path)
  BY <1>4 DEF WaitsAt
<1>7. Meant(q, k) <=> MatchString(convertPatternToRegex(Key(c)), Cleaned(q.path))
  <2>1. Meant(q, k) <=>
          \/ Same(q.patterns[k], q.path)
          \/ /\ HasWildcards(Cleaned(q.patterns[k]))
             /\ MatchString(convertPatternToRegex(Cleaned(q.patterns[k])), Cleaned(q.path))
    BY <1>2, <1>3, OneDecided
  <2> QED BY <1>5, <1>6, <2>1 DEF PassedOver, Key
<1>8. Len(q.patterns) \in Nat /\ k \in Nat
  BY <1>3
<1>9. CASE MatchString(convertPatternToRegex(Key(c)), Cleaned(q.path))
  <2>1. /\ antPc' = [antPc EXCEPT ![c] = "done"] /\ answer' = [answer EXCEPT ![c] = TRUE]
        /\ left' = left
    BY <1>9 DEF Matched
  <2>2. left' = [left EXCEPT ![c] = left[c]] /\ question' = [question EXCEPT ![c] = q]
    BY <1>1, <2>1 DEF CallsTyped
  <2>3. \E i \in 1..Len(q.patterns) : Meant(q, i)
    BY <1>4, <1>7, <1>9
  <2> HIDE DEF q
  <2> QED BY <1>2, <2>1, <2>2, <2>3, CallerStep
<1>10. CASE ~MatchString(convertPatternToRegex(Key(c)), Cleaned(q.path))
  <2>1. Try(c, Tail(left[c]), q.path)
    BY <1>10 DEF Matched
  <2>2. \A j \in 1..((k + 1) - 1) : ~Meant(q, j)
    <3>1. ASSUME NEW j \in 1..((k + 1) - 1) PROVE j \in 1..(k - 1) \/ j = k
      BY <1>8
    <3> QED BY <1>6, <1>7, <1>10, <3>1
  <2>3. question' = [question EXCEPT ![c] = q]
    BY <1>1 DEF CallsTyped
  <2>4. k + 1 \in 1..(Len(q.patterns) + 1)
    BY <1>8
  <2> HIDE DEF q
  <2> QED BY <1>2, <1>5, <2>1, <2>2, <2>3, <2>4, TryStep
<1> QED BY <1>9, <1>10

LEMMA AntStep ==
  ASSUME PatternsDecided, AntInv, [AntNext]_antVars
  PROVE  AntInv'
<1>1. /\ CallsTyped /\ CallersTyped /\ CacheRight /\ clears \in 0..Programs[program].clears
      /\ WaitingInv /\ AnswersMeant /\ ClearInv
  BY AntTypes DEF AntInv
<1>2. Programs[program].clears \in Nat
  BY <1>1, ProgramsTyped DEF CallsTyped
<1>3. ASSUME program' = program, clears' \in 0..Programs[program].clears,
             CallsTyped', CallersTyped', CacheRight', WaitingInv', AnswersMeant', ClearInv'
      PROVE  AntInv'
  BY <1>3, AntTypes DEF AntInv, AntTypeOK, CallersTyped, CacheRight
<1>4. ASSUME NEW c \in Callers, Matchs(c) PROVE AntInv'
  <2>1. /\ program' = program /\ clears' = clears /\ UNCHANGED <<patternCache, todo, stored>>
    BY <1>4 DEF Matchs, clearVars
  <2>2. PICK q \in Programs[program].questions :
          question' = [question EXCEPT ![c] = q] /\ Try(c, q.patterns, q.path)
    BY <1>4 DEF Matchs
  <2>3. q.patterns \in Seq(PatternsOf(q)) /\ Len(q.patterns) \in Nat
    BY <1>1, ProgramsTyped DEF CallsTyped
  <2>4. RestFrom(q, 1, q.patterns) /\ 1 \in 1..(Len(q.patterns) + 1)
    BY <2>3 DEF RestFrom
  <2>5. \A j \in 1..(1 - 1) : ~Meant(q, j)
    OBVIOUS
  <2>6. CallsTyped' /\ CallersTyped' /\ WaitingInv' /\ AnswersMeant'
    BY <2>1, <2>2, <2>4, <2>5, TryStep
  <2>7. CacheRight' /\ ClearInv'
    BY <1>1, <2>1 DEF CacheRight, ClearInv
  <2> QED BY <1>1, <1>3, <2>1, <2>6, <2>7
<1>5. ASSUME NEW c \in Callers, Load(c) PROVE AntInv'
  <2>1. /\ program' = program /\ clears' = clears /\ question' = question
        /\ UNCHANGED <<patternCache, todo, stored>> /\ antPc[c] = "load"
    BY <1>5 DEF Load, clearVars
  <2>2. CacheRight' /\ ClearInv'
    BY <1>1, <2>1 DEF CacheRight, ClearInv
  <2>3. CallsTyped' /\ CallersTyped' /\ WaitingInv' /\ AnswersMeant'
    <3>1. CASE Key(c) \in DOMAIN patternCache
      <4>1. Matched(c, convertPatternToRegex(Key(c)))
        BY <1>1, <1>5, <3>1 DEF Load, CacheRight
      <4> QED BY <2>1, <4>1, MatchedStep
    <3>2. CASE Key(c) \notin DOMAIN patternCache
      <4>1. antPc' = [antPc EXCEPT ![c] = "compile"] /\ left' = left /\ answer' = answer
        BY <1>5, <3>2 DEF Load
      <4>2. /\ left' = [left EXCEPT ![c] = left[c]] /\ answer' = [answer EXCEPT ![c] = answer[c]]
            /\ question' = [question EXCEPT ![c] = question[c]]
            /\ answer[c] \in BOOLEAN
        BY <1>1, <2>1, <4>1 DEF CallsTyped, CallersTyped
      <4>3. /\ question[c] \in Programs[program].questions
            /\ \E n \in 1..Len(question[c].patterns) : WaitsAt(question[c], n, left[c])
        BY <1>1, <2>1 DEF CallersTyped, WaitingInv
      <4>4. PICK q : q = question[c]
        OBVIOUS
      <4>5. PICK a \in BOOLEAN : a = answer[c]
        BY <4>2
      <4>6. PICK l : l = left[c]
        OBVIOUS
      <4> QED BY <2>1, <4>1, <4>2, <4>3, <4>4, <4>5, <4>6, CallerStep
    <3> QED BY <3>1, <3>2
  <2> QED BY <1>1, <1>3, <2>1, <2>2, <2>3
<1>6. ASSUME NEW c \in Callers, Store(c) PROVE AntInv'
  <2> DEFINE regex == convertPatternToRegex(Cleaned(Head(left[c])))
  <2>1. /\ program' = program /\ clears' = clears /\ question' = question
        /\ todo' = todo /\ antPc[c] = "compile"
        /\ stored' = stored \union {Key(c)}
        /\ patternCache' = [p \in DOMAIN patternCache \union {Key(c)} |->
                              IF p = Key(c) THEN regex ELSE patternCache[p]]
        /\ Matched(c, regex)
    BY <1>6 DEF Store
  <2>2. regex = convertPatternToRegex(Key(c))
    BY DEF Key
  <2> HIDE DEF regex
  <2>3. CacheRight' /\ ClearInv'
    BY <1>1, <2>1, <2>2 DEF CacheRight, ClearInv
  <2>4. CallsTyped' /\ CallersTyped' /\ WaitingInv' /\ AnswersMeant'
    BY <2>1, <2>2, MatchedStep
  <2> QED BY <1>1, <1>3, <2>1, <2>3, <2>4
<1>7. ASSUME UNCHANGED <<program, callVars>>
      PROVE  CallsTyped' /\ CallersTyped' /\ WaitingInv' /\ AnswersMeant'
  BY <1>1, <1>7 DEF callVars, CallsTyped, CallersTyped, WaitingInv, AnswersMeant
<1>8. CASE BeginClear
  <2>1. /\ UNCHANGED <<program, callVars>> /\ patternCache' = patternCache
        /\ clears' = clears + 1 /\ clears < Programs[program].clears
        /\ todo' = DOMAIN patternCache
    BY <1>8 DEF BeginClear
  <2>2. CacheRight' /\ ClearInv' /\ clears' \in 0..Programs[program].clears
    BY <1>1, <1>2, <2>1 DEF CacheRight, ClearInv
  <2> QED BY <1>3, <1>7, <2>1, <2>2
<1>9. CASE Delete
  <2>1. PICK p \in todo :
          /\ patternCache' = [q \in DOMAIN patternCache \ {p} |-> patternCache[q]]
          /\ todo' = todo \ {p}
          /\ UNCHANGED <<program, callVars, clears, stored>>
    BY <1>9 DEF Delete
  <2>2. CacheRight' /\ ClearInv'
    BY <1>1, <2>1 DEF CacheRight, ClearInv
  <2> QED BY <1>1, <1>3, <1>7, <2>1, <2>2
<1>10. CASE UNCHANGED antVars
  <2>1. UNCHANGED <<program, callVars, patternCache, clears, stored, todo>>
    BY <1>10 DEF antVars, clearVars
  <2>2. CacheRight' /\ ClearInv'
    BY <1>1, <2>1 DEF CacheRight, ClearInv
  <2> QED BY <1>1, <1>3, <1>7, <2>1, <2>2
<1> QED BY <1>4, <1>5, <1>6, <1>8, <1>9, <1>10 DEF AntNext

LEMMA AntStart ==
  ASSUME AntInit
  PROVE  AntInv
<1>1. CallsTyped /\ ClearInv
  BY DEF AntInit, CallsTyped, ClearInv
<1>2. Programs[program].clears \in Nat
  BY ProgramsTyped DEF AntInit
<1>3. DOMAIN <<>> = {}
  OBVIOUS
<1>4. CallersTyped /\ CacheRight /\ clears \in 0..Programs[program].clears
  BY <1>2, <1>3 DEF AntInit, CallersTyped, CacheRight
<1>5. WaitingInv /\ AnswersMeant
  BY DEF AntInit, WaitingInv, AnswersMeant
<1> QED BY <1>1, <1>4, <1>5, AntTypes DEF AntInv

(* If each pattern, decided alone, means what it denotes, then so do the     *)
(* answers of any number of callers that share the cache of compiled         *)
(* patterns while it is cleared, and a ClearCache that has returned has left *)
(* nothing but what was stored meanwhile.                                    *)
THEOREM AnswersStayRight ==
  ASSUME PatternsDecided
  PROVE  AntSpec => []AnswersRight
<1>1. AntInit => AntInv
  BY AntStart
<1>2. AntInv /\ [AntNext]_antVars => AntInv'
  BY AntStep
<1>3. AntInv => AnswersRight
  <2>1. ASSUME ClearInv PROVE ClearEmpties
    BY <2>1 DEF ClearInv, ClearEmpties
  <2> QED BY <2>1 DEF AntInv, AnswersRight
<1> QED BY <1>1, <1>2, <1>3, PTL DEF AntSpec

=============================================================================
