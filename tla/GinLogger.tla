------------------------------ MODULE GinLogger ------------------------------
(***************************************************************************)
(* The gin middleware of log/gin-log.go around one request: the log entries *)
(* of its start and end, and the records of a breakpoint, which the          *)
(* configured Handler gets before and after the request is handled.  The     *)
(* caller of GinLogger keeps the configuration and may change it meanwhile;  *)
(* a handler may panic at any point, a breakpoint's Handler too.             *)
(*                                                                         *)
(* A body is a sequence of pieces.  A rule of a breakpoint has the paths its *)
(* Urls match and the items of its RuleTypes.                                *)
(***************************************************************************)
EXTENDS Naturals, Sequences

CONSTANTS
  Configs,     \* BreakpointConfigs: [enabled, handler, rules]; a nil one is not enabled
  Requests,    \* [method, body, path, ip, clientIp, session, gateway, header, id]
  Users,       \* the user ids that sessions hold
  Recovery,    \* where GinRecovery is used: inside (after) or outside of GinLogger
  MaxWrites, MaxChanges   \* bounds, for TLC

Methods == {"GET", "POST", "multipart"}

ASSUME GinAssumption ==
  /\ Recovery \subseteq {"inside", "outside"}
  /\ \A r \in Requests : r.method \in Methods /\ DOMAIN r.body \subseteq Nat
  /\ \A c \in Configs : c.enabled \in BOOLEAN /\ c.handler \in BOOLEAN
  /\ MaxWrites \in Nat /\ MaxChanges \in Nat

VARIABLES
  config,        \* BreakpointConfig, shared with the caller
  recovery,      \* the order of the two middlewares
  req, ginPc,
  isBreakpoint,  \* decided once
  rawBody,
  body,          \* c.Request.Body: client, broken, or a copy: restored
  got,           \* what the handler read: nothing yet, its body, or an error
  status, sent,  \* of the response: the status, what was handed to c.Writer
  captured,      \* responseWriter.body
  entries,       \* the log
  records,       \* what Handler was given
  ownPanic,      \* history: GinLogger itself panicked, its masking or a call of Handler
  changes        \* of the configuration

bodyVars == <<rawBody, body, got>>
respVars == <<status, sent, captured>>
logVars == <<entries, records, ownPanic>>
confVars == <<config, recovery, changes>>
ginVars == <<confVars, req, ginPc, isBreakpoint, bodyVars, respVars, logVars>>

-----------------------------------------------------------------------------
\* user.GetUserId: an absent or garbled session has no user.
GetUserId(r) == IF r.session \in Users THEN r.session ELSE ""

\* The ip of the gateway's header, or the connection's.
Ip(r) == IF r.ip # "" THEN r.ip ELSE r.clientIp

matchRuleType(r, item) ==
  CASE item.type = "ip" -> Ip(r) \in item.data \ {""}
    [] item.type = "user" -> GetUserId(r) \in item.data \ {""}
    [] item.type = "gateway" -> r.gateway
    [] item.type = "header" -> r.header \in item.data \ {""}

checkBreakpoint(c, r) ==
  \/ c.rules = {}
  \/ \E rule \in c.rules :
       /\ r.path \in rule.urls
       /\ rule.types = {} \/ \E item \in rule.types : matchRuleType(r, item)

\* An id comes with the request, or is made for it.
RequestId(r) == IF r.id # "" THEN r.id ELSE "new"

RequestRecord == [type |-> "request", id |-> RequestId(req), body |-> rawBody,
                  status |-> 0, response |-> <<>>]
ResponseRecord == [type |-> "response", id |-> RequestId(req), body |-> <<>>,
                   status |-> status, response |-> captured]
Entry(text, s) == [text |-> text, id |-> RequestId(req), status |-> s]

Pieces == {"text", "data", "error"}

\* What gin answers by default, what a handler sets, and what GinRecovery sets.
Statuses == {200, 404, 500}

GinTypeOK ==
  /\ config \in Configs /\ recovery \in Recovery /\ changes \in 0..MaxChanges
  /\ req \in Requests
  /\ ginPc \in {"check", "params", "request", "start", "handler", "response", "end",
             "panic", "escaped", "gone"}
  /\ isBreakpoint \in BOOLEAN
  /\ rawBody \in {<<>>, req.body}
  /\ body \in {"client", "broken", "restored", "read"}
  /\ got \in {"nothing", "body", "empty", "error"}
  /\ status \in Statuses
  /\ sent \in Seq(Pieces) /\ captured \in Seq(Pieces)
  /\ Len(entries) <= 3 /\ Len(records) <= 2
  /\ ownPanic \in BOOLEAN

GinInit ==
  /\ config \in Configs /\ recovery \in Recovery /\ changes = 0
  /\ req \in Requests
  /\ ginPc = "check" /\ isBreakpoint = FALSE
  /\ rawBody = <<>> /\ body = "client" /\ got = "nothing"
  /\ status = 200 /\ sent = <<>> /\ captured = <<>>
  /\ entries = <<>> /\ records = <<>> /\ ownPanic = FALSE

-----------------------------------------------------------------------------
Check ==
  /\ ginPc = "check"
  /\ isBreakpoint' = (config.enabled /\ config.handler /\ checkBreakpoint(config, req))
  /\ ginPc' = "params"
  /\ UNCHANGED <<confVars, req, bodyVars, respVars, logVars>>

(* GetRawData reads the body, which is put back unless it is empty or the    *)
(* connection broke; a GET and an upload are not read.                       *)
Params ==
  /\ ginPc = "params"
  /\ ginPc' = IF isBreakpoint THEN "request" ELSE "start"
  /\ \/ /\ req.method = "POST" /\ req.body # <<>>
        /\ body' = "restored" /\ rawBody' = req.body
     \/ /\ req.method = "POST" /\ req.body = <<>>
        /\ body' = "read" /\ UNCHANGED rawBody
     \/ /\ req.method = "POST"
        /\ body' = "broken" /\ UNCHANGED rawBody
     \/ /\ req.method # "POST"
        /\ UNCHANGED <<body, rawBody>>
  /\ UNCHANGED <<confVars, req, isBreakpoint, got, respVars, logVars>>

(* A value longer than a MaxLength of 1 or 2 makes the masking of the        *)
(* parameters panic: of a query, or of the body after it was read.           *)
MaskingPanics ==
  /\ ginPc = "params"
  /\ \/ req.method = "GET" /\ UNCHANGED <<body, rawBody>>
     \/ /\ req.method = "POST" /\ req.body # <<>>
        /\ body' = "read" /\ rawBody' = req.body
  /\ ginPc' = "escaped" /\ ownPanic' = TRUE
  /\ UNCHANGED <<confVars, req, isBreakpoint, got, respVars, entries, records>>

(* Handler, as it is now, in the middleware's goroutine and above a          *)
(* GinRecovery inside: one that is nil by now panics.                        *)
CallHandler(record, next) ==
  \/ /\ config.handler
     /\ records' = Append(records, record)
     /\ ginPc' = next
     /\ UNCHANGED ownPanic
  \/ /\ IF config.handler THEN records' = Append(records, record) ELSE UNCHANGED records
     /\ ginPc' = "escaped"
     /\ ownPanic' = TRUE

SendBreakpointRequest ==
  /\ ginPc = "request"
  /\ CallHandler(RequestRecord, "start")
  /\ UNCHANGED <<confVars, req, isBreakpoint, bodyVars, respVars, entries>>

LogStart ==
  /\ ginPc = "start"
  /\ entries' = Append(entries, Entry("start", 0))
  /\ ginPc' = "handler"
  /\ UNCHANGED <<confVars, req, isBreakpoint, bodyVars, respVars, records, ownPanic>>

-----------------------------------------------------------------------------
(* The handlers after the middleware: they may read the body, set a status,  *)
(* write and panic.                                                          *)

ReadBody ==
  /\ ginPc = "handler" /\ got = "nothing"
  /\ \/ body \in {"client", "restored"} /\ body' = "read"
        /\ got' = IF req.body = <<>> THEN "empty" ELSE "body"
     \/ body = "client" /\ body' = "broken" /\ got' = "error"
     \/ body = "read" /\ got' = "empty" /\ UNCHANGED body
     \/ body = "broken" /\ got' = "error" /\ UNCHANGED body
  /\ UNCHANGED <<confVars, req, ginPc, isBreakpoint, rawBody, respVars, logVars>>

\* c.Writer is a responseWriter from the log of the start on.
Wrapped == isBreakpoint /\ entries # <<>>

\* responseWriter.Write (data), responseWriter.WriteString (text), if c.Writer is one.
Hand(piece) ==
  /\ sent' = Append(sent, piece)
  /\ captured' = IF Wrapped THEN Append(captured, piece) ELSE captured

Write ==
  /\ ginPc = "handler" /\ Len(sent) < MaxWrites
  /\ \E piece \in {"text", "data"} : Hand(piece)
  /\ UNCHANGED <<confVars, req, ginPc, isBreakpoint, bodyVars, status, logVars>>

\* gin takes no other status once an answer has begun.
SetStatus ==
  /\ ginPc = "handler" /\ sent = <<>>
  /\ status' = 404
  /\ UNCHANGED <<confVars, req, ginPc, isBreakpoint, bodyVars, sent, captured, logVars>>

HandlerReturns ==
  /\ ginPc = "handler"
  /\ ginPc' = IF isBreakpoint THEN "response" ELSE "end"
  /\ UNCHANGED <<confVars, req, isBreakpoint, bodyVars, respVars, logVars>>

HandlerPanics ==
  /\ ginPc = "handler"
  /\ ginPc' = IF recovery = "inside" THEN "panic" ELSE "escaped"
  /\ UNCHANGED <<confVars, req, isBreakpoint, bodyVars, respVars, logVars>>

(* GinRecovery logs the panic and answers 500, unless an answer has begun.   *)
Recovers(next) ==
  /\ entries' = Append(entries, Entry("panic", 0))
  /\ status' = IF sent = <<>> THEN 500 ELSE status
  /\ Hand("error")
  /\ ginPc' = next

\* ... below GinLogger, which goes on,
RecoverInside ==
  /\ ginPc = "panic"
  /\ Recovers(IF isBreakpoint THEN "response" ELSE "end")
  /\ UNCHANGED <<confVars, req, isBreakpoint, bodyVars, records, ownPanic>>

\* ... or above it, or gin's own Recovery, when the panic has left GinLogger.
Escapes ==
  /\ ginPc = "escaped"
  /\ \/ /\ recovery = "outside"
        /\ Recovers("gone")
     \/ /\ recovery = "inside"
        /\ status' = IF sent = <<>> THEN 500 ELSE status
        /\ ginPc' = "gone"
        /\ UNCHANGED <<entries, sent, captured>>
  /\ UNCHANGED <<confVars, req, isBreakpoint, bodyVars, records, ownPanic>>

-----------------------------------------------------------------------------
\* Mutant: whether there is a breakpoint is asked again.
SendBreakpointResponse_Rechecks ==
  /\ ginPc = "response"
  /\ \/ config.enabled /\ CallHandler(ResponseRecord, "end")
     \/ ~config.enabled /\ ginPc' = "end" /\ UNCHANGED <<records, ownPanic>>
  /\ UNCHANGED <<confVars, req, isBreakpoint, bodyVars, respVars, entries>>

SendBreakpointResponse ==
  /\ ginPc = "response"
  /\ CallHandler(ResponseRecord, "end")
  /\ UNCHANGED <<confVars, req, isBreakpoint, bodyVars, respVars, entries>>

LogEnd ==
  /\ ginPc = "end"
  /\ entries' = Append(entries, Entry("end", status))
  /\ ginPc' = "gone"
  /\ UNCHANGED <<confVars, req, isBreakpoint, bodyVars, respVars, records, ownPanic>>

\* The owner of the configuration changes it.
Change ==
  /\ changes < MaxChanges /\ ginPc # "gone"
  /\ config' \in Configs \ {config}
  /\ changes' = changes + 1
  /\ UNCHANGED <<recovery, req, ginPc, isBreakpoint, bodyVars, respVars, logVars>>

GinNext ==
  \/ Check \/ Params \/ MaskingPanics \/ SendBreakpointRequest \/ LogStart
  \/ ReadBody \/ SetStatus \/ Write \/ HandlerReturns \/ HandlerPanics
  \/ RecoverInside \/ Escapes
  \/ SendBreakpointResponse \/ LogEnd \/ Change

GinSpec == GinInit /\ [][GinNext]_ginVars

-----------------------------------------------------------------------------
(* The middleware, which reads the body first, takes nothing from the        *)
(* handlers: one that reads its body without an error gets all of it.        *)
HandlerGetsBody == got = "empty" => req.body = <<>>

(* Breakpoint records come in pairs of one id: once a request is over, its   *)
(* breakpoint has a request record with the body that was sent and, unless a *)
(* panic passed GinLogger, a response record with the status and all that    *)
(* was answered, GinRecovery's message too, even when the rules changed      *)
(* meanwhile; a request without a breakpoint has no record.                  *)
RecordsPaired ==
  ginPc = "gone" =>
    IF ~isBreakpoint THEN records = <<>>
    ELSE
      /\ records = <<>> => ownPanic
      /\ records # <<>> =>
           /\ records[1].type = "request"
           /\ req.method = "POST" => body = "broken" \/ records[1].body = req.body
      /\ recovery = "inside" /\ ~ownPanic =>
           /\ Len(records) = 2
           /\ records[2].type = "response" /\ records[2].id = records[1].id
           /\ records[2].status = status /\ records[2].response = sent

(* With the middlewares in the order of README.md:127, a request whose start *)
(* is logged has its end logged, with the status that was answered, whether  *)
(* its handler panics or not.                                                *)
EndIsLogged ==
  ginPc = "gone" /\ recovery = "inside" /\ ~ownPanic =>
    /\ entries[1] = Entry("start", 0)
    /\ entries[Len(entries)] = Entry("end", status)

(* All of it: the handlers get the body the middleware read before them,     *)
(* breakpoint records come in pairs that tell what was sent and answered,    *)
(* and the end of a request is logged with the status it was answered with.  *)
RequestIsRecorded == GinTypeOK /\ HandlerGetsBody /\ RecordsPaired /\ EndIsLogged

=============================================================================
