----------------------------- MODULE FileClient -----------------------------
(***************************************************************************)
(* One call of the client of the file service, file-client/client.go.      *)
(*                                                                         *)
(*   upload     Upload, UploadChunk: a goroutine writes a multipart form   *)
(*              into a pipe, the HTTP transport reads the pipe's other end *)
(*              into the request, and the caller waits for the response    *)
(*              first, for the goroutine's verdict second                  *)
(*   request    GetChunkDownloadInfo, InitChunkUpload, MergeChunks, Delete,*)
(*              BatchDelete: a request held in memory, an answer in JSON   *)
(*   stream     DownloadStream, DownloadChunkStream: the response's body is*)
(*              handed to the caller, who closes it                        *)
(*   download   Download, DownloadChunk: ... is read to its end            *)
(*                                                                         *)
(* The transport, the connection and the file server are external, and     *)
(* modelled from what net/http promises: a request's body is closed when   *)
(* the request ends badly, a response may come before the body has been    *)
(* sent, a response cut short is an error to its reader (the server frames *)
(* its answers).  A server reports success only for a request it has read  *)
(* to its end.                                                             *)
(***************************************************************************)
EXTENDS Naturals

CONSTANTS
  Fields,   \* form fields before the file: 0 in Upload, 2 in UploadChunk
  Size      \* pieces of data: of the caller's reader, of a file on the server

ASSUME ClientAssumption == Fields \subseteq Nat /\ Size \in Nat

VARIABLES
  op,            \* the operation called
  prod,          \* the goroutine: what it does next
  fields, got,   \* fields still to write, pieces read from the caller's reader
  sourceFailed,  \* the reader has returned an error
  verdict,       \* what the goroutine has to report, nil or an error
  errChan,       \* the channel of capacity 1
  caller,        \* where the operation is
  result,        \* what it returned
  body,          \* the response's body, from Do to Close
  conn,          \* external: the transport's connection
  pipeClosed,    \* external: the transport has closed the pipe's read end
  received,      \* external: pieces, and whether the closing boundary, arrived
  reply,         \* external: the server's response
  arrived        \* external: pieces of its body

prodVars == <<prod, fields, got, sourceFailed, verdict>>
callVars == <<op, caller, result, body>>
httpVars == <<conn, pipeClosed, received, reply, arrived>>
vars == <<prodVars, errChan, callVars, httpVars>>

Writing == {"field", "part", "data", "trailer"}   \* blocked in a write to the pipe
Ops == {"upload", "request", "stream", "download"}
Replies == {"success", "failure", "garbage"}
Length == IF op \in {"stream", "download"} THEN Size ELSE 1   \* of a response's body

TypeOK ==
  /\ op \in Ops
  /\ prod \in Writing \cup {"idle", "read", "report", "close", "done"}
  /\ fields \in Nat /\ got \in 0..Size
  /\ sourceFailed \in BOOLEAN
  /\ verdict \in {"nil", "error"}
  /\ errChan \in {"empty", "nil", "error"}
  /\ caller \in {"discover", "start", "do", "await", "status", "readAll", "decode", "returned"}
  /\ result \in {"none", "error", "success", "failure"}
  /\ conn \in {"none", "dialing", "open", "sent", "closed"}
  /\ pipeClosed \in BOOLEAN
  /\ received \in [data : 0..Size, whole : BOOLEAN]
  /\ reply \in Replies \cup {"none"}
  /\ body \in {"none", "open", "closed"}
  /\ arrived \in 0..Length

Init ==
  /\ op \in Ops
  /\ prod = "idle" /\ fields \in Fields /\ got = 0
  /\ sourceFailed = FALSE /\ verdict = "nil"
  /\ errChan = "empty"
  /\ caller = "discover" /\ result = "none" /\ body = "none"
  /\ conn = "none" /\ pipeClosed = FALSE
  /\ received = [data |-> 0, whole |-> FALSE]
  /\ reply = "none" /\ arrived = 0

-----------------------------------------------------------------------------
(* The goroutine.  Its writes are taken by the transport, or fail once the  *)
(* transport has closed the pipe.                                          *)

Transfer ==
  /\ conn = "open" /\ ~pipeClosed
  /\ \/ /\ prod = "field"
        /\ fields' = fields - 1
        /\ prod' = IF fields = 1 THEN "part" ELSE "field"
        /\ UNCHANGED received
     \/ /\ prod = "part" /\ prod' = "read"
        /\ UNCHANGED <<fields, received>>
     \/ /\ prod = "data" /\ prod' = "read"
        /\ received' = [received EXCEPT !.data = @ + 1]
        /\ UNCHANGED fields
     \/ /\ prod = "trailer" /\ prod' = "close"
        /\ received' = [received EXCEPT !.whole = TRUE]
        /\ UNCHANGED fields
  /\ UNCHANGED <<got, sourceFailed, verdict, errChan, callVars, conn, pipeClosed, reply, arrived>>

\* The errors of WriteField and of the deferred writer.Close are not looked at.
WriteFails ==
  /\ pipeClosed
  /\ \/ /\ prod = "field"
        /\ fields' = fields - 1
        /\ prod' = IF fields = 1 THEN "part" ELSE "field"
        /\ UNCHANGED verdict
     \/ prod \in {"part", "data"} /\ prod' = "report" /\ verdict' = "error" /\ UNCHANGED fields
     \/ prod = "trailer" /\ prod' = "close" /\ UNCHANGED <<fields, verdict>>
  /\ UNCHANGED <<got, sourceFailed, errChan, callVars, httpVars>>

\* io.Copy reads the caller's reader: more data, its end, or an error.
ReadSource ==
  /\ prod = "read"
  /\ \/ got < Size /\ got' = got + 1 /\ prod' = "data" /\ UNCHANGED <<sourceFailed, verdict>>
     \/ got = Size /\ prod' = "report" /\ UNCHANGED <<got, sourceFailed, verdict>>
     \/ /\ sourceFailed' = TRUE /\ verdict' = "error"
        /\ prod' = "report"
        /\ UNCHANGED got
  /\ UNCHANGED <<fields, errChan, callVars, httpVars>>

\* Mutant: the channel has no buffer.
Report_Unbuffered ==
  /\ prod = "report" /\ errChan = "empty" /\ caller = "await"
  /\ errChan' = verdict
  /\ prod' = "trailer"
  /\ UNCHANGED <<fields, got, sourceFailed, verdict, callVars, httpVars>>

\* The verdict goes to the channel; then, error or not, the deferred
\* writer.Close writes the closing boundary ...
Report ==
  /\ prod = "report" /\ errChan = "empty"
  /\ errChan' = verdict
  /\ prod' = "trailer"
  /\ UNCHANGED <<fields, got, sourceFailed, verdict, callVars, httpVars>>

\* ... and pw.Close ends the body.
CloseWriter ==
  /\ prod = "close" /\ prod' = "done"
  /\ UNCHANGED <<fields, got, sourceFailed, verdict, errChan, callVars, httpVars>>

-----------------------------------------------------------------------------
(* The caller *)

\* The file of UploadLocalFile is opened and an address found: BaseUrl, or a
\* healthy instance of the service.  An upload starts its goroutine then.
GetServerUrl ==
  /\ caller = "discover"
  /\ \/ caller' = "returned" /\ result' = "error" /\ UNCHANGED prod
     \/ /\ caller' = "start" /\ UNCHANGED result
        /\ prod' = IF op # "upload" THEN prod ELSE IF fields = 0 THEN "part" ELSE "field"
  /\ UNCHANGED <<op, body, fields, got, sourceFailed, verdict, errChan, httpVars>>

\* http.NewRequestWithContext refuses the URL (or the context) and the call
\* returns; nobody will ever read an upload's pipe.
BadRequest ==
  /\ caller = "start" /\ caller' = "returned" /\ result' = "error"
  /\ UNCHANGED <<prodVars, errChan, op, body, httpVars>>

Do ==
  /\ caller = "start" /\ caller' = "do" /\ conn' = "dialing"
  /\ UNCHANGED <<prodVars, errChan, op, result, body, pipeClosed, received, reply, arrived>>

\* httpClient.Do returns the response, or an error once the request has failed.
DoReturns ==
  /\ caller = "do"
  /\ \/ /\ reply # "none" /\ body' = "open"
        /\ caller' = CASE op = "upload"  -> "await"
                       [] op = "request" -> "decode"
                       [] OTHER          -> "status"
        /\ UNCHANGED result
     \/ conn = "closed" /\ caller' = "returned" /\ result' = "error" /\ UNCHANGED body
  /\ UNCHANGED <<prodVars, errChan, op, httpVars>>

\* Every return after this point closes the response's body, but for that of
\* a stream handed over.
Return(r) == caller' = "returned" /\ result' = r /\ body' = "closed"

\* Mutant: the goroutine's error is received and dropped.
Await_IgnoresError ==
  /\ caller = "await" /\ errChan # "empty"
  /\ errChan' = "empty"
  /\ caller' = "decode" /\ UNCHANGED <<result, body>>
  /\ UNCHANGED <<prodVars, op, httpVars>>

\* if err := <-errChan; err != nil
Await ==
  /\ caller = "await" /\ errChan # "empty"
  /\ errChan' = "empty"
  /\ \/ errChan = "nil" /\ caller' = "decode" /\ UNCHANGED <<result, body>>
     \/ errChan = "error" /\ Return("error")
  /\ UNCHANGED <<prodVars, op, httpVars>>

\* An answer in JSON is decoded, if it arrives whole.
Decode ==
  /\ caller = "decode"
  /\ \/ arrived = Length /\ reply # "garbage" /\ Return(reply)
     \/ arrived = Length /\ reply = "garbage" /\ Return("error")
     \/ conn = "closed" /\ Return("error")
  /\ UNCHANGED <<prodVars, errChan, op, httpVars>>

\* Mutant: the body of a refusal is not closed.
CheckStatus_LeavesOpen ==
  /\ caller = "status"
  /\ \/ reply = "failure" /\ caller' = "returned" /\ result' = "error" /\ UNCHANGED body
     \/ /\ reply # "failure" /\ UNCHANGED body
        /\ \/ op = "stream" /\ caller' = "returned" /\ result' = "success"
           \/ op = "download" /\ caller' = "readAll" /\ UNCHANGED result
  /\ UNCHANGED <<prodVars, errChan, op, httpVars>>

\* A status other than 200 and 206 is a refusal; with those the body is taken
\* for the file, whatever it holds.
CheckStatus ==
  /\ caller = "status"
  /\ \/ reply = "failure" /\ Return("error")
     \/ /\ reply # "failure" /\ UNCHANGED body
        /\ \/ op = "stream" /\ caller' = "returned" /\ result' = "success"
           \/ op = "download" /\ caller' = "readAll" /\ UNCHANGED result
  /\ UNCHANGED <<prodVars, errChan, op, httpVars>>

ReadAll ==
  /\ caller = "readAll"
  /\ \/ arrived = Length /\ Return("success")
     \/ conn = "closed" /\ Return("error")
  /\ UNCHANGED <<prodVars, errChan, op, httpVars>>

\* External: who was given a stream closes it, read to its end or not.
CloseStream ==
  /\ caller = "returned" /\ body = "open" /\ body' = "closed"
  /\ UNCHANGED <<prodVars, errChan, op, caller, result, httpVars>>

-----------------------------------------------------------------------------
(* The transport and the server (external) *)

Connect ==
  /\ conn = "dialing" /\ conn' = "open"
  /\ UNCHANGED <<prodVars, errChan, callVars, pipeClosed, received, reply, arrived>>

\* The end of the pipe, or of the bytes in memory, ends the request body.
EndBody ==
  /\ conn = "open" /\ prod \in {"idle", "done"} /\ conn' = "sent"
  /\ received' = [received EXCEPT !.whole = @ \/ op # "upload"]
  /\ UNCHANGED <<prodVars, errChan, callVars, pipeClosed, reply, arrived>>

Respond ==
  /\ conn \in {"open", "sent"} /\ reply = "none"
  /\ reply' \in Replies
  /\ reply' = "success" => received.whole
  /\ UNCHANGED <<prodVars, errChan, callVars, conn, pipeClosed, received, arrived>>

Deliver ==
  /\ conn \in {"open", "sent"} /\ reply # "none" /\ body # "closed"
  /\ arrived < Length /\ arrived' = arrived + 1
  /\ UNCHANGED <<prodVars, errChan, callVars, conn, pipeClosed, received, reply>>

CloseConn ==
  /\ conn \in {"dialing", "open", "sent"}
  /\ conn' = "closed" /\ pipeClosed' = TRUE
  /\ UNCHANGED <<prodVars, errChan, callVars, received, reply, arrived>>

\* The connection fails or the server closes it; the client's timer ends the
\* call, the reading of its answer included; the response is closed while the
\* request is still being sent.
Break == CloseConn
Timeout == (caller # "returned" \/ body = "open") /\ CloseConn
Release == body = "closed" /\ conn = "open" /\ CloseConn

-----------------------------------------------------------------------------
Next ==
  \/ Transfer \/ WriteFails \/ ReadSource \/ Report \/ CloseWriter
  \/ GetServerUrl \/ BadRequest \/ Do \/ DoReturns
  \/ Await \/ Decode \/ CheckStatus \/ ReadAll \/ CloseStream
  \/ Connect \/ EndBody \/ Respond \/ Deliver \/ Break

Spec == Init /\ [][Next]_vars

(* Goroutines run, the caller's reader answers every read, the client's     *)
(* timeout (30s unless SetTimeout says otherwise) ends a call, and closing a *)
(* response early closes its connection.  The network and the server are    *)
(* not fair: they may stop reading, or never answer.                        *)
Fairness ==
  /\ WF_vars(WriteFails) /\ WF_vars(ReadSource) /\ WF_vars(Report) /\ WF_vars(CloseWriter)
  /\ WF_vars(GetServerUrl) /\ WF_vars(BadRequest \/ Do) /\ WF_vars(DoReturns)
  /\ WF_vars(Await) /\ WF_vars(Decode) /\ WF_vars(CheckStatus) /\ WF_vars(ReadAll)
  /\ WF_vars(Timeout) /\ WF_vars(Release)

FairSpec == Spec /\ Fairness

-----------------------------------------------------------------------------
(* The server cannot tell a form whose data the reader failed to deliver    *)
(* from a whole one: the closing boundary is written either way.  But an    *)
(* upload only succeeds if the server holds everything the reader had, and  *)
(* the reader is no longer used; a request only if the server read it all;  *)
(* a download only if the whole body arrived.                               *)
SuccessMeansWhole ==
  result = "success" =>
    /\ op \in {"upload", "request"} => received.whole
    /\ op = "upload" => /\ received.data = Size
                        /\ ~sourceFailed
                        /\ prod \in {"trailer", "close", "done"}
    /\ op = "download" => arrived = Size

(* The body of a response is closed by every way out of every operation,    *)
(* except the one that hands it over: an open one keeps its connection from *)
(* the pool.                                                                *)
BodyReleased ==
  caller = "returned" /\ body = "open" => op = "stream" /\ result = "success"

(* Their inductive form: unless the goroutine has an error to report, what  *)
(* was read has been written; the verdict in the channel is its own, given  *)
(* when it was done reading; the caller goes on only with a nil one.        *)
Finishing == {"trailer", "close", "done"}
UploadInv ==
  /\ verdict = "nil" => /\ received.data + (IF prod = "data" THEN 1 ELSE 0) = got
                        /\ prod \in Finishing \cup {"report"} => got = Size
                        /\ sourceFailed = FALSE
  /\ verdict = "error" => prod \in Finishing \cup {"report"}
  /\ errChan # "empty" => errChan = verdict /\ prod \in Finishing
  /\ op = "upload" /\ (caller = "decode" \/ result = "success") =>
       verdict = "nil" /\ prod \in Finishing
  /\ caller = "discover" => prod = "idle"
  /\ prod = "field" => fields > 0
CallInv ==
  /\ reply = "success" => received.whole = TRUE
  /\ caller \in {"status", "readAll"} => op \in {"stream", "download"}
  /\ caller = "readAll" => op = "download"
  /\ result = "success" => /\ caller = "returned"
                           /\ op \in {"upload", "request"} => reply = "success"
                           /\ op = "download" => arrived = Size
  /\ caller \in {"discover", "start", "do"} => body = "none"
  /\ BodyReleased

(* A call returns, whatever the network and the server do: it cannot wait   *)
(* for a goroutine that waits for somebody to read the pipe, nor for a body *)
(* that stopped coming.                                                     *)
CallReturns == <>(caller = "returned")

(* The goroutine of an upload that made its request ends too, however the   *)
(* call ended (one that could not make its request leaves it blocked for    *)
(* good).                                                                   *)
ProducerEnds == (caller = "do" /\ op = "upload") ~> (prod = "done")
=============================================================================
