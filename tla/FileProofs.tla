----------------------------- MODULE FileProofs -----------------------------
(***************************************************************************)
(* Proofs about the client of the file service: one call (FileClient), for *)
(* every number of form fields and every amount of data, and a file sent in *)
(* chunks (ChunkTransfer), for every set of chunks and of servers and every *)
(* number of faults.                                                       *)
(***************************************************************************)
EXTENDS FileClient, ChunkTransfer, TLAPS

-----------------------------------------------------------------------------
(* One call *)

LEMMA InitUpload == Init => TypeOK /\ UploadInv /\ CallInv
<1> SUFFICES ASSUME Init PROVE TypeOK /\ UploadInv /\ CallInv
  OBVIOUS
<1>1. TypeOK
  <2>1. 0 \in 0..Size /\ 0 \in 0..Length /\ fields \in Nat
    BY ClientAssumption DEF Init, Length
  <2> QED BY <2>1 DEF Init, TypeOK, Writing, Replies
<1>2. UploadInv /\ CallInv
  BY DEF Init, UploadInv, CallInv, Finishing, BodyReleased
<1> QED BY <1>1, <1>2

(* Every step keeps the types; the transfer and the source's steps need to  *)
(* know that no more was written than was read.                             *)
LEMMA NextUpload ==
  ASSUME TypeOK, UploadInv, CallInv, [Next]_vars
  PROVE  TypeOK' /\ UploadInv'
<1> USE ClientAssumption
<1>1. CASE Transfer
  <2>1. CASE prod = "field"
    <3>1. fields - 1 \in Nat
      BY <2>1 DEF TypeOK, UploadInv
    <3>2. TypeOK'
      BY <1>1, <2>1, <3>1 DEF Transfer, TypeOK, Writing, callVars, Length
    <3>3. UploadInv'
      BY <1>1, <2>1 DEF Transfer, TypeOK, UploadInv, Writing, Finishing, callVars, Length
    <3> QED BY <3>2, <3>3
  <2>2. CASE prod = "part"
    BY <1>1, <2>2 DEF Transfer, TypeOK, UploadInv, Writing, Finishing, callVars, Length
  <2>3. CASE prod = "data"
    <3>1. received' = [received EXCEPT !.data = @ + 1] /\ prod' = "read"
      BY <1>1, <2>3 DEF Transfer
    <3>2. received.data + 1 \in 0..Size
      <4>1. received.data \in 0..Size /\ got \in 0..Size
        BY DEF TypeOK
      <4>2. received.data + 1 = got
        BY <2>3 DEF TypeOK, UploadInv, Finishing
      <4> QED BY <4>1, <4>2
    <3>3. TypeOK'
      BY <1>1, <2>3, <3>1, <3>2 DEF Transfer, TypeOK, Writing, callVars, Length
    <3>4. UploadInv'
      BY <1>1, <2>3, <3>1 DEF Transfer, TypeOK, UploadInv, Writing, Finishing, callVars, Length
    <3> QED BY <3>3, <3>4
  <2>4. CASE prod = "trailer"
    <3>1. /\ prod' = "close" /\ received' = [received EXCEPT !.whole = TRUE]
          /\ UNCHANGED <<fields, got, sourceFailed, verdict, errChan, callVars, conn,
                         pipeClosed, reply, arrived>>
      BY <1>1, <2>4 DEF Transfer
    <3>2. received' \in [data : 0..Size, whole : BOOLEAN]
      BY <3>1 DEF TypeOK
    <3>3. TypeOK'
      BY <3>1, <3>2 DEF TypeOK, Writing, callVars, Length
    <3>4. UploadInv'
      BY <1>1, <2>4 DEF Transfer, TypeOK, UploadInv, Finishing, callVars
    <3> QED BY <3>3, <3>4
  <2> QED BY <1>1, <2>1, <2>2, <2>3, <2>4 DEF Transfer
<1>2. CASE WriteFails
  <2>1. ASSUME prod = "field" PROVE fields - 1 \in Nat
    <3>1. fields \in Nat
      BY DEF TypeOK
    <3>2. fields > 0
      BY <2>1 DEF UploadInv
    <3> QED BY <3>1, <3>2
  <2>2. TypeOK'
    BY <1>2, <2>1 DEF WriteFails, TypeOK, Writing, callVars, httpVars, Length
  <2>3. UploadInv'
    BY <1>2 DEF WriteFails, TypeOK, UploadInv, Writing, Finishing, callVars, httpVars
  <2> QED BY <2>2, <2>3
<1>3. CASE ReadSource
  <2>1. got' \in 0..Size
    <3>1. got \in 0..Size /\ (got < Size => got + 1 \in 0..Size)
      BY DEF TypeOK
    <3> QED BY <1>3, <3>1 DEF ReadSource
  <2>2. TypeOK'
    <3>1. prod' \in {"data", "report"}
      BY <1>3 DEF ReadSource
    <3>2. sourceFailed' \in BOOLEAN /\ verdict' \in {"nil", "error"}
      BY <1>3 DEF ReadSource, TypeOK
    <3>3. UNCHANGED <<fields, errChan, callVars, httpVars>>
      BY <1>3 DEF ReadSource
    <3> QED BY <2>1, <3>1, <3>2, <3>3 DEF TypeOK, Writing, callVars, httpVars, Length
  <2>3. UploadInv'
    BY <1>3 DEF ReadSource, TypeOK, UploadInv, Writing, Finishing, callVars, httpVars
  <2> QED BY <2>2, <2>3
<1>4. CASE Report
  <2>1. TypeOK'
    BY <1>4 DEF Report, TypeOK, Writing, callVars, httpVars, Length
  <2>2. UploadInv'
    BY <1>4 DEF Report, TypeOK, UploadInv, Finishing, callVars, httpVars
  <2> QED BY <2>1, <2>2
<1>5. CASE CloseWriter
  <2>1. TypeOK'
    BY <1>5 DEF CloseWriter, TypeOK, Writing, callVars, httpVars, Length
  <2>2. UploadInv'
    BY <1>5 DEF CloseWriter, TypeOK, UploadInv, Finishing, callVars, httpVars
  <2> QED BY <2>1, <2>2
<1>6. CASE GetServerUrl
  <2>1. prod' \in {prod, "part", "field"} /\ (prod' = "field" => prod = "field" \/ fields # 0)
    BY <1>6 DEF GetServerUrl
  <2>2. caller' \in {"returned", "start"} /\ result' \in {"error", result}
    BY <1>6 DEF GetServerUrl
  <2>3. UNCHANGED <<op, body, fields, got, sourceFailed, verdict, errChan, httpVars>>
    BY <1>6 DEF GetServerUrl
  <2>4. TypeOK'
    <3>1. prod' \in Writing \cup {"idle", "read", "report", "close", "done"}
      BY <2>1 DEF TypeOK, Writing
    <3>2. caller' \in {"discover", "start", "do", "await", "status", "readAll", "decode", "returned"}
      BY <2>2
    <3>3. result' \in {"none", "error", "success", "failure"}
      BY <2>2 DEF TypeOK
    <3> QED BY <2>3, <3>1, <3>2, <3>3 DEF TypeOK, httpVars, Length
  <2>5. CASE prod' = prod
    BY <2>1, <2>2, <2>3, <2>4, <2>5 DEF UploadInv, Finishing, httpVars
  <2>6. CASE prod' # prod
    <3>1. prod = "idle"
      BY <1>6 DEF GetServerUrl, UploadInv
    <3>2. verdict' = "nil" /\ errChan' = "empty"
      BY <3>1, <2>3 DEF UploadInv, TypeOK, Finishing
    <3>3. prod' = "part" \/ (prod' = "field" /\ fields # 0)
      BY <2>1, <2>6, <3>1
    <3>4. fields' > 0 \/ prod' = "part"
      BY <2>3, <3>3 DEF TypeOK
    <3> QED
      BY <2>2, <2>3, <2>4, <3>1, <3>2, <3>3, <3>4 DEF UploadInv, TypeOK, Finishing, httpVars
  <2> QED BY <2>4, <2>5, <2>6
<1>7. CASE BadRequest \/ Do \/ DoReturns
  <2>1. TypeOK'
    <3>1. caller' \in {"returned", "do", "await", "decode", "status"}
      BY <1>7 DEF BadRequest, Do, DoReturns
    <3>2. result' \in {"error", result} /\ body' \in {"open", body}
      BY <1>7 DEF BadRequest, Do, DoReturns
    <3>3. conn' \in {"dialing", conn}
      BY <1>7 DEF BadRequest, Do, DoReturns, httpVars
    <3>4. UNCHANGED <<prodVars, errChan, op, pipeClosed, received, reply, arrived>>
      BY <1>7 DEF BadRequest, Do, DoReturns, httpVars
    <3> QED BY <3>1, <3>2, <3>3, <3>4 DEF TypeOK, prodVars, Length
  <2>2. UploadInv'
    <3>1. caller' # "discover" /\ (op = "upload" => caller' # "decode")
      BY <1>7 DEF BadRequest, Do, DoReturns
    <3>2. result' \in {"error", result} /\ UNCHANGED <<prodVars, errChan, op, received>>
      BY <1>7 DEF BadRequest, Do, DoReturns, httpVars
    <3> QED BY <3>1, <3>2 DEF UploadInv, Finishing, prodVars
  <2> QED BY <2>1, <2>2
<1>8. CASE Await \/ Decode
  <2>1. TypeOK'
    BY <1>8 DEF Await, Decode, Return, TypeOK, Writing, Replies, prodVars, httpVars, Length
  <2>2. UploadInv'
    BY <1>8 DEF Await, Decode, Return, TypeOK, UploadInv, Finishing, prodVars, httpVars
  <2> QED BY <2>1, <2>2
<1>9. CASE CheckStatus \/ ReadAll \/ CloseStream
  <2>1. TypeOK'
    BY <1>9 DEF CheckStatus, ReadAll, CloseStream, Return, TypeOK, prodVars, httpVars, Length
  <2>2. UploadInv'
    <3>1. op = "upload" => result' = result \/ result' = "error"
      BY <1>9 DEF CheckStatus, ReadAll, CloseStream, Return, CallInv
    <3> QED
      BY <1>9, <3>1 DEF CheckStatus, ReadAll, CloseStream, Return, UploadInv, Finishing,
                        prodVars, httpVars
  <2> QED BY <2>1, <2>2
<1>10. CASE Connect \/ EndBody \/ Respond \/ Deliver \/ Break
  <2>1. TypeOK'
    <3>1. conn' \in {"none", "dialing", "open", "sent", "closed"}
      BY <1>10 DEF Connect, EndBody, Respond, Deliver, Break, CloseConn, TypeOK
    <3>2. pipeClosed' \in BOOLEAN
      BY <1>10 DEF Connect, EndBody, Respond, Deliver, Break, CloseConn, TypeOK
    <3>3. reply' \in Replies \cup {"none"}
      BY <1>10 DEF Connect, EndBody, Respond, Deliver, Break, CloseConn, TypeOK
    <3>4. received' \in [data : 0..Size, whole : BOOLEAN]
      BY <1>10 DEF Connect, EndBody, Respond, Deliver, Break, CloseConn, TypeOK
    <3>5. arrived' \in 0..Length
      <4>1. Length \in Nat
        BY DEF Length
      <4> QED
        BY <1>10, <4>1 DEF Connect, EndBody, Respond, Deliver, Break, CloseConn, TypeOK
    <3>6. UNCHANGED <<prodVars, errChan, callVars>>
      BY <1>10 DEF Connect, EndBody, Respond, Deliver, Break, CloseConn
    <3> QED
      BY <3>1, <3>2, <3>3, <3>4, <3>5, <3>6 DEF TypeOK, prodVars, callVars, Length
  <2>2. UploadInv'
    <3>1. received'.data = received.data
      BY <1>10 DEF Connect, EndBody, Respond, Deliver, Break, CloseConn, TypeOK
    <3>2. UNCHANGED <<prodVars, errChan, callVars>>
      BY <1>10 DEF Connect, EndBody, Respond, Deliver, Break, CloseConn
    <3> QED BY <3>1, <3>2 DEF UploadInv, Finishing, prodVars, callVars
  <2> QED BY <2>1, <2>2
<1>11. CASE UNCHANGED vars
  BY <1>11 DEF vars, prodVars, callVars, httpVars, TypeOK, UploadInv, Length
<1> QED
  BY <1>1, <1>2, <1>3, <1>4, <1>5, <1>6, <1>7, <1>8, <1>9, <1>10, <1>11 DEF Next

(* The way of the caller through a call: a body is open only between Do and *)
(* Close, and a success was the server's to report.                         *)
LEMMA NextCall ==
  ASSUME TypeOK, CallInv, [Next]_vars
  PROVE  CallInv'
<1>1. CASE Transfer \/ WriteFails \/ ReadSource \/ Report \/ CloseWriter
  <2>1. received.whole = TRUE => received'.whole = TRUE
    BY <1>1 DEF Transfer, WriteFails, ReadSource, Report, CloseWriter, TypeOK, httpVars
  <2>2. UNCHANGED <<callVars, reply, arrived>>
    BY <1>1 DEF Transfer, WriteFails, ReadSource, Report, CloseWriter, httpVars
  <2> QED BY <2>1, <2>2 DEF CallInv, BodyReleased, callVars, Length
<1>2. CASE GetServerUrl \/ BadRequest \/ Do
  <2>1. body = "none" /\ result # "success"
    BY <1>2 DEF GetServerUrl, BadRequest, Do, CallInv
  <2>2. /\ caller' \in {"start", "do", "returned"} /\ result' \in {"error", result}
        /\ UNCHANGED <<op, body, received, reply, arrived>>
    BY <1>2 DEF GetServerUrl, BadRequest, Do, httpVars
  <2> QED BY <2>1, <2>2 DEF CallInv, BodyReleased, Length
<1>3. CASE DoReturns
  <2>1. body = "none" /\ result # "success"
    BY <1>3 DEF DoReturns, CallInv
  <2>2. CASE reply # "none" /\ caller' \in {"await", "decode", "status"} /\ UNCHANGED result
    <3>1. caller' = "status" => op \in {"stream", "download"}
      BY <1>3, <2>2 DEF DoReturns, TypeOK, Ops
    <3> QED BY <1>3, <2>1, <2>2, <3>1 DEF DoReturns, CallInv, BodyReleased, httpVars, Length
  <2>3. CASE caller' = "returned" /\ result' = "error" /\ UNCHANGED body
    BY <1>3, <2>1, <2>3 DEF DoReturns, CallInv, BodyReleased, httpVars, Length
  <2> QED BY <1>3, <2>2, <2>3 DEF DoReturns
<1>4. CASE Await \/ Decode
  BY <1>4 DEF Await, Decode, Return, CallInv, BodyReleased, Replies, TypeOK, httpVars, Length
<1>5. CASE CheckStatus \/ ReadAll \/ CloseStream
  BY <1>5 DEF CheckStatus, ReadAll, CloseStream, Return, CallInv, BodyReleased, TypeOK,
              httpVars, Length
<1>6. CASE Connect \/ EndBody \/ Respond \/ Deliver \/ Break
  <2>1. reply' = "success" => received'.whole = TRUE
    BY <1>6 DEF Connect, EndBody, Respond, Deliver, Break, CloseConn, CallInv, TypeOK
  <2>2. UNCHANGED callVars
    BY <1>6 DEF Connect, EndBody, Respond, Deliver, Break, CloseConn
  <2>3. result = "success" /\ op \in {"upload", "request"} => reply' = reply
    BY <1>6 DEF Connect, EndBody, Respond, Deliver, Break, CloseConn, CallInv
  <2>4. result = "success" /\ op = "download" => arrived' = Length
    BY <1>6 DEF Connect, EndBody, Respond, Deliver, Break, CloseConn, CallInv, TypeOK, Length
  <2> QED BY <2>1, <2>2, <2>3, <2>4 DEF CallInv, BodyReleased, callVars, Length
<1>7. CASE UNCHANGED vars
  BY <1>7 DEF vars, callVars, httpVars, CallInv, BodyReleased, Length
<1> QED BY <1>1, <1>2, <1>3, <1>4, <1>5, <1>6, <1>7 DEF Next

(* A success reported to the caller means that the server holds everything  *)
(* the caller's reader had, for every form and every amount of data, and    *)
(* that a download has all of its file.                                     *)
THEOREM SuccessIsWhole == Spec => []SuccessMeansWhole
<1>1. TypeOK /\ UploadInv /\ CallInv => SuccessMeansWhole
  <2> SUFFICES ASSUME TypeOK, UploadInv, CallInv, result = "success"
               PROVE  SuccessMeansWhole
    BY DEF SuccessMeansWhole
  <2>1. ASSUME op = "upload"
        PROVE  received.data = Size /\ ~sourceFailed /\ prod \in Finishing
    BY <2>1 DEF TypeOK, UploadInv, Finishing
  <2>2. op \in {"upload", "request"} => received.whole
    BY DEF CallInv
  <2>3. op = "download" => arrived = Size
    BY DEF CallInv
  <2> QED BY <2>1, <2>2, <2>3 DEF SuccessMeansWhole, Finishing
<1>2. TypeOK /\ UploadInv /\ CallInv /\ [Next]_vars => TypeOK' /\ UploadInv' /\ CallInv'
  BY NextUpload, NextCall
<1> QED BY <1>1, <1>2, InitUpload, PTL DEF Spec

(* However an operation ends, the body of its response is closed or handed  *)
(* to its caller as a stream.                                               *)
THEOREM BodyIsReleased == Spec => []BodyReleased
<1>1. CallInv => BodyReleased
  BY DEF CallInv
<1>2. TypeOK /\ UploadInv /\ CallInv /\ [Next]_vars => TypeOK' /\ UploadInv' /\ CallInv'
  BY NextUpload, NextCall
<1> QED BY <1>1, <1>2, InitUpload, PTL DEF Spec

-----------------------------------------------------------------------------
(* A file in chunks *)

(* The names of the steps are no chunks.                                    *)
LEMMA ChunksApart ==
  /\ None \notin Servers
  /\ \A i \in Indices : i # "init" /\ i # "chunks" /\ i # "merge" /\ i # "done"
  /\ \A j \in Jobs : j = "init" \/ j = "merge" \/ j \in Indices
  /\ Indices \subseteq Jobs /\ "init" \in Jobs /\ "merge" \in Jobs
BY TransferAssumption DEF Jobs

LEMMA InitTransfer == TransferInit => TransferTypeOK /\ TransferInv
<1> SUFFICES ASSUME TransferInit PROVE TransferTypeOK /\ TransferInv
  OBVIOUS
<1>1. TransferTypeOK
  BY TransferAssumption DEF TransferInit, TransferTypeOK, Forms
<1>2. \A j \in Jobs : at[j] = None /\ answer[j] = "none"
  BY DEF TransferInit
<1> QED BY <1>1, <1>2, ChunksApart DEF TransferInit, TransferInv

(* What the end of a call does to its request.                              *)
LEMMA EndedRequest ==
  ASSUME TransferTypeOK, NEW j \in Jobs, Ended(j)
  PROVE  /\ at' \in [Jobs -> Servers \cup {None}]
         /\ answer' \in [Jobs -> {"none", "success", "failure"}]
         /\ form' \in [Indices -> Forms]
         /\ at'[j] = None /\ answer'[j] = "none"
         /\ \A k \in Jobs : k # j => at'[k] = at[k] /\ answer'[k] = answer[k]
         /\ \A i \in Indices : i # j => form'[i] = form[i]
BY DEF TransferTypeOK, Ended, Forms

(* A call keeps the types and the invariant: it is made when its job is due. *)
LEMMA CallKeeps ==
  ASSUME TransferTypeOK, TransferInv, NEW j \in Jobs, Call(j)
  PROVE  TransferTypeOK' /\ TransferInv'
<1>1. PICK s \in Servers : at' = [at EXCEPT ![j] = s]
  BY DEF Call, ServerUrl, TransferTypeOK
<1>2. UNCHANGED <<BaseUrl, step, uploaded, refused, form, answer, serverVars, faults>>
  BY DEF Call
<1>3. at[j] = None /\ (j = step \/ (step = "chunks" /\ j \in Indices \ uploaded))
  BY DEF Call, Due
<1>4. TransferTypeOK'
  BY <1>1, <1>2 DEF TransferTypeOK, serverVars
<1>5. \A k \in Jobs : at'[k] # None => k = j \/ at[k] # None
  BY <1>1 DEF TransferTypeOK
<1>6. UNCHANGED <<step, uploaded, form, answer, stored, merged, overtaken>>
  BY <1>2 DEF serverVars
<1>7. \A k \in Jobs : at'[k] = None => at[k] = None
  BY <1>1, ChunksApart DEF TransferTypeOK
<1>8. \A k \in {"init", "merge"} : at'[k] # None => step = k
  BY <1>3, <1>5, ChunksApart DEF TransferInv
<1>9. \A i \in Indices : at'[i] # None => step = "chunks" /\ i \notin uploaded
  <2> SUFFICES ASSUME NEW i \in Indices, at'[i] # None
               PROVE  step = "chunks" /\ i \notin uploaded
    OBVIOUS
  <2>1. CASE i = j
    BY <1>3, <2>1, ChunksApart DEF TransferTypeOK
  <2>2. CASE i # j
    BY <1>5, <2>2, ChunksApart DEF TransferInv
  <2> QED BY <2>1, <2>2
<1>10. TransferInv'
  BY <1>6, <1>7, <1>8, <1>9, ChunksApart DEF TransferInv
<1> QED BY <1>4, <1>10

(* A reply that is believed is a chunk on the server, whole, a fileId given  *)
(* or a file merged; the program moves on only then.                        *)
LEMMA ConcludeKeeps ==
  ASSUME TransferTypeOK, TransferInv, NEW j \in Jobs, Conclude(j)
  PROVE  TransferTypeOK' /\ TransferInv'
<1>1. Ended(j) /\ UNCHANGED <<BaseUrl, serverVars, faults>>
  BY DEF Conclude
<1>2. answer[j] # "none" /\ at[j] # None
  BY DEF Conclude, TransferInv
<1>3. refused' \in BOOLEAN
  BY DEF Conclude, TransferTypeOK
<1>4. CASE ~Believed(j)
  <2>1. step' = step /\ uploaded' = uploaded
    BY <1>4 DEF Conclude
  <2>2. TransferTypeOK'
    BY <1>1, <1>3, <2>1, EndedRequest DEF TransferTypeOK, serverVars
  <2>3. TransferInv'
    BY <1>1, <2>1, EndedRequest, ChunksApart DEF TransferInv, serverVars
  <2> QED BY <2>2, <2>3
<1>5. CASE Believed(j) /\ j = "init"
  <2>1. step = "init" /\ uploaded = {}
    BY <1>2, <1>5 DEF TransferInv
  <2>2. step' = "chunks" /\ uploaded' = {}
    BY <1>5, <2>1, ChunksApart DEF Conclude
  <2>3. TransferTypeOK'
    BY <1>1, <1>3, <2>2, EndedRequest DEF TransferTypeOK, serverVars
  <2>4. \A k \in Jobs : at'[k] = None
    BY <1>1, <1>5, <2>1, EndedRequest, ChunksApart DEF TransferInv
  <2>5. \A k \in Jobs : answer'[k] = "none"
    BY <1>1, <1>5, <2>1, EndedRequest, ChunksApart DEF TransferInv
  <2> QED BY <1>1, <2>2, <2>3, <2>4, <2>5, ChunksApart DEF TransferInv, serverVars
<1>6. CASE Believed(j) /\ j = "merge"
  <2>1. step = "merge" /\ uploaded = Indices
    BY <1>2, <1>6 DEF TransferInv
  <2>2. step' = "done" /\ uploaded' = uploaded
    BY <1>6, <2>1, ChunksApart DEF Conclude
  <2>3. TransferTypeOK'
    BY <1>1, <1>3, <2>2, EndedRequest DEF TransferTypeOK, serverVars
  <2>4. \A k \in Jobs : at'[k] = None /\ answer'[k] = "none"
    BY <1>1, <1>6, <2>1, EndedRequest, ChunksApart DEF TransferInv
  <2>5. ~overtaken => merged = "whole"
    BY <1>6 DEF Believed, TransferInv
  <2> QED BY <1>1, <2>1, <2>2, <2>3, <2>4, <2>5, ChunksApart DEF TransferInv, serverVars
<1>7. CASE Believed(j) /\ j \in Indices
  <2>1. step = "chunks" /\ j \notin uploaded
    BY <1>2, <1>7 DEF TransferInv
  <2>2. uploaded' = uploaded \cup {j}
    BY <1>7 DEF Conclude
  <2>3. step' = IF uploaded' = Indices THEN "merge" ELSE step
    BY <1>7, ChunksApart DEF Conclude
  <2>4. TransferTypeOK'
    BY <1>1, <1>3, <1>7, <2>2, <2>3, EndedRequest DEF TransferTypeOK, serverVars
  <2>5. ~overtaken => stored[j] = "whole"
    BY <1>7 DEF Believed, TransferInv
  <2>6. at'["init"] = None /\ at'["merge"] = None
    BY <1>1, <1>7, <2>1, EndedRequest, ChunksApart DEF TransferInv
  <2>7. \A i \in Indices : at'[i] # None => i # j /\ i \notin uploaded
    BY <1>1, EndedRequest, ChunksApart DEF TransferInv
  <2>8. \A i \in Indices : at'[i] # None => step' = "chunks" /\ i \notin uploaded'
    BY <2>1, <2>2, <2>3, <2>7
  <2>9. \A k \in Jobs : at'[k] = None => answer'[k] = "none"
    BY <1>1, EndedRequest DEF TransferInv
  <2>10. answer'["merge"] = "none" /\ step' # "done" /\ step' # "init"
    BY <2>1, <2>3, <2>6, <2>9, ChunksApart
  <2>11. step' \in {"merge", "done"} => uploaded' = Indices
    BY <2>1, <2>3
  <2>12. ~overtaken' =>
            \A i \in Indices : i \in uploaded' \/ (answer'[i] = "success" /\ form'[i] = "whole")
                                 => stored'[i] = "whole"
    BY <1>1, <2>2, <2>5, EndedRequest, ChunksApart DEF TransferInv, serverVars
  <2> QED BY <2>4, <2>6, <2>8, <2>9, <2>10, <2>11, <2>12 DEF TransferInv
<1> QED BY <1>4, <1>5, <1>6, <1>7, ChunksApart

(* A call that fails, or whose reader fails, leaves what the server has.     *)
LEMMA FailKeeps ==
  ASSUME TransferTypeOK, TransferInv, NEW j \in Jobs, Fail(j)
  PROVE  TransferTypeOK' /\ TransferInv'
<1>1. /\ Ended(j) /\ faults' = faults + 1
      /\ UNCHANGED <<BaseUrl, step, uploaded, refused, home, stored, merged, overtaken>>
  BY DEF Fail
<1>2. late' \subseteq [index : Indices, form : Forms]
  <2>1. late' = late \/ (j \in Indices /\ late' = late \cup {[index |-> j, form |-> form[j]]})
    BY DEF Fail
  <2> QED BY <2>1 DEF TransferTypeOK
<1>3. TransferTypeOK'
  BY <1>1, <1>2, EndedRequest DEF TransferTypeOK
<1>4. TransferInv'
  BY <1>1, EndedRequest, ChunksApart DEF TransferInv
<1> QED BY <1>3, <1>4

LEMMA ReaderFailsKeeps ==
  ASSUME TransferTypeOK, TransferInv, NEW i \in Indices, ReaderFails(i)
  PROVE  TransferTypeOK' /\ TransferInv'
<1>1. TransferTypeOK'
  BY DEF ReaderFails, TransferTypeOK, serverVars, Forms
<1>2. \A k \in Indices : form'[k] = "whole" => form[k] = "whole"
  BY DEF ReaderFails, TransferTypeOK
<1> QED BY <1>1, <1>2 DEF ReaderFails, TransferInv, serverVars

(* Starting over: no call is on its way.                                    *)
LEMMA StartOverKeeps ==
  ASSUME TransferTypeOK, TransferInv, StartOver
  PROVE  TransferTypeOK' /\ TransferInv'
<1>1. TransferTypeOK'
  BY DEF StartOver, TransferTypeOK, requestVars, serverVars
<1>2. \A j \in Jobs : answer[j] = "none" /\ at[j] = None
  BY DEF StartOver, TransferInv
<1> QED BY <1>1, <1>2, ChunksApart DEF StartOver, TransferInv, requestVars, serverVars

(* A fileId is given while no other call is on its way.                     *)
LEMMA ServeInitKeeps ==
  ASSUME TransferTypeOK, TransferInv, ServeInit
  PROVE  TransferTypeOK' /\ TransferInv'
<1>1. /\ at["init"] # None /\ answer' = [answer EXCEPT !["init"] = "success"]
      /\ UNCHANGED <<BaseUrl, step, uploaded, refused, at, form, faults>>
      /\ home' = at["init"] /\ merged' = "none"
      /\ stored' = [i \in Indices |-> "none"]
      /\ late' = {} /\ overtaken' = FALSE
  BY DEF ServeInit, Arrived, Answer
<1>2. TransferTypeOK'
  BY <1>1, ChunksApart DEF TransferTypeOK, Forms
<1>3. step = "init" /\ uploaded = {}
  BY <1>1 DEF TransferInv
<1>4. at["merge"] = None /\ \A i \in Indices : at[i] = None
  BY <1>3 DEF TransferInv
<1>5. answer'["merge"] = "none" /\ \A i \in Indices : answer'[i] = "none"
  BY <1>1, <1>4, ChunksApart DEF TransferInv, TransferTypeOK
<1>6. \A j \in Jobs : at'[j] = None => answer'[j] = "none"
  BY <1>1, <1>4, <1>5, ChunksApart
<1> QED BY <1>1, <1>2, <1>3, <1>4, <1>5, <1>6 DEF TransferInv

(* A chunk arrives while its call waits: it replaces none that was believed. *)
LEMMA ServeChunkKeeps ==
  ASSUME TransferTypeOK, TransferInv, NEW i \in Indices, ServeChunk(i)
  PROVE  TransferTypeOK' /\ TransferInv'
<1>1. /\ at[i] # None
      /\ answer' = [answer EXCEPT ![i] = IF Known(i) THEN "success" ELSE "failure"]
      /\ stored' = [stored EXCEPT ![i] = IF Known(i) THEN form[i] ELSE @]
      /\ UNCHANGED <<BaseUrl, step, uploaded, refused, at, form, faults, home, merged,
                     late, overtaken>>
  BY DEF ServeChunk, Arrived, Answer
<1>2. TransferTypeOK'
  BY <1>1 DEF TransferTypeOK, Forms
<1>3. step = "chunks" /\ i \notin uploaded
  BY <1>1 DEF TransferInv
<1>4. \A j \in Jobs : j # i => answer'[j] = answer[j]
  BY <1>1 DEF TransferTypeOK
<1>5. answer'[i] = "success" => stored'[i] = form[i]
  BY <1>1, ChunksApart DEF TransferTypeOK
<1>6. \A k \in Indices : k # i => stored'[k] = stored[k]
  BY <1>1 DEF TransferTypeOK
<1> QED BY <1>1, <1>2, <1>3, <1>4, <1>5, <1>6, ChunksApart DEF TransferInv

(* A request served after its call has returned: a whole chunk does no harm, *)
(* and a cut one over a whole one is what overtaken records.                 *)
LEMMA ServeLateKeeps ==
  ASSUME TransferTypeOK, TransferInv, NEW upload \in late, ServeLate(upload)
  PROVE  TransferTypeOK' /\ TransferInv'
<1>1. upload.index \in Indices /\ upload.form \in Forms
  BY DEF TransferTypeOK
<1>2. /\ late' = late \ {upload}
      /\ UNCHANGED <<BaseUrl, step, uploaded, refused, at, form, answer, home, merged, faults>>
  BY DEF ServeLate, requestVars
<1>3. CASE merged = "none"
  <2>1. /\ stored' = [stored EXCEPT ![upload.index] = upload.form]
        /\ overtaken' = (overtaken \/ (upload.form = "cut" /\ stored[upload.index] = "whole"))
    BY <1>3 DEF ServeLate
  <2>2. TransferTypeOK'
    BY <1>1, <1>2, <2>1 DEF TransferTypeOK
  <2>3. ~overtaken' => \A i \in Indices : stored[i] = "whole" => stored'[i] = "whole"
    BY <1>1, <2>1 DEF TransferTypeOK, Forms
  <2> QED BY <1>2, <2>1, <2>2, <2>3 DEF TransferInv
<1>4. CASE merged # "none"
  <2>1. UNCHANGED <<stored, overtaken>>
    BY <1>4 DEF ServeLate
  <2>2. TransferTypeOK'
    BY <1>2, <2>1 DEF TransferTypeOK
  <2> QED BY <1>2, <2>1, <2>2 DEF TransferInv
<1> QED BY <1>3, <1>4

(* A merge that succeeds finds every chunk believed, and so every chunk      *)
(* whole.                                                                   *)
LEMMA ServeMergeKeeps ==
  ASSUME TransferTypeOK, TransferInv, ServeMerge
  PROVE  TransferTypeOK' /\ TransferInv'
<1> DEFINE complete == Known("merge") /\ \A i \in Indices : stored[i] # "none"
<1>1. /\ at["merge"] # None
      /\ answer' = [answer EXCEPT !["merge"] = IF complete THEN "success" ELSE "failure"]
      /\ merged' = IF ~complete THEN merged
                   ELSE IF \E i \in Indices : stored[i] = "cut" THEN "cut" ELSE "whole"
      /\ UNCHANGED <<BaseUrl, step, uploaded, refused, at, form, faults, home, stored,
                     late, overtaken>>
  BY DEF ServeMerge, Arrived, Answer
<1>2. step = "merge" /\ uploaded = Indices
  BY <1>1 DEF TransferInv
<1>3. ~overtaken => \A i \in Indices : stored[i] = "whole"
  BY <1>2 DEF TransferInv
<1>4. answer'["merge"] = (IF complete THEN "success" ELSE "failure")
  BY <1>1, ChunksApart DEF TransferTypeOK
<1>5. \A i \in Indices : answer'[i] = answer[i]
  BY <1>1, ChunksApart DEF TransferTypeOK
<1>6. answer' \in [Jobs -> {"none", "success", "failure"}]
  BY <1>1 DEF TransferTypeOK
<1>7. complete => merged' = IF \E i \in Indices : stored[i] = "cut" THEN "cut" ELSE "whole"
  BY <1>1
<1>8. ~complete => merged' = merged
  <2> HIDE DEF complete
  <2> QED BY <1>1
<1>9. ~overtaken /\ answer'["merge"] = "success" => merged' = "whole"
  BY <1>3, <1>4, <1>7
<1> HIDE DEF complete
<1>10. TransferTypeOK'
  BY <1>1, <1>6, <1>7, <1>8 DEF TransferTypeOK, Forms
<1>11. \A j \in Jobs : at'[j] = None => answer'[j] = "none"
  BY <1>1, ChunksApart DEF TransferInv, TransferTypeOK
<1> QED BY <1>1, <1>2, <1>3, <1>5, <1>9, <1>10, <1>11 DEF TransferInv

LEMMA NextTransfer ==
  ASSUME TransferTypeOK, TransferInv, [TransferNext]_transferVars
  PROVE  TransferTypeOK' /\ TransferInv'
<1>1. CASE Progress
  BY <1>1, CallKeeps, ConcludeKeeps, StartOverKeeps, ServeInitKeeps, ServeMergeKeeps,
     ServeChunkKeeps DEF Progress
<1>2. CASE \E j \in Jobs : Fail(j)
  BY <1>2, FailKeeps
<1>3. CASE \E i \in Indices : ReaderFails(i)
  BY <1>3, ReaderFailsKeeps
<1>4. CASE \E upload \in late : ServeLate(upload)
  BY <1>4, ServeLateKeeps
<1>5. CASE UNCHANGED transferVars
  BY <1>5 DEF transferVars, requestVars, serverVars, TransferTypeOK, TransferInv
<1> QED BY <1>1, <1>2, <1>3, <1>4, <1>5 DEF TransferNext

(* A transfer that the program saw through has merged whole chunks only: for *)
(* every file, whatever readers, requests and replies failed on the way, and *)
(* however many instances of the service the calls went to.                 *)
THEOREM MergesAreWhole == TransferSpec => []MergedIsWhole
<1>1. TransferInv => MergedIsWhole
  BY DEF TransferInv, MergedIsWhole
<1>2. TransferTypeOK /\ TransferInv /\ [TransferNext]_transferVars
      => TransferTypeOK' /\ TransferInv'
  BY NextTransfer
<1> QED BY <1>1, <1>2, InitTransfer, PTL DEF TransferSpec
=============================================================================
