---------------------------- MODULE ChunkTransfer ----------------------------
(***************************************************************************)
(* A file sent in chunks by the client of file-client/client.go: one       *)
(* InitChunkUpload, an UploadChunk for each chunk, several at once, and one *)
(* MergeChunks when all have succeeded (file-client/README.md:91-119).     *)
(* What one call does in itself is in module FileClient; here it is a      *)
(* request, served or lost, and a reply.  The client keeps nothing from one *)
(* call to the next and sends nothing twice: each call asks anew where the  *)
(* server is, and it is the program that repeats a call that returned an   *)
(* error and that starts over when the server refuses one.                 *)
(*                                                                         *)
(* The servers are external.  A fileId is known where it was given, until  *)
(* the merge; the length of a chunk is not checked, and a request whose    *)
(* sender has given up may still be served.                                *)
(***************************************************************************)
EXTENDS Naturals

CONSTANTS
  Servers,     \* instances of the file service
  None,        \* no server
  Indices,     \* the chunks, by chunkIndex
  MaxFaults    \* bound on replies lost and readers that fail

ASSUME TransferAssumption ==
  /\ None \notin Servers /\ MaxFaults \in Nat
  /\ \A i \in Indices : i \notin {"init", "chunks", "merge", "done"}

VARIABLES
  BaseUrl,     \* the server set with SetBaseUrl, or None: discovery
  step,        \* what the program is at
  uploaded,    \* chunks whose upload has succeeded
  refused,     \* a server has refused a call
  at,          \* server a call in progress is sent to
  form,        \* the chunk in the form: whole, or cut where its reader failed
  answer,      \* external: the server's answer to it
  home,        \* external: server that knows the fileId
  stored,      \* external: the chunks it has
  merged,      \* external: the file they became
  late,        \* external: uploads on their way after their call has returned
  overtaken,   \* history: such an upload, cut, was served over the whole chunk
  faults

requestVars == <<at, form, answer>>
serverVars == <<home, stored, merged, late, overtaken>>
transferVars == <<BaseUrl, step, uploaded, refused, requestVars, serverVars, faults>>

Jobs == {"init", "merge"} \cup Indices
Forms == {"whole", "cut"}

TransferTypeOK ==
  /\ BaseUrl \in Servers \cup {None}
  /\ step \in {"init", "chunks", "merge", "done"}
  /\ uploaded \subseteq Indices /\ refused \in BOOLEAN
  /\ at \in [Jobs -> Servers \cup {None}]
  /\ form \in [Indices -> Forms]
  /\ answer \in [Jobs -> {"none", "success", "failure"}]
  /\ home \in Servers \cup {None}
  /\ stored \in [Indices -> Forms \cup {"none"}]
  /\ merged \in Forms \cup {"none"}
  /\ late \subseteq [index : Indices, form : Forms]
  /\ overtaken \in BOOLEAN
  /\ faults \in Nat

TransferInit ==
  /\ BaseUrl \in Servers \cup {None}
  /\ step = "init" /\ uploaded = {} /\ refused = FALSE
  /\ at = [j \in Jobs |-> None]
  /\ form = [i \in Indices |-> "whole"]
  /\ answer = [j \in Jobs |-> "none"]
  /\ home = None /\ merged = "none"
  /\ stored = [i \in Indices |-> "none"]
  /\ late = {} /\ overtaken = FALSE
  /\ faults = 0

-----------------------------------------------------------------------------
(* The client *)

\* Mutant: the address that was set is not looked at.
ServerUrl_Discovers == Servers

\* getServerUrl: the address set, or a healthy instance, any of them.
ServerUrl == IF BaseUrl # None THEN {BaseUrl} ELSE Servers

\* What the program may call: nothing after a refusal.
Due(j) ==
  /\ ~refused /\ at[j] = None
  /\ \/ j = step
     \/ step = "chunks" /\ j \in Indices \ uploaded

\* A call sends its request.
Call(j) ==
  /\ Due(j)
  /\ \E s \in ServerUrl : at' = [at EXCEPT ![j] = s]
  /\ UNCHANGED <<BaseUrl, step, uploaded, refused, form, answer, serverVars, faults>>

\* The reader of a chunk fails: the goroutine still ends the form as it should.
ReaderFails(i) ==
  /\ at[i] # None /\ answer[i] = "none" /\ form[i] = "whole"
  /\ faults < MaxFaults
  /\ form' = [form EXCEPT ![i] = "cut"]
  /\ faults' = faults + 1
  /\ UNCHANGED <<BaseUrl, step, uploaded, refused, at, answer, serverVars>>

Ended(j) ==
  /\ at' = [at EXCEPT ![j] = None]
  /\ answer' = [answer EXCEPT ![j] = "none"]
  /\ form' = [i \in Indices |-> IF i = j THEN "whole" ELSE form[i]]

\* Mutant: UploadChunk decodes the reply and leaves errChan unread.
Believed_Answer(j) == answer[j] = "success"

\* UploadChunk: the goroutine's error comes before the server's reply.
Believed(j) == answer[j] = "success" /\ (j \in Indices => form[j] = "whole")

\* A call returns the reply, and the program goes on; one that returned an
\* error is called again.
Conclude(j) ==
  /\ answer[j] # "none"
  /\ refused' = (refused \/ answer[j] = "failure")
  /\ uploaded' = IF Believed(j) THEN uploaded \cup ({j} \cap Indices) ELSE uploaded
  /\ step' = IF ~Believed(j) THEN step
             ELSE CASE j = "init"  -> "chunks"
                    [] j = "merge" -> "done"
                    [] OTHER -> IF uploaded' = Indices THEN "merge" ELSE step
  /\ Ended(j)
  /\ UNCHANGED <<BaseUrl, serverVars, faults>>

\* The call returns an error: its request or its reply is lost, or it timed
\* out with its request still on the way.
Fail(j) ==
  /\ at[j] # None
  /\ faults < MaxFaults
  /\ faults' = faults + 1
  /\ late' \in {late} \cup
       IF j \in Indices /\ answer[j] = "none" /\ at[j] = home
       THEN {late \cup {[index |-> j, form |-> form[j]]}} ELSE {}
  /\ Ended(j)
  /\ UNCHANGED <<BaseUrl, step, uploaded, refused, home, stored, merged, overtaken>>

\* The program starts over once its calls have returned.
StartOver ==
  /\ refused
  /\ \A j \in Jobs : at[j] = None
  /\ step' = "init" /\ uploaded' = {} /\ refused' = FALSE
  /\ UNCHANGED <<BaseUrl, requestVars, serverVars, faults>>

-----------------------------------------------------------------------------
(* The servers *)

Answer(j, ok) ==
  /\ answer' = [answer EXCEPT ![j] = IF ok THEN "success" ELSE "failure"]
  /\ UNCHANGED <<BaseUrl, step, uploaded, refused, at, form, faults>>

Arrived(j) == at[j] # None /\ answer[j] = "none"

\* A fileId is given; the one before, if any, is forgotten by the program.
ServeInit ==
  /\ Arrived("init")
  /\ Answer("init", TRUE)
  /\ home' = at["init"] /\ merged' = "none"
  /\ stored' = [i \in Indices |-> "none"]
  /\ late' = {} /\ overtaken' = FALSE

Known(j) == at[j] = home /\ merged = "none"

ServeChunk(i) ==
  /\ Arrived(i)
  /\ Answer(i, Known(i))
  /\ stored' = [stored EXCEPT ![i] = IF Known(i) THEN form[i] ELSE @]
  /\ UNCHANGED <<home, merged, late, overtaken>>

ServeLate(upload) ==
  /\ late' = late \ {upload}
  /\ IF merged = "none"
     THEN /\ stored' = [stored EXCEPT ![upload.index] = upload.form]
          /\ overtaken' = (overtaken \/ (upload.form = "cut" /\ stored[upload.index] = "whole"))
     ELSE UNCHANGED <<stored, overtaken>>
  /\ UNCHANGED <<BaseUrl, step, uploaded, refused, requestVars, home, merged, faults>>

ServeMerge ==
  /\ Arrived("merge")
  /\ LET complete == Known("merge") /\ \A i \in Indices : stored[i] # "none"
     IN  /\ Answer("merge", complete)
         /\ merged' = IF ~complete THEN merged
                      ELSE IF \E i \in Indices : stored[i] = "cut" THEN "cut" ELSE "whole"
  /\ UNCHANGED <<home, stored, late, overtaken>>

-----------------------------------------------------------------------------
Progress ==
  \/ \E j \in Jobs : Call(j) \/ Conclude(j)
  \/ StartOver
  \/ ServeInit \/ ServeMerge \/ (\E i \in Indices : ServeChunk(i))

TransferNext ==
  \/ Progress
  \/ \E j \in Jobs : Fail(j)
  \/ \E i \in Indices : ReaderFails(i)
  \/ \E upload \in late : ServeLate(upload)

TransferSpec == TransferInit /\ [][TransferNext]_transferVars

\* The program does not stop half-way and a server answers what reaches it.
TransferFairness == WF_transferVars(Progress)

-----------------------------------------------------------------------------
(* A file whose merge was reported to the program holds each chunk whole:   *)
(* a chunk whose reader failed was reported, and sent again, although the   *)
(* server took it for a good one.  Only a form that outlives its call, and  *)
(* is served after the server has the chunk whole, can undo that.          *)
MergedIsWhole == step = "done" /\ ~overtaken => merged = "whole"

(* Its inductive form: a chunk that was uploaded is on the server whole, and *)
(* its upload over, whatever form of it was served before; the answer that  *)
(* tells of a chunk or of the merge tells what the server did.              *)
TransferInv ==
  /\ \A j \in Jobs : at[j] = None => answer[j] = "none"
  /\ \A j \in {"init", "merge"} : at[j] # None => step = j
  /\ \A i \in Indices : at[i] # None => step = "chunks" /\ i \notin uploaded
  /\ step = "init" => uploaded = {}
  /\ step \in {"merge", "done"} => uploaded = Indices
  /\ ~overtaken =>
       /\ \A i \in Indices :
            i \in uploaded \/ (answer[i] = "success" /\ form[i] = "whole") => stored[i] = "whole"
       /\ step = "done" \/ answer["merge"] = "success" => merged = "whole"

(* With an address set, all calls reach the server that gave the fileId,    *)
(* and a transfer whose calls are repeated comes to its end, also when the  *)
(* reply to the merge is lost and the server refuses the second one.       *)
TransferEnds == BaseUrl # None ~> step = "done"
=============================================================================
