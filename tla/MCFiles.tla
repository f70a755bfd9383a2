------------------------------- MODULE MCFiles -------------------------------
(* The client of the file service for TLC.  A behaviour is either one call,  *)
(* step by step (FileClient), or a transfer in chunks, call by call          *)
(* (ChunkTransfer): the two describe the same code at different grain, and   *)
(* one part rests while the other moves.                                     *)
EXTENDS FileClient, ChunkTransfer

\* A call that found no server.
NoCall ==
  /\ op = "request" /\ prod = "idle" /\ fields = 0 /\ got = 0
  /\ sourceFailed = FALSE /\ verdict = "nil" /\ errChan = "empty"
  /\ caller = "returned" /\ result = "error" /\ body = "none"
  /\ conn = "none" /\ pipeClosed = FALSE
  /\ received = [data |-> 0, whole |-> FALSE]
  /\ reply = "none" /\ arrived = 0

\* A transfer that is over.
NoTransfer ==
  /\ BaseUrl = None /\ step = "done" /\ uploaded = Indices /\ refused = FALSE
  /\ at = [j \in Jobs |-> None] /\ answer = [j \in Jobs |-> "none"]
  /\ form = [i \in Indices |-> "whole"] /\ stored = [i \in Indices |-> "whole"]
  /\ home = None /\ merged = "whole" /\ late = {} /\ overtaken = FALSE /\ faults = 0

FilesInit == (Init /\ NoTransfer) \/ (NoCall /\ TransferInit)

FilesNext == (Next /\ UNCHANGED transferVars) \/ (TransferNext /\ UNCHANGED vars)

FilesSpec ==
  /\ FilesInit /\ [][FilesNext]_<<vars, transferVars>>
  /\ Fairness /\ TransferFairness

-----------------------------------------------------------------------------
(* A call returns, whatever the network and the server do: it cannot wait   *)
(* for a goroutine that waits for somebody to read the pipe, nor for a body *)
(* that stopped coming.  And the goroutine of an upload that made its       *)
(* request ends too, however the call ended.                                *)
CallsEnd == CallReturns /\ ProducerEnds
=============================================================================
