--------------------------- MODULE MCConfigCenter ---------------------------
(***************************************************************************)
(* Small instances of Logging and of ConfigCenter over it, for TLC.  A     *)
(* behaviour is that of a program that logs and changes levels and masks,  *)
(* of one that changes all settings, in the goroutines of Listeners, and   *)
(* does not log, or of one that leaves them to the configuration centre.   *)
(***************************************************************************)
EXTENDS ConfigCenter, TLC

VARIABLE part  \* "log", "settings" or "center"

all == <<part, center, vars>>

-----------------------------------------------------------------------------
Conf(level, rotation, async, sensitive, files) ==
  [level |-> level, rotation |-> [p \in Params |-> rotation], async |-> async,
   sensitive |-> sensitive, files |-> files]
Own(level, v) == [level |-> level, own |-> [p \in Params |-> v]]

\* Two level files, of which one has parameters of its own, and a third that
\* has no level; with and without a buffer, with and without masking.
Files == [warnings |-> Own("warn", 0), errors |-> Own("error", 7), skipped |-> Own("", 0)]
Buffered == {Conf("", 0, FALSE, FALSE, Files), Conf("debug", 5, TRUE, TRUE, Files)}

Yaml(fields) == [kind |-> "yaml", fields |-> fields]
Garbled == [kind |-> "garbled", fields |-> <<>>]

MCLocal == [f \in {"Level", "Request", "MaxSize"} |->
  IF f = "Level" THEN "" ELSE IF f = "MaxSize" THEN 5 ELSE [Enabled |-> 0, Urls |-> 0]]

Loud == Yaml("Level" :> "debug" @@ "MaxSize" :> 9)
Requests == Yaml("Request" :> [Enabled |-> 1, Urls |-> 1] @@ "MaxSize" :> 7)
NoUrls == Yaml("Level" :> "warn" @@ "Request" :> [Enabled |-> 1])

Full == {Loud, Requests, NoUrls, Garbled}

-----------------------------------------------------------------------------
\* No configuration centre: nothing is published, fetched or listened to.
NoCenter ==
  /\ LogInit
  /\ content = Nothing /\ seen = Nothing /\ changes = 0
  /\ listening = FALSE /\ config = Local /\ alone = FALSE /\ given = [f \in Fields |-> {Local[f]}]
  /\ run = [t \in Threads |-> NotRunning("idle")]

UpdatesInit == (part \in {"log", "settings"} /\ NoCenter) \/ (part = "center" /\ CenterInit)

NoneChanges == UNCHANGED changing
ListenersChange == changing'[Main] = NoChange

UpdatesNext ==
  /\ UNCHANGED part
  /\ \/ part = "log" /\ LogNext /\ NoneChanges /\ UNCHANGED center
     \/ part = "settings" /\ LogNext /\ ListenersChange /\ UNCHANGED <<center, logger>>
     \/ part = "center" /\ CenterNext

(* Goroutines that are in an update go on with it.                           *)
UpdatesSpec ==
  /\ UpdatesInit /\ [][UpdatesNext]_all
  /\ \A t \in Threads : WF_all(Step(t) /\ UNCHANGED part)
=============================================================================
