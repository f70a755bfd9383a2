---------------------------- MODULE ConfigCenter ----------------------------
(***************************************************************************)
(* nacos/config.go over log/log.go: InitConfig fetches the configuration,  *)
(* merges it into the program's, and listens.  For every change it learns  *)
(* of, the Nacos client starts OnChange in a goroutine of its own, so that *)
(* several of them may merge into the one struct, which has no lock.       *)
(*                                                                         *)
(* The struct is the part that UpdateConfig treats differently: the fields *)
(* of its Log member one by one, what is below them as a whole.            *)
(*                                                                         *)
(* What a goroutine sets it sets as a Writer of module Logging.            *)
(***************************************************************************)
EXTENDS Logging

CONSTANTS
  Main,       \* the goroutine that calls InitConfig
  Listeners,  \* those that may run OnChange at the same time
  Contents,   \* what is published
  Local,      \* the configuration that the program starts with
  MaxChanges  \* bound on how often it is published, for TLC

VARIABLES
  content,    \* at the Nacos server
  changes,    \* how often it changed
  listening,  \* ListenConfig succeeded
  seen,       \* what the Nacos client compares the server's content with
  config,     \* the struct that InitConfig was given
  run,        \* where a goroutine is, and what it holds
  alone,      \* history: the last update that merged had no other beside it
  given       \* history: the values that a field may have got last

told == <<alone, given>>
center == <<content, changes, listening, seen, config, run, told>>

\* A content is empty, no YAML for this struct, or gives values to fields.
Nothing == [kind |-> "empty", fields |-> <<>>]
Subfields == {"Enabled", "Urls"}
Fields == {"Level", "Request"} \cup Params

Threads == Listeners \cup {Main}

ASSUME CenterAssumption ==
  /\ Threads \subseteq Writers
  /\ MaxChanges \in Nat
  /\ DOMAIN Local = Fields /\ Local["Level"] \in LevelNames
  /\ \A p \in Params : Local[p] \in Nat
  /\ Local["Request"] \in [Subfields -> {0, 1}]
  /\ \A c \in Contents :
       /\ DOMAIN c.fields \subseteq Fields
       /\ \A f \in DOMAIN c.fields :
            IF f = "Level" THEN c.fields[f] \in LevelNames
            ELSE IF f \in Params THEN c.fields[f] \in Nat
            ELSE \A s \in DOMAIN c.fields[f] : c.fields[f][s] \in {0, 1}

\* The fields of config.Log, in the order of the struct.  Request is itself
\* a struct of two fields.
Only(p) == IF p \in Params THEN <<p>> ELSE <<>>
FieldOrder ==
  <<"Level">> \o Only("MaxSize") \o Only("MaxBackups") \o Only("MaxAge") \o <<"Request">>

Zero(f) == IF f = "Level" THEN "" ELSE IF f = "Request" THEN [s \in Subfields |-> 0] ELSE 0

\* yaml.Unmarshal into a new struct: what is absent is zero.
Unmarshal(c, f) ==
  IF f \notin DOMAIN c.fields THEN Zero(f)
  ELSE IF f # "Request" THEN c.fields[f]
  ELSE [s \in Subfields |-> IF s \in DOMAIN c.fields[f] THEN c.fields[f][s] ELSE 0]

Rotation(conf) == [p \in Params |-> conf[p]]

NotRunning(pc) == [pc |-> pc, new |-> Nothing, at |-> 1, level |-> "", rotation |-> Unset]

Runs == [pc : {"before", "idle", "get", "merge", "level", "setLevel", "rotation",
               "setRotation", "callback", "listen"},
         new : Contents \cup {Nothing}, at : DOMAIN FieldOrder,
         level : LevelNames, rotation : Settings]

CenterTypeOK ==
  /\ content \in Contents \cup {Nothing} /\ seen \in Contents \cup {Nothing}
  /\ changes \in 0..MaxChanges
  /\ listening \in BOOLEAN /\ alone \in BOOLEAN
  /\ DOMAIN given = Fields
  /\ DOMAIN config = Fields /\ config["Level"] \in LevelNames
  /\ Rotation(config) \in Settings
  /\ config["Request"] \in [Subfields -> {0, 1}]
  /\ run \in [Threads -> Runs]

CenterInit ==
  /\ LogInit
  /\ content \in Contents \cup {Nothing} /\ changes = 0
  /\ listening = FALSE /\ seen = Nothing
  /\ config = Local /\ alone = TRUE /\ given = [f \in Fields |-> {Local[f]}]
  /\ run = [t \in Threads |-> NotRunning(IF t = Main THEN "before" ELSE "idle")]

\* The program starts its logger with its own configuration.
StartLog ==
  /\ Build([level |-> config["Level"], rotation |-> Rotation(config),
            async |-> FALSE, sensitive |-> FALSE, files |-> <<>>])
  /\ UNCHANGED center

\* Somebody publishes another content.
Change(c) ==
  /\ changes < MaxChanges /\ c # content
  /\ content' = c /\ changes' = changes + 1
  /\ UNCHANGED <<listening, seen, config, run, told, vars>>

-----------------------------------------------------------------------------
At(t, pc) == run[t].pc = pc
Quiet == \A t \in Threads : run[t].pc \in {"before", "idle"}
Goto(t, pc) == run' = [run EXCEPT ![t].pc = pc]

\* UpdateConfig merges a content that parses, and does nothing for another;
\* both end with the callback.
StartUpdate(t, c) ==
  run' = [run EXCEPT ![t] =
            [NotRunning(IF c.kind = "yaml" THEN "merge" ELSE "callback") EXCEPT !.new = c]]

\* What the merges that are running have yet to give to a field.
Coming(f) ==
  {Unmarshal(run[t].new, f) :
     t \in {u \in Threads : At(u, "merge")
                           /\ \E i \in DOMAIN FieldOrder : i >= run[u].at /\ FieldOrder[i] = f}}
    \ {Zero(f)}

\* A content that is told gives a field its value, unless that is overtaken by
\* an update that is already running.
Give(c) ==
  given' = [f \in Fields |->
              IF c.kind = "yaml" /\ Unmarshal(c, f) # Zero(f)
              THEN {Unmarshal(c, f)} \cup Coming(f) ELSE given[f]]

InitConfig ==
  /\ started /\ At(Main, "before")
  /\ Goto(Main, "get")
  /\ UNCHANGED <<content, changes, listening, seen, config, told, vars>>

\* GetConfig: what it fetched is what the Nacos client compares with later.
\* When it fails, InitConfig is over, and nobody listens.
GetConfig ==
  /\ At(Main, "get")
  /\ \/ StartUpdate(Main, content) /\ Give(content) /\ seen' = content
     \/ Goto(Main, "idle") /\ UNCHANGED <<seen, given>>
  /\ UNCHANGED <<content, changes, listening, config, alone, vars>>

NextField_SkipsLast(t) ==
  IF run[t].at < Len(FieldOrder) - 1 THEN [run EXCEPT ![t].at = @ + 1]
  ELSE [run EXCEPT ![t].pc = "level"]

\* The loop over the fields of the new struct.
NextField(t) ==
  IF run[t].at < Len(FieldOrder) THEN [run EXCEPT ![t].at = @ + 1]
  ELSE [run EXCEPT ![t].pc = "level"]

\* Mutant: a field that is absent is overwritten like any other.
MergeField_Zeroes(f, value) == config' = [config EXCEPT ![f] = value]

\* A field that is zero in the new struct keeps its old value.
MergeField(f, value) ==
  config' = IF value = Zero(f) THEN config ELSE [config EXCEPT ![f] = value]

Merge(t) ==
  LET f == FieldOrder[run[t].at] IN
  /\ At(t, "merge")
  /\ MergeField(f, Unmarshal(run[t].new, f))
  /\ run' = NextField(t)
  /\ UNCHANGED <<content, changes, listening, seen, told, vars>>

\* Mutant: the level is the one this content has, and not the merged one.
ReadLevel_OfContent(t) ==
  /\ At(t, "level")
  /\ run' = [run EXCEPT ![t].level = Unmarshal(run[t].new, "Level"), ![t].pc = "setLevel"]
  /\ UNCHANGED <<content, changes, listening, seen, config, told, vars>>

\* The level is read out of the struct, and set in a later step.
ReadLevel(t) ==
  /\ At(t, "level")
  /\ run' = [run EXCEPT ![t].level = config["Level"],
                        ![t].pc = IF config["Level"] # "" THEN "setLevel" ELSE "rotation"]
  /\ UNCHANGED <<content, changes, listening, seen, config, told, vars>>

ApplyLevel(t) ==
  /\ At(t, "setLevel")
  /\ UpdateLogLevel(run[t].level)
  /\ Goto(t, "rotation")
  /\ UNCHANGED <<content, changes, listening, seen, config, told>>

ReadRotation(t) ==
  /\ At(t, "rotation")
  /\ run' = [run EXCEPT ![t].rotation = Rotation(config), ![t].pc = "setRotation"]
  /\ UNCHANGED <<content, changes, listening, seen, config, told, vars>>

\* UpdateLogRotation is called, and its statements are run one by one.
ApplyRotation(t) ==
  /\ At(t, "setRotation")
  /\ UpdateLogRotation(t, run[t].rotation)
  /\ Goto(t, "callback")
  /\ UNCHANGED <<content, changes, listening, seen, config, told>>

SetNext(t) == RunStatement(t) /\ UNCHANGED center

\* When it has returned, callback.OnConfigChange; then InitConfig listens, and
\* a listener is done.
Callback(t) ==
  /\ At(t, "callback") /\ changing[t].left = {}
  /\ Goto(t, IF t = Main THEN "listen" ELSE "idle")
  /\ UNCHANGED <<content, changes, listening, seen, config, told, vars>>

\* Mutant: only what changes from now on is told.
ListenConfig_FromNow ==
  /\ At(Main, "listen")
  /\ \/ listening' = TRUE /\ seen' = content
     \/ UNCHANGED <<listening, seen>>
  /\ Goto(Main, "idle")
  /\ UNCHANGED <<content, changes, config, told, vars>>

ListenConfig ==
  /\ At(Main, "listen")
  /\ listening' \in BOOLEAN
  /\ Goto(Main, "idle")
  /\ UNCHANGED <<content, changes, seen, config, told, vars>>

\* The Nacos client finds another content and starts OnChange.
OnChange(t) ==
  /\ listening /\ content # seen /\ t # Main /\ At(t, "idle")
  /\ seen' = content
  /\ StartUpdate(t, content)
  /\ Give(content)
  /\ alone' = IF content.kind = "yaml" THEN Quiet ELSE alone
  /\ UNCHANGED <<content, changes, listening, config, vars>>

UpdateStep(t) ==
  \/ Merge(t) \/ ReadLevel(t) \/ ApplyLevel(t)
  \/ ReadRotation(t) \/ ApplyRotation(t) \/ SetNext(t) \/ Callback(t)

Step(t) == UpdateStep(t) \/ OnChange(t)

CenterNext ==
  \/ StartLog \/ InitConfig \/ GetConfig \/ ListenConfig
  \/ \E c \in Contents \cup {Nothing} : Change(c)
  \/ \E t \in Threads : Step(t)

CenterSpec == CenterInit /\ [][CenterNext]_<<center, vars>>

-----------------------------------------------------------------------------
(* "Get the log level and update it", "update the log rotation": when no    *)
(* update is running, and the last one that merged ran alone, the logger    *)
(* does what the struct says, also when others overlapped before it.        *)
LogFollowsConfig ==
  started /\ Quiet /\ alone =>
    /\ config["Level"] # "" => atomicLevel = parseLogLevel(config["Level"])
    /\ \A p \in Params : config[p] > 0 => mainFile[p] = config[p]

(* When no update is running, and the last one ran alone, the struct has    *)
(* every value of the content that was last told, but for the zero ones.    *)
ConfigIsLatest ==
  Quiet /\ alone /\ seen.kind = "yaml" =>
    \A f \in DOMAIN seen.fields :
      Unmarshal(seen, f) # Zero(f) => config[f] = Unmarshal(seen, f)

(* What the centre's configuration sets is what the log does, and what the   *)
(* log does is what GetLogConfig reports.                                    *)
SettingsAgree == CenterTypeOK /\ LogFollowsConfig /\ RotationIsReported

(* "Update only the fields that are there": when no update is running, each  *)
(* field has what the last content that gives it a value was told to give,  *)
(* or what an update that was still running beside that one gave; contents  *)
(* without it, and updates that overlap, never make it anything else.       *)
FieldsComeFromContents == Quiet => \A f \in Fields : config[f] \in given[f]

(* "If it is a struct, update its fields recursively": a field of Request    *)
(* that no running update has in its content keeps its value.               *)
GivesLeaf(t, s) ==
  At(t, "merge") /\ "Request" \in DOMAIN run[t].new.fields
                 /\ s \in DOMAIN run[t].new.fields["Request"]
AbsentLeavesKept ==
  [][\A s \in Subfields :
       config'["Request"][s] # config["Request"][s] => \E t \in Threads : GivesLeaf(t, s)]_center

(* A content that stays, once InitConfig listens, ends up in the struct,    *)
(* unless the last updates overlap.                                         *)
ContentReachesConfig ==
  \A c \in Contents :
    c.kind = "yaml" =>
      (<>[](listening /\ content = c /\ alone)
         => <>[](\A f \in DOMAIN c.fields :
                   Unmarshal(c, f) # Zero(f) => config[f] = Unmarshal(c, f)))
=============================================================================
