------------------------------ MODULE Logging ------------------------------
(***************************************************************************)
(* log/log.go: the logger that Init builds out of a main file, optional    *)
(* files for higher levels and an optional buffer, the functions that      *)
(* change its settings while it runs, and the loggers that Ctx hands out.  *)
(*                                                                         *)
(* The three rotation parameters go through the same code, so Params names *)
(* those that an instance distinguishes.  A level is a number, 0 for debug *)
(* to 3 for error; an absent string is "", an absent number 0.             *)
(*                                                                         *)
(* A change of the rotation is a row of assignments without a lock, so     *)
(* those of two goroutines may interleave: Begin is the call, and          *)
(* RunStatement one assignment.  The level is atomic (zap.AtomicLevel).    *)
(***************************************************************************)
EXTENDS Naturals, Sequences

CONSTANTS
  Params,      \* of "MaxSize", "MaxBackups", "MaxAge"
  Values,      \* what they are set to
  Names,       \* level strings that UpdateLogLevel gets, unknown ones too
  Confs,       \* configurations that Init is called with
  Writers,     \* goroutines that change the rotation
  Holders,     \* code that takes a logger and logs with it
  Traces,      \* does a holder's context carry a traceId
  Masks,       \* does a configuration given to UpdateSensitiveConfig have rules
  BufferSize,  \* entries that BufferedWriteSyncer holds
  MaxEntries   \* bound on what is logged, for TLC

LevelOf == [debug |-> 0, info |-> 1, warn |-> 2, error |-> 3]
LevelNames == DOMAIN LevelOf \cup Names \cup {""}

Settings == [Params -> Nat]

\* A configuration: the settings that Init is called with, and for every level
\* file its level and the settings of its own.
IsConf(c) ==
  /\ c.level \in LevelNames /\ c.rotation \in Settings
  /\ c.async \in BOOLEAN /\ c.sensitive \in BOOLEAN
  /\ \A f \in DOMAIN c.files : c.files[f].level \in LevelNames /\ c.files[f].own \in Settings

\* Where a change of the rotation goes: to the configuration, to the logger of
\* app.log, and to those of level files, by their names.
Places == {"config", "app"}

ASSUME LoggingAssumption ==
  /\ Params \subseteq {"MaxSize", "MaxBackups", "MaxAge"}
  /\ Values \subseteq Nat \ {0}
  /\ \A c \in Confs : IsConf(c) /\ DOMAIN c.files \cap Places = {}
  /\ Traces \subseteq BOOLEAN /\ Masks \subseteq BOOLEAN
  /\ BufferSize \in Nat \ {0} /\ MaxEntries \in Nat
  /\ "" \notin Names

VARIABLES
  started,       \* sugarLogger # nil
  logConfig,     \* as GetLogConfig returns it
  atomicLevel,
  mainFile,      \* the rotation parameters lumberJackLogger has
  levelFiles,    \* those of the files in levelFileLoggers
  changing,      \* what a goroutine changes the rotation to, and the statements left
  overlapped,    \* history: parameters whose last change had another beside it
  masking,       \* currentConfig has rules: IsSensitiveEnabled
  logger,        \* what Ctx gave a holder
  buffer,        \* of BufferedWriteSyncer
  app, written,  \* what is in app.log and in the level files
  logged         \* history: how many entries some file took

rotations == <<logConfig, mainFile, levelFiles, changing, overlapped>>
settings == <<started, atomicLevel, masking, rotations>>
entries == <<buffer, app, written, logged>>
vars == <<settings, logger, entries>>

-----------------------------------------------------------------------------
Levels == 0..3

parseLogLevel(name) == IF name \in DOMAIN LevelOf THEN LevelOf[name] ELSE LevelOf.info

\* pickInt, for each parameter.
Picked(custom, default) ==
  [p \in Params |-> IF custom[p] > 0 THEN custom[p] ELSE default[p]]

Default == [level |-> "info", rotation |-> [p \in Params |-> 100],
            async |-> FALSE, files |-> <<>>]
Unset == [p \in Params |-> 0]

AllFiles == UNION {DOMAIN c.files : c \in Confs}

\* An assignment: where to, and of which parameter.
Statements == (Places \cup AllFiles) \X Params

NoChange == [to |-> Unset, left |-> {}]

LogConfigs == [level : LevelNames, rotation : Settings, async : BOOLEAN,
               files : {c.files : c \in Confs} \cup {<<>>}]

\* An entry: its level, did the logger it went through wrap the cores, and
\* how many entries there were up to it.
Entry == [level : Levels, wrapped : BOOLEAN, number : 1..MaxEntries]

NoLogger == [taken |-> FALSE, traced |-> FALSE, masks |-> FALSE]

TypeOK ==
  /\ started \in BOOLEAN
  /\ logConfig \in LogConfigs
  /\ atomicLevel \in Levels
  /\ mainFile \in Settings
  /\ DOMAIN levelFiles \subseteq DOMAIN logConfig.files
  /\ \A f \in DOMAIN levelFiles : levelFiles[f] \in Settings
  /\ changing \in [Writers -> [to : Settings, left : SUBSET Statements]]
  /\ overlapped \subseteq Params
  /\ masking \in BOOLEAN
  /\ logger \in [Holders -> [taken : BOOLEAN, traced : BOOLEAN, masks : BOOLEAN]]
  /\ buffer \in Seq(Entry) /\ Len(buffer) <= BufferSize
  /\ app \in Seq(Entry)
  /\ written \in [AllFiles -> Seq(Entry)]
  /\ logged \in 0..MaxEntries

\* A process that has not called Init; its files are those it finds.
Fresh ==
  /\ started' = FALSE /\ logConfig' = Default /\ atomicLevel' = LevelOf.info
  /\ mainFile' = Unset /\ levelFiles' = <<>> /\ masking' = FALSE
  /\ changing' = [w \in Writers |-> NoChange] /\ overlapped' = {}
  /\ logger' = [h \in Holders |-> NoLogger]
  /\ buffer' = <<>>

LogInit ==
  /\ started = FALSE /\ logConfig = Default /\ atomicLevel = LevelOf.info
  /\ mainFile = Unset /\ levelFiles = <<>> /\ masking = FALSE
  /\ changing = [w \in Writers |-> NoChange] /\ overlapped = {}
  /\ logger = [h \in Holders |-> NoLogger]
  /\ buffer = <<>> /\ app = <<>>
  /\ written = [f \in AllFiles |-> <<>>] /\ logged = 0

-----------------------------------------------------------------------------
(* Settings that change while the logger runs                              *)

SetLevel(name) == atomicLevel' = parseLogLevel(name)

\* A parameter that somebody has yet to give to app.log's logger.
Pending(p) == \E w \in Writers : <<"app", p>> \in changing[w].left

\* The call of a function that assigns what is positive in r.
Begin(w, r, places) ==
  LET positive == {p \in Params : r[p] > 0} IN
  /\ changing[w].left = {}
  /\ changing' = IF positive = {} THEN changing
                 ELSE [changing EXCEPT ![w] = [to |-> r, left |-> places \X positive]]
  /\ overlapped' = (overlapped \ positive) \cup {p \in positive : Pending(p)}
  /\ UNCHANGED <<logConfig, mainFile, levelFiles>>

\* Parameter by parameter, to the configuration and then to the main file; and
\* then the same to the level files, in no order of those.
Turn == [MaxSize |-> 1, MaxBackups |-> 2, MaxAge |-> 3]
Before(a, b) ==
  \/ a[1] \in Places /\ b[1] \notin Places
  \/ (a[1] = b[1] \/ {a[1], b[1]} \subseteq Places) /\ Turn[a[2]] < Turn[b[2]]
  \/ a[1] = "config" /\ b[1] = "app" /\ a[2] = b[2]

Assign(s, v) ==
  /\ logConfig' = IF s[1] = "config" THEN [logConfig EXCEPT !.rotation[s[2]] = v] ELSE logConfig
  /\ mainFile' = IF s[1] = "app" THEN [mainFile EXCEPT ![s[2]] = v] ELSE mainFile
  /\ levelFiles' = IF s[1] \in Places THEN levelFiles ELSE [levelFiles EXCEPT ![s[1]][s[2]] = v]

Rest(change, s) == IF change.left = {s} THEN NoChange ELSE [change EXCEPT !.left = @ \ {s}]

RunStatement(w) ==
  /\ \E s \in changing[w].left :
       /\ \A o \in changing[w].left : ~Before(o, s)
       /\ Assign(s, changing[w].to[s[2]])
       /\ changing' = [changing EXCEPT ![w] = Rest(@, s)]
  /\ UNCHANGED <<started, atomicLevel, masking, overlapped, logger, entries>>

UpdateLogLevel(name) ==
  /\ started
  /\ SetLevel(name)
  /\ UNCHANGED <<started, masking, rotations, logger, entries>>

SetRotation(w, r) == Begin(w, r, Places \cup DOMAIN levelFiles)

UpdateLogRotation(w, r) ==
  /\ started
  /\ SetRotation(w, r)
  /\ UNCHANGED <<started, atomicLevel, masking, logger, entries>>

\* UpdateMaxSize, UpdateMaxBackups, UpdateMaxAge: the level files keep theirs.
UpdateOne(w, p, v) ==
  /\ started
  /\ Begin(w, [Unset EXCEPT ![p] = v], Places)
  /\ UNCHANGED <<started, atomicLevel, masking, logger, entries>>

UpdateSensitiveConfig(on) ==
  /\ masking' = on
  /\ UNCHANGED <<started, atomicLevel, rotations, logger, entries>>

\* Init, the first time: the logger is built.  Level files without a level
\* are skipped.
Build(conf) ==
  LET rotation == Picked(conf.rotation, Default.rotation)
      named == {f \in DOMAIN conf.files : conf.files[f].level # ""} IN
  /\ ~started /\ started' = TRUE
  /\ logConfig' = [level |-> IF conf.level # "" THEN conf.level ELSE Default.level,
                   rotation |-> rotation, async |-> conf.async, files |-> conf.files]
  /\ atomicLevel' = parseLogLevel(IF conf.level # "" THEN conf.level ELSE Default.level)
  /\ mainFile' = rotation
  /\ levelFiles' = [f \in named |-> Picked(conf.files[f].own, rotation)]
  /\ masking' = conf.sensitive
  /\ UNCHANGED <<changing, overlapped, logger, entries>>

\* Init, any later time: level and rotation only.
Reinit(w, conf) ==
  /\ started
  /\ SetLevel(conf.level)
  /\ SetRotation(w, conf.rotation)
  /\ UNCHANGED <<started, masking, logger, entries>>

-----------------------------------------------------------------------------
(* Logging                                                                 *)

\* Ctx: a plain logger, or one whose core is wrapped for the traceId, for
\* masking or both.  The caller may keep it.
Ctx(h, traced) ==
  /\ started
  /\ logger' = [logger EXCEPT ![h] = [taken |-> TRUE, traced |-> traced, masks |-> masking]]
  /\ UNCHANGED <<settings, entries>>

Threshold(f) == parseLogLevel(logConfig.files[f].level)
Passes(f, level) == level >= Threshold(f)

\* zap asks each core whether it takes the entry.
Plain(level) == (IF level >= atomicLevel THEN {"app"} ELSE {})
                  \cup {f \in DOMAIN levelFiles : Passes(f, level)}

\* traceIdCore and sensitiveWriteCore only ask whether any of the cores does,
\* and then write to the core they wrap, which writes to every one.
Wrapped(level) == IF Plain(level) # {} THEN {"app"} \cup DOMAIN levelFiles ELSE {}

IsWrapped(h) == logger[h].traced \/ logger[h].masks
Targets(h, level) == IF IsWrapped(h) THEN Wrapped(level) ELSE Plain(level)

\* Mutant: an entry that finds no room passes those that are in the buffer.
WriteMain_Overtakes(e) ==
  IF ~logConfig.async THEN app' = Append(app, e) /\ UNCHANGED buffer
  ELSE IF Len(buffer) < BufferSize THEN buffer' = Append(buffer, e) /\ UNCHANGED app
  ELSE app' = Append(app, e) /\ UNCHANGED buffer

\* app.log gets an entry directly, or through the buffer, which is written
\* out first when it has no room.
WriteMain(e) ==
  IF ~logConfig.async THEN app' = Append(app, e) /\ UNCHANGED buffer
  ELSE IF Len(buffer) < BufferSize THEN buffer' = Append(buffer, e) /\ UNCHANGED app
  ELSE app' = app \o buffer /\ buffer' = <<e>>

Log(h, level) ==
  /\ logger[h].taken
  /\ logged < MaxEntries
  /\ LET e == [level |-> level, wrapped |-> IsWrapped(h), number |-> logged + 1]
         to == Targets(h, level) IN
     /\ logged' = IF to = {} THEN logged ELSE logged + 1
     /\ IF "app" \in to THEN WriteMain(e) ELSE UNCHANGED <<app, buffer>>
     /\ written' = [f \in AllFiles |-> IF f \in to THEN Append(written[f], e)
                                       ELSE written[f]]
  /\ UNCHANGED <<settings, logger>>

\* BufferedWriteSyncer's flush every second, and Sync.
Flush ==
  /\ buffer # <<>>
  /\ app' = app \o buffer /\ buffer' = <<>>
  /\ UNCHANGED <<settings, logger, written, logged>>

\* The process dies and is started again; its buffer is lost.
Restart == started /\ Fresh /\ UNCHANGED <<app, written, logged>>

-----------------------------------------------------------------------------
LogNext ==
  \/ \E conf \in Confs : Build(conf)
  \/ \E name \in Names : UpdateLogLevel(name)
  \/ \E w \in Writers :
       \/ \E conf \in Confs : Reinit(w, conf)
       \/ \E r \in [Params -> Values \cup {0}] : UpdateLogRotation(w, r)
       \/ \E p \in Params, v \in Values : UpdateOne(w, p, v)
       \/ RunStatement(w)
  \/ \E on \in Masks : UpdateSensitiveConfig(on)
  \/ \E h \in Holders :
       \/ \E traced \in Traces : Ctx(h, traced)
       \/ \E level \in Levels : Log(h, level)
  \/ Flush \/ Restart

LogSpec == LogInit /\ [][LogNext]_vars

-----------------------------------------------------------------------------
(* What GetLogConfig reports of a parameter is what the main file has, once *)
(* a change of it is over that had no other beside it, whatever overlapped  *)
(* before it.                                                               *)
RotationIsReported ==
  started => \A p \in Params \ overlapped :
               ~Pending(p) => mainFile[p] = logConfig.rotation[p]

(* "Lowest level (that level and above included)": a level file holds no    *)
(* entry below its level.                                                   *)
LevelFilesFilter ==
  started => \A f \in DOMAIN levelFiles : \A i \in DOMAIN written[f] :
               Passes(f, written[f][i].level)

(* ... and this is so for the entries that loggers log to which Ctx added   *)
(* neither a traceId nor masking, whatever other loggers log, and however   *)
(* levels change in between.                                                *)
PlainEntriesFiltered ==
  started => \A f \in DOMAIN levelFiles : \A i \in DOMAIN written[f] :
               ~written[f][i].wrapped => Passes(f, written[f][i].level)

(* The buffer, restarts and changes of the settings never put an entry      *)
(* before an older one, or into a file a second time.                       *)
EntriesInOrder ==
  \A log \in {app \o buffer} \cup {written[f] : f \in AllFiles} :
    \A i, j \in DOMAIN log : i < j => log[i].number < log[j].number

(* The log files: no entry comes before an older one or a second time, and   *)
(* a plain logger's entries keep to the levels of the files.                 *)
EntriesKept == TypeOK /\ EntriesInOrder /\ PlainEntriesFiltered
=============================================================================
