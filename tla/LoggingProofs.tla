--------------------------- MODULE LoggingProofs ---------------------------
(***************************************************************************)
(* Proofs about modules Logging and ConfigCenter: about a program that     *)
(* logs and changes the settings itself, for any configurations, holders   *)
(* of loggers, entries and size of the buffer; and about one whose         *)
(* settings come from the configuration centre, for any contents, changes  *)
(* and number of updates at the same time.                                 *)
(***************************************************************************)
EXTENDS ConfigCenter, SequenceTheorems, TLAPS

-----------------------------------------------------------------------------
(* Logging                                                                 *)

\* No number of a log is above n.
UpTo(log, n) == \A i \in DOMAIN log : log[i].number <= n

Ordered(log) == \A i, j \in DOMAIN log : i < j => log[i].number < log[j].number

(* Of a parameter whose changes did not overlap, one goroutine at most has   *)
(* one in progress; what it has given to the configuration the main file     *)
(* gets next, and then both have it.                                         *)
ParameterInv(p) ==
  /\ \A w \in Writers :
       <<"config", p>> \in changing[w].left => <<"app", p>> \in changing[w].left
  /\ p \notin overlapped =>
       /\ \A w, u \in Writers :
            <<"app", p>> \in changing[w].left /\ <<"app", p>> \in changing[u].left => w = u
       /\ \A w \in Writers :
            <<"app", p>> \in changing[w].left /\ <<"config", p>> \notin changing[w].left
              => logConfig.rotation[p] = changing[w].to[p]
       /\ started /\ ~Pending(p) => mainFile[p] = logConfig.rotation[p]

NoneChanges == \A w \in Writers : changing[w].left = {}

RotationInv == (\A p \in Params : ParameterInv(p)) /\ (~started => NoneChanges)

(* What the settings rest on: level files have levels, and without a buffer, *)
(* or a logger, nothing is in it.                                            *)
SettingsInv ==
  /\ RotationInv
  /\ \A f \in DOMAIN levelFiles : logConfig.files[f].level # ""
  /\ ~logConfig.async => buffer = <<>>
  /\ ~started => buffer = <<>> /\ \A h \in Holders : ~logger[h].taken

(* Every log is in order and holds no number that is still to come.          *)
NumbersInv ==
  /\ Ordered(app \o buffer) /\ UpTo(app \o buffer, logged)
  /\ \A f \in AllFiles : Ordered(written[f]) /\ UpTo(written[f], logged)

(* A level file keeps its level when the program is started again, with this *)
(* configuration or another.                                                 *)
FilesKeepLevels ==
  \A c, d \in Confs : \A f \in DOMAIN c.files \cap DOMAIN d.files :
    c.files[f].level = d.files[f].level

\* What a plain logger wrote to a file that has a level in some configuration.
LevelsInv ==
  \A c \in Confs : \A f \in DOMAIN c.files : c.files[f].level # "" =>
    \A i \in DOMAIN written[f] :
      ~written[f][i].wrapped => written[f][i].level >= parseLogLevel(c.files[f].level)

-----------------------------------------------------------------------------
LEMMA LevelType == ASSUME NEW name PROVE parseLogLevel(name) \in Levels
BY DEF parseLogLevel, Levels, LevelOf

LEMMA PickedType ==
  ASSUME NEW custom \in Settings, NEW default \in Settings
  PROVE  Picked(custom, default) \in Settings
BY DEF Picked, Settings

LEMMA EntryNumber == \A e \in Entry : e.number \in Nat
<1>1. MaxEntries \in Nat
  BY Zenon, LoggingAssumption
<1> QED BY <1>1 DEF Entry

(* A log that gets a later entry stays in order.                             *)
LEMMA AppendOrdered ==
  ASSUME NEW log \in Seq(Entry), NEW n \in Nat, UpTo(log, n), Ordered(log),
         NEW e \in Entry, e.number = n + 1
  PROVE  Ordered(Append(log, e)) /\ UpTo(Append(log, e), n + 1)
<1>1. /\ DOMAIN Append(log, e) = 1 .. Len(log) + 1 /\ DOMAIN log = 1 .. Len(log)
      /\ \A i \in 1 .. Len(log) : Append(log, e)[i] = log[i]
      /\ Append(log, e)[Len(log) + 1] = e
  BY AppendProperties
<1>2. Len(log) \in Nat /\ \A i \in 1 .. Len(log) : log[i].number \in Nat
  <2>1. \A i \in 1 .. Len(log) : log[i] \in Entry
    BY ElementOfSeq
  <2> QED BY <2>1, EntryNumber, LenProperties
<1> DEFINE new == Append(log, e)
<1>3. \A i \in DOMAIN new : i \in DOMAIN log \/ i = Len(log) + 1
  BY <1>1, <1>2
<1> HIDE DEF new
<1>4. UpTo(new, n + 1)
  BY <1>1, <1>2, <1>3 DEF UpTo, new
<1>5. Ordered(new)
  BY <1>1, <1>2, <1>3 DEF Ordered, UpTo, new
<1> QED BY <1>4, <1>5 DEF new

LEMMA AppendAt ==
  ASSUME NEW log \in Seq(Entry), NEW e \in Entry, NEW i \in DOMAIN Append(log, e)
  PROVE  \/ i \in DOMAIN log /\ Append(log, e)[i] = log[i]
         \/ Append(log, e)[i] = e
<1>1. /\ DOMAIN Append(log, e) = 1 .. Len(log) + 1 /\ DOMAIN log = 1 .. Len(log)
      /\ \A k \in 1 .. Len(log) : Append(log, e)[k] = log[k]
      /\ Append(log, e)[Len(log) + 1] = e
  BY AppendProperties
<1>2. Len(log) \in Nat
  OBVIOUS
<1> QED BY <1>1, <1>2

LEMMA NoFiles ==
  ASSUME NEW f, NEW files, f \in DOMAIN files, files \in {c.files : c \in Confs} \cup {<<>>}
  PROVE  \E c \in Confs : files = c.files
<1>1. DOMAIN <<>> = {}
  OBVIOUS
<1> QED BY <1>1

(* The entry that Log makes, and where it goes.                              *)
LEMMA LoggedEntry ==
  ASSUME TypeOK, NEW h \in Holders, NEW level \in Levels, logged < MaxEntries
  PROVE  /\ [level |-> level, wrapped |-> IsWrapped(h), number |-> logged + 1] \in Entry
         /\ logged \in Nat
<1>1. IsWrapped(h) \in BOOLEAN
  BY Zenon DEF IsWrapped
<1>2. logged \in Nat /\ logged + 1 \in 1 .. MaxEntries
  <2>1. logged \in 0 .. MaxEntries /\ MaxEntries \in Nat
    BY Zenon, LoggingAssumption DEF TypeOK
  <2> QED BY <2>1
<1> HIDE DEF IsWrapped
<1> QED BY <1>1, <1>2 DEF Entry

(* The main file and its buffer take an entry in order, or leave both alone. *)
LEMMA MainTakes ==
  ASSUME TypeOK, SettingsInv, NEW e \in Entry, WriteMain(e)
  PROVE  /\ app' \in Seq(Entry) /\ buffer' \in Seq(Entry) /\ Len(buffer') <= BufferSize
         /\ app' \o buffer' = Append(app \o buffer, e)
         /\ ~logConfig.async => buffer' = <<>>
<1>0. app \in Seq(Entry) /\ buffer \in Seq(Entry) /\ Len(buffer) <= BufferSize
      /\ BufferSize \in Nat \ {0}
  BY Zenon, LoggingAssumption DEF TypeOK
<1>e. <<e>> \in Seq(Entry) /\ Len(<<e>>) = 1 /\ app \o buffer \in Seq(Entry)
  BY <1>0
<1>1. CASE ~logConfig.async
  <2>1. buffer = <<>> /\ buffer' = <<>> /\ app' = Append(app, e)
    BY <1>1 DEF SettingsInv, WriteMain
  <2>2. Append(app, e) \in Seq(Entry)
    BY <1>0
  <2> QED BY <1>0, <2>1, <2>2, ConcatEmptySeq
<1>2. CASE logConfig.async /\ Len(buffer) < BufferSize
  <2>1. app' = app /\ buffer' = Append(buffer, e)
    BY <1>2 DEF WriteMain
  <2>2. app \o Append(buffer, e) = Append(app \o buffer, e)
    <3>1. app \o (buffer \o <<e>>) = (app \o buffer) \o <<e>>
      BY <1>0, <1>e, ConcatAssociative
    <3>2. /\ Append(buffer, e) = buffer \o <<e>>
          /\ Append(app \o buffer, e) = (app \o buffer) \o <<e>>
      BY <1>0, <1>e, AppendIsConcat
    <3> QED BY Zenon, <3>1, <3>2
  <2>3. Append(buffer, e) \in Seq(Entry) /\ Len(Append(buffer, e)) = Len(buffer) + 1
    BY <1>0
  <2> QED BY <1>0, <1>2, <2>1, <2>2, <2>3
<1>3. CASE logConfig.async /\ ~(Len(buffer) < BufferSize)
  <2>1. app' = app \o buffer /\ buffer' = <<e>>
    BY <1>3 DEF WriteMain
  <2>2. Append(app \o buffer, e) = (app \o buffer) \o <<e>>
    BY <1>e, AppendIsConcat
  <2> QED BY <1>0, <1>e, <1>3, <2>1, <2>2
<1> QED BY <1>1, <1>2, <1>3

-----------------------------------------------------------------------------
LEMMA RotationSame ==
  ASSUME RotationInv, UNCHANGED <<started, rotations>>
  PROVE  RotationInv'
BY DEF RotationInv, ParameterInv, Pending, NoneChanges, rotations

(* Init builds a logger out of a configuration, or changes the one there is. *)
LEMMA BuildKeeps ==
  ASSUME TypeOK, SettingsInv, NEW conf, IsConf(conf),
         conf.files \in {c.files : c \in Confs} \cup {<<>>}, Build(conf)
  PROVE  TypeOK' /\ SettingsInv'
<1> DEFINE named == {f \in DOMAIN conf.files : conf.files[f].level # ""}
<1>1. Default.rotation \in Settings /\ Default.level = "info"
  BY DEF Default, Settings
<1>2. Picked(conf.rotation, Default.rotation) \in Settings
  BY <1>1, PickedType DEF IsConf
<1>3. \A f \in named : Picked(conf.files[f].own, Picked(conf.rotation, Default.rotation))
                        \in Settings
  BY <1>2, PickedType DEF IsConf
<1>4. logConfig' \in LogConfigs /\ logConfig'.files = conf.files
      /\ logConfig'.rotation = Picked(conf.rotation, Default.rotation)
  <2>1. (IF conf.level # "" THEN conf.level ELSE Default.level) \in LevelNames
    <3>1. "info" \in LevelNames
      BY DEF LevelNames, LevelOf
    <3>2. conf.level \in LevelNames
      BY DEF IsConf
    <3> QED BY Zenon, <1>1, <3>1, <3>2
  <2>2. conf.async \in BOOLEAN
    BY DEF IsConf
  <2> QED BY <1>2, <2>1, <2>2 DEF Build, LogConfigs
<1>5. /\ mainFile' = Picked(conf.rotation, Default.rotation)
      /\ levelFiles' = [f \in named |-> Picked(conf.files[f].own,
                                               Picked(conf.rotation, Default.rotation))]
      /\ atomicLevel' \in Levels /\ started' = TRUE /\ ~started
      /\ masking' = conf.sensitive /\ conf.sensitive \in BOOLEAN
      /\ UNCHANGED <<changing, overlapped, logger, buffer, app, written, logged>>
  BY LevelType DEF Build, IsConf, entries
<1>6. DOMAIN levelFiles' = named
  BY <1>5
<1> HIDE DEF named
<1>7. \A f \in DOMAIN levelFiles' : levelFiles'[f] \in Settings
  BY <1>3, <1>5, <1>6
<1>8. named \subseteq DOMAIN conf.files /\ \A f \in named : conf.files[f].level # ""
  BY DEF named
<1>9. TypeOK'
  BY <1>2, <1>4, <1>5, <1>6, <1>7, <1>8 DEF TypeOK
<1>r. RotationInv'
  <2>1. NoneChanges /\ NoneChanges'
    BY <1>5 DEF SettingsInv, RotationInv, NoneChanges
  <2> QED BY <1>4, <1>5, <2>1 DEF RotationInv, ParameterInv, NoneChanges
<1>10. SettingsInv'
  BY <1>4, <1>5, <1>6, <1>8, <1>r DEF SettingsInv
<1> QED BY <1>9, <1>10

LEMMA StatementTypes ==
  ASSUME NEW places \in SUBSET (Places \cup AllFiles), NEW positive \in SUBSET Params
  PROVE  places \X positive \in SUBSET Statements
BY DEF Statements

LEMMA FilesOfConfs == TypeOK => DOMAIN levelFiles \subseteq AllFiles
<1> SUFFICES ASSUME TypeOK, NEW f \in DOMAIN levelFiles PROVE f \in AllFiles
  OBVIOUS
<1>1. f \in DOMAIN logConfig.files /\ logConfig.files \in {c.files : c \in Confs} \cup {<<>>}
  <2>1. DOMAIN levelFiles \subseteq DOMAIN logConfig.files /\ logConfig \in LogConfigs
    BY Zenon DEF TypeOK
  <2> QED BY <2>1 DEF LogConfigs
<1>2. PICK c \in Confs : logConfig.files = c.files
  BY <1>1, NoFiles
<1> QED BY <1>1, <1>2 DEF AllFiles

LEMMA BeginKeeps ==
  ASSUME TypeOK, SettingsInv, started, NEW w \in Writers, NEW r \in Settings,
         NEW places \in SUBSET (Places \cup AllFiles), Places \subseteq places,
         Begin(w, r, places), atomicLevel' \in Levels,
         UNCHANGED <<started, masking, logger, entries>>
  PROVE  TypeOK' /\ SettingsInv'
<1> DEFINE positive == {p \in Params : r[p] > 0}
           new == [to |-> r, left |-> places \X positive]
<1>1. /\ changing[w].left = {} /\ UNCHANGED <<logConfig, mainFile, levelFiles>>
      /\ changing' = IF positive = {} THEN changing ELSE [changing EXCEPT ![w] = new]
      /\ overlapped' = (overlapped \ positive) \cup {p \in positive : Pending(p)}
  BY Zenon DEF Begin
<1>2. changing \in [Writers -> [to : Settings, left : SUBSET Statements]] /\ overlapped \subseteq Params
  BY Zenon DEF TypeOK
<1>3. new \in [to : Settings, left : SUBSET Statements]
  <2>1. places \X positive \in SUBSET Statements
    BY StatementTypes
  <2> QED BY <2>1
<1>4. changing' \in [Writers -> [to : Settings, left : SUBSET Statements]]
      /\ overlapped' \subseteq Params
  BY <1>1, <1>2, <1>3
<1>5. TypeOK'
  BY <1>1, <1>4 DEF TypeOK, entries
<1>6. ASSUME NEW p \in Params PROVE ParameterInv(p)'
  <2>0. ParameterInv(p)
    BY DEF SettingsInv, RotationInv
  <2>1. CASE p \notin positive
    <3>1. \A u \in Writers : \A place \in Places :
            <<place, p>> \in changing'[u].left <=> <<place, p>> \in changing[u].left
      BY <1>1, <1>2, <2>1
    <3>2. \A u \in Writers :
            <<"app", p>> \in changing'[u].left => changing'[u] = changing[u]
      BY <1>1, <1>2, <2>1
    <3>3. (p \in overlapped' <=> p \in overlapped) /\ (Pending(p)' <=> Pending(p))
      BY <1>1, <2>1, <3>1 DEF Pending, Places
    <3> QED BY <1>1, <2>0, <3>1, <3>2, <3>3 DEF ParameterInv, Places
  <2>2. CASE p \in positive
    <3>1. /\ changing'[w] = new /\ \A u \in Writers : u # w => changing'[u] = changing[u]
      BY <1>1, <1>2, <2>2
    <3>2. <<"config", p>> \in changing'[w].left /\ <<"app", p>> \in changing'[w].left
      BY <2>2, <3>1 DEF Places
    <3>3. p \notin overlapped' => \A u \in Writers : <<"app", p>> \notin changing[u].left
      BY <1>1, <2>2 DEF Pending
    <3> QED BY <2>0, <3>1, <3>2, <3>3 DEF ParameterInv, Pending
  <2> QED BY <2>1, <2>2
<1>7. SettingsInv'
  BY <1>1, <1>6 DEF SettingsInv, RotationInv, entries
<1> QED BY <1>5, <1>7

(* One statement, which is not before those that it has to come after.       *)
LEMMA StatementKeeps ==
  ASSUME TypeOK, SettingsInv, NEW w \in Writers, RunStatement(w)
  PROVE  /\ TypeOK' /\ SettingsInv'
         /\ UNCHANGED <<started, atomicLevel, masking, overlapped, logger, entries>>
<1>0. UNCHANGED <<started, atomicLevel, masking, overlapped, logger, entries>>
  BY DEF RunStatement
<1>1. PICK s \in changing[w].left :
        /\ \A o \in changing[w].left : ~Before(o, s)
        /\ Assign(s, changing[w].to[s[2]])
        /\ changing' = [changing EXCEPT ![w] = Rest(changing[w], s)]
  BY DEF RunStatement
<1>2. changing \in [Writers -> [to : Settings, left : SUBSET Statements]]
  BY Zenon DEF TypeOK
<1>3. PICK place \in Places \cup AllFiles, q \in Params : s = <<place, q>>
  BY <1>2 DEF Statements
<1>4. PICK v \in Nat : v = changing[w].to[q]
  BY <1>2 DEF Settings
<1>5. /\ logConfig' = IF place = "config" THEN [logConfig EXCEPT !.rotation[q] = v] ELSE logConfig
      /\ mainFile' = IF place = "app" THEN [mainFile EXCEPT ![q] = v] ELSE mainFile
      /\ levelFiles' = IF place \in Places THEN levelFiles
                       ELSE [levelFiles EXCEPT ![place][q] = v]
  BY <1>1, <1>3, <1>4 DEF Assign
<1>6. /\ changing' \in [Writers -> [to : Settings, left : SUBSET Statements]]
      /\ \A u \in Writers : u # w => changing'[u] = changing[u]
      /\ changing'[w].left = changing[w].left \ {s}
      /\ changing'[w].left # {} => changing'[w].to = changing[w].to
  <2> DEFINE new == Rest(changing[w], s)
  <2>1. /\ new \in [to : Settings, left : SUBSET Statements]
        /\ new.left = changing[w].left \ {s}
        /\ new.left # {} => new.to = changing[w].to
    <3>1. changing[w] \in [to : Settings, left : SUBSET Statements]
      BY <1>2
    <3>2. CASE changing[w].left = {s}
      <4>1. NoChange \in [to : Settings, left : SUBSET Statements] /\ NoChange.left = {}
        BY DEF NoChange, Unset, Settings
      <4> QED BY <3>2, <4>1 DEF Rest
    <3>3. CASE changing[w].left # {s}
      BY <3>1, <3>3 DEF Rest
    <3> QED BY <3>2, <3>3
  <2>2. changing' = [changing EXCEPT ![w] = new]
    BY <1>1
  <2> HIDE DEF new
  <2> QED BY <1>2, <2>1, <2>2
<1>7. /\ logConfig \in LogConfigs /\ mainFile \in Settings
      /\ \A f \in DOMAIN levelFiles : levelFiles[f] \in Settings
      /\ DOMAIN levelFiles \subseteq DOMAIN logConfig.files
  BY Zenon DEF TypeOK
<1>8. /\ logConfig' \in LogConfigs /\ logConfig'.files = logConfig.files
      /\ logConfig'.async = logConfig.async
      /\ logConfig'.rotation = IF place = "config" THEN [logConfig.rotation EXCEPT ![q] = v]
                               ELSE logConfig.rotation
  BY <1>5, <1>7 DEF LogConfigs, Settings
<1>9. mainFile' \in Settings
  BY <1>5, <1>7 DEF Settings
<1>10. /\ DOMAIN levelFiles' = DOMAIN levelFiles
       /\ \A f \in DOMAIN levelFiles' : levelFiles'[f] \in Settings
  BY <1>5, <1>7 DEF Settings
<1>11. TypeOK'
  BY <1>0, <1>6, <1>7, <1>8, <1>9, <1>10 DEF TypeOK, entries
<1>12. ASSUME NEW p \in Params PROVE ParameterInv(p)'
  <2>0. ParameterInv(p)
    BY DEF SettingsInv, RotationInv
  <2>1. CASE p # q \/ place \notin Places
    <3>1. \A u \in Writers : \A c \in Places :
            <<c, p>> \in changing'[u].left <=> <<c, p>> \in changing[u].left
      BY <1>3, <1>6, <2>1
    <3>2. \A u \in Writers : <<"app", p>> \in changing'[u].left => changing'[u].to = changing[u].to
      BY <1>6
    <3>3. logConfig'.rotation[p] = logConfig.rotation[p] /\ mainFile'[p] = mainFile[p]
      BY <1>5, <1>7, <1>8, <2>1 DEF Settings, Places
    <3>4. Pending(p)' <=> Pending(p)
      BY <3>1 DEF Pending, Places
    <3> QED BY <1>0, <2>0, <3>1, <3>2, <3>3, <3>4 DEF ParameterInv, Places
  <2>2. CASE p = q /\ place = "config"
    <3>1. /\ <<"app", p>> \in changing[w].left /\ logConfig'.rotation[p] = changing[w].to[p]
          /\ mainFile' = mainFile
      BY <1>1, <1>3, <1>4, <1>5, <1>7, <1>8, <2>0, <2>2 DEF ParameterInv, LogConfigs, Settings, Places
    <3>2. /\ \A u \in Writers : <<"app", p>> \in changing'[u].left <=> <<"app", p>> \in changing[u].left
          /\ changing'[w].to = changing[w].to
          /\ \A u \in Writers : <<"config", p>> \in changing'[u].left => <<"config", p>> \in changing[u].left
      BY <1>3, <1>6, <2>2, <3>1
    <3>3. Pending(p)' /\ Pending(p)
      BY <3>1, <3>2 DEF Pending
    <3> QED BY <1>0, <1>6, <2>0, <3>1, <3>2, <3>3 DEF ParameterInv
  <2>3. CASE p = q /\ place = "app"
    <3>1. <<"config", p>> \notin changing[w].left
      BY <1>1, <1>3, <2>3 DEF Before
    <3>2. /\ <<"app", p>> \in changing[w].left /\ mainFile'[p] = changing[w].to[p]
          /\ logConfig' = logConfig
      BY <1>1, <1>3, <1>4, <1>5, <1>7, <2>3 DEF Settings, Places
    <3>3. /\ <<"app", p>> \notin changing'[w].left /\ <<"config", p>> \notin changing'[w].left
          /\ \A u \in Writers : u # w => changing'[u] = changing[u]
      BY <1>3, <1>6, <2>3, <3>1
    <3> QED BY <1>0, <2>0, <3>1, <3>2, <3>3 DEF ParameterInv, Pending
  <2> QED BY <2>1, <2>2, <2>3 DEF Places
<1>13. RotationInv'
  <2>1. started'
    BY <1>0, <1>1 DEF SettingsInv, RotationInv, NoneChanges
  <2> QED BY <1>12, <2>1 DEF RotationInv
<1>14. SettingsInv'
  BY <1>0, <1>8, <1>10, <1>13 DEF SettingsInv, entries
<1> QED BY <1>0, <1>11, <1>14

LEMMA SettingsStep ==
  ASSUME TypeOK, SettingsInv,
         \/ \E conf \in Confs : Build(conf)
         \/ \E name : UpdateLogLevel(name)
         \/ \E w \in Writers :
              \/ \E conf \in Confs : Reinit(w, conf)
              \/ \E r \in Settings : UpdateLogRotation(w, r)
              \/ \E p \in Params, v \in Values : UpdateOne(w, p, v)
              \/ RunStatement(w)
         \/ \E on \in Masks : UpdateSensitiveConfig(on)
         \/ UNCHANGED vars
  PROVE  TypeOK' /\ SettingsInv' /\ UNCHANGED entries
<1>1. ASSUME NEW conf \in Confs, Build(conf) PROVE TypeOK' /\ SettingsInv' /\ UNCHANGED entries
  <2>1. IsConf(conf)
    BY LoggingAssumption
  <2> QED BY <1>1, <2>1, BuildKeeps DEF Build
<1>p. /\ Places \cup DOMAIN levelFiles \in SUBSET (Places \cup AllFiles)
      /\ Places \in SUBSET (Places \cup AllFiles)
  BY FilesOfConfs
<1>2. ASSUME NEW w \in Writers, NEW conf \in Confs, Reinit(w, conf)
      PROVE  TypeOK' /\ SettingsInv' /\ UNCHANGED entries
  <2>1. conf.rotation \in Settings
    BY LoggingAssumption DEF IsConf
  <2>2. atomicLevel' \in Levels
    BY <1>2, LevelType DEF Reinit, SetLevel
  <2>3. /\ started /\ Begin(w, conf.rotation, Places \cup DOMAIN levelFiles)
        /\ UNCHANGED <<started, masking, logger, entries>>
    BY <1>2 DEF Reinit, SetRotation
  <2> QED BY <1>p, <2>1, <2>2, <2>3, BeginKeeps
<1>3. ASSUME NEW name, UpdateLogLevel(name) PROVE TypeOK' /\ SettingsInv' /\ UNCHANGED entries
  <2>1. atomicLevel' \in Levels
    BY <1>3, LevelType DEF UpdateLogLevel, SetLevel
  <2>2. UNCHANGED <<started, masking, rotations, logger, entries>>
    BY <1>3 DEF UpdateLogLevel
  <2> QED BY <2>1, <2>2, RotationSame DEF TypeOK, SettingsInv, rotations, entries
<1>4. ASSUME NEW w \in Writers, NEW r \in Settings, UpdateLogRotation(w, r)
      PROVE  TypeOK' /\ SettingsInv' /\ UNCHANGED entries
  <2>1. atomicLevel' \in Levels
    BY <1>4 DEF UpdateLogRotation, TypeOK
  <2>2. /\ started /\ Begin(w, r, Places \cup DOMAIN levelFiles)
        /\ UNCHANGED <<started, masking, logger, entries>>
    BY <1>4 DEF UpdateLogRotation, SetRotation
  <2> QED BY <1>p, <2>1, <2>2, BeginKeeps
<1>5. ASSUME NEW w \in Writers, NEW p \in Params, NEW v \in Values, UpdateOne(w, p, v)
      PROVE  TypeOK' /\ SettingsInv' /\ UNCHANGED entries
  <2>1. [Unset EXCEPT ![p] = v] \in Settings
    <3>1. v \in Nat
      BY LoggingAssumption
    <3> QED BY <3>1 DEF Unset, Settings
  <2>2. atomicLevel' \in Levels
    BY <1>5 DEF UpdateOne, TypeOK
  <2>3. /\ started /\ Begin(w, [Unset EXCEPT ![p] = v], Places)
        /\ UNCHANGED <<started, masking, logger, entries>>
    BY <1>5 DEF UpdateOne
  <2> QED BY <1>p, <2>1, <2>2, <2>3, BeginKeeps
<1>6. ASSUME NEW w \in Writers, RunStatement(w) PROVE TypeOK' /\ SettingsInv' /\ UNCHANGED entries
  BY <1>6, StatementKeeps
<1>7. ASSUME NEW on \in Masks, UpdateSensitiveConfig(on)
      PROVE  TypeOK' /\ SettingsInv' /\ UNCHANGED entries
  <2>1. on \in BOOLEAN
    BY LoggingAssumption
  <2>2. masking' = on /\ UNCHANGED <<started, atomicLevel, rotations, logger, entries>>
    BY <1>7 DEF UpdateSensitiveConfig
  <2> QED BY <2>1, <2>2, RotationSame DEF TypeOK, SettingsInv, rotations, entries
<1>8. CASE UNCHANGED vars
  <2>1. UNCHANGED <<started, rotations>>
    BY <1>8 DEF vars, settings
  <2>2. RotationInv'
    BY <2>1, RotationSame DEF SettingsInv
  <2>3. /\ UNCHANGED <<started, logConfig, atomicLevel, mainFile, levelFiles, masking>>
        /\ UNCHANGED <<changing, overlapped, logger, buffer, app, written, logged>>
    BY <1>8 DEF vars, settings, rotations, entries
  <2>4. TypeOK'
    BY <2>3 DEF TypeOK
  <2>5. SettingsInv'
    BY <2>2, <2>3 DEF SettingsInv
  <2> QED BY <1>8, <2>4, <2>5 DEF vars
<1> QED BY <1>1, <1>2, <1>3, <1>4, <1>5, <1>6, <1>7, <1>8

-----------------------------------------------------------------------------
(* Every step of a program that sets its logger up itself.                   *)
LEMMA LogStep ==
  ASSUME TypeOK, SettingsInv, NumbersInv, NEW h \in Holders, NEW level \in Levels, Log(h, level)
  PROVE  TypeOK' /\ SettingsInv' /\ NumbersInv'
<1> DEFINE e == [level |-> level, wrapped |-> IsWrapped(h), number |-> logged + 1]
           to == Targets(h, level)
<1>1. e \in Entry /\ e.number = logged + 1 /\ logged \in Nat /\ logged + 1 \in 0 .. MaxEntries
  <2>1. logged < MaxEntries /\ MaxEntries \in Nat
    BY LoggingAssumption DEF Log
  <2>2. e \in Entry /\ logged \in Nat
    BY <2>1, LoggedEntry
  <2> QED BY <2>1, <2>2
<1>2. /\ logged' = IF to = {} THEN logged ELSE logged + 1
      /\ IF "app" \in to THEN WriteMain(e) ELSE UNCHANGED <<app, buffer>>
      /\ written' = [f \in AllFiles |-> IF f \in to THEN Append(written[f], e) ELSE written[f]]
      /\ UNCHANGED <<settings, logger>>
  BY DEF Log
<1> HIDE DEF e, to
<1>3. /\ app \in Seq(Entry) /\ buffer \in Seq(Entry) /\ app \o buffer \in Seq(Entry)
      /\ Len(buffer) <= BufferSize
      /\ \A f \in AllFiles : written[f] \in Seq(Entry)
  <2>1. app \in Seq(Entry) /\ buffer \in Seq(Entry) /\ Len(buffer) <= BufferSize
        /\ written \in [AllFiles -> Seq(Entry)]
    BY Zenon DEF TypeOK
  <2> QED BY <2>1
<1>4. /\ app' \in Seq(Entry) /\ buffer' \in Seq(Entry) /\ Len(buffer') <= BufferSize
      /\ ~logConfig.async => buffer' = <<>>
      /\ app' \o buffer' = IF "app" \in to THEN Append(app \o buffer, e) ELSE app \o buffer
  <2>1. CASE "app" \in to
    BY <1>1, <1>2, <2>1, MainTakes
  <2>2. CASE "app" \notin to
    BY <1>2, <1>3, <2>2 DEF SettingsInv
  <2> QED BY <2>1, <2>2
<1>5. \A f \in AllFiles : Append(written[f], e) \in Seq(Entry)
  BY <1>1, <1>3
<1>6. written' \in [AllFiles -> Seq(Entry)]
  BY <1>2, <1>3, <1>5
<1>7. logged' \in 0 .. MaxEntries
  <2>1. logged \in 0 .. MaxEntries
    BY Zenon DEF TypeOK
  <2> QED BY <1>1, <1>2, <2>1
<1>8. TypeOK'
  BY <1>2, <1>4, <1>6, <1>7 DEF TypeOK, settings, rotations
<1>9. SettingsInv'
  <2>1. logger[h].taken
    BY DEF Log
  <2>2. RotationInv'
    BY <1>2, RotationSame DEF SettingsInv, settings
  <2> QED BY <1>2, <1>4, <2>1, <2>2 DEF SettingsInv, settings, rotations
<1>10. ASSUME NEW log \in Seq(Entry), Ordered(log), UpTo(log, logged)
       PROVE  /\ Ordered(log) /\ UpTo(log, logged')
              /\ to # {} => Ordered(Append(log, e)) /\ UpTo(Append(log, e), logged')
  <2>1. CASE to = {}
    BY <1>2, <1>10, <2>1
  <2>2. CASE to # {}
    <3>1. logged' = logged + 1
      BY <1>2, <2>2
    <3>2. Ordered(Append(log, e)) /\ UpTo(Append(log, e), logged + 1)
      BY <1>1, <1>10, AppendOrdered
    <3>3. UpTo(log, logged + 1)
      <4>1. \A i \in DOMAIN log : log[i].number \in Nat
        BY EntryNumber, ElementOfSeq, LenProperties
      <4> QED BY <1>1, <1>10, <4>1 DEF UpTo
    <3> QED BY <1>10, <3>1, <3>2, <3>3
  <2> QED BY <2>1, <2>2
<1>11. Ordered(app' \o buffer') /\ UpTo(app' \o buffer', logged')
  <2>1. Ordered(app \o buffer) /\ UpTo(app \o buffer, logged)
    BY DEF NumbersInv
  <2>2. /\ Ordered(app \o buffer) /\ UpTo(app \o buffer, logged')
        /\ to # {} => Ordered(Append(app \o buffer, e)) /\ UpTo(Append(app \o buffer, e), logged')
    BY <1>3, <1>10, <2>1
  <2>3. "app" \in to => to # {}
    OBVIOUS
  <2> QED BY Zenon, <1>4, <2>2, <2>3
<1>12. ASSUME NEW f \in AllFiles PROVE Ordered(written'[f]) /\ UpTo(written'[f], logged')
  <2>1. Ordered(written[f]) /\ UpTo(written[f], logged)
    BY DEF NumbersInv
  <2>2. /\ Ordered(written[f]) /\ UpTo(written[f], logged')
        /\ to # {} => Ordered(Append(written[f], e)) /\ UpTo(Append(written[f], e), logged')
    BY <1>3, <1>10, <2>1
  <2>3. written'[f] = IF f \in to THEN Append(written[f], e) ELSE written[f]
    BY <1>2
  <2>4. f \in to => to # {}
    OBVIOUS
  <2> QED BY Zenon, <2>2, <2>3, <2>4
<1>13. NumbersInv'
  BY <1>11, <1>12 DEF NumbersInv, AllFiles
<1> QED BY <1>8, <1>9, <1>13

LEMMA FlushStep ==
  ASSUME TypeOK, SettingsInv, NumbersInv, Flush
  PROVE  TypeOK' /\ SettingsInv' /\ NumbersInv'
<1>1. app \in Seq(Entry) /\ buffer \in Seq(Entry) /\ BufferSize \in Nat
  BY Zenon, LoggingAssumption DEF TypeOK
<1>2. /\ app' = app \o buffer /\ buffer' = <<>> /\ app' \in Seq(Entry)
      /\ app' \o buffer' = app \o buffer
      /\ UNCHANGED <<settings, logger, written, logged>>
  BY <1>1, ConcatEmptySeq DEF Flush
<1>3. buffer' \in Seq(Entry) /\ Len(buffer') <= BufferSize
  BY <1>1, <1>2
<1>4. TypeOK'
  BY <1>2, <1>3 DEF TypeOK, settings, rotations
<1>5. SettingsInv'
  <2>1. RotationInv'
    BY <1>2, RotationSame DEF SettingsInv, settings
  <2> QED BY <1>2, <2>1 DEF SettingsInv, settings, rotations
<1>6. NumbersInv'
  BY Zenon, <1>2 DEF NumbersInv, AllFiles
<1> QED BY <1>4, <1>5, <1>6

(* A log without the end that was still in the buffer is in order.           *)
LEMMA FrontOrdered ==
  ASSUME NEW s \in Seq(Entry), NEW t \in Seq(Entry), NEW n \in Nat,
         Ordered(s \o t), UpTo(s \o t, n)
  PROVE  Ordered(s) /\ UpTo(s, n)
<1>1. /\ \A i \in DOMAIN s : i \in DOMAIN (s \o t) /\ (s \o t)[i] = s[i]
  BY ConcatProperties, LenProperties
<1> DEFINE whole == s \o t
<1> HIDE DEF whole
<1>2. \A i \in DOMAIN s : i \in DOMAIN whole /\ whole[i] = s[i]
  BY <1>1 DEF whole
<1>3. Ordered(whole) /\ UpTo(whole, n)
  BY DEF whole
<1> QED BY <1>2, <1>3 DEF Ordered, UpTo

LEMMA RestartStep ==
  ASSUME TypeOK, SettingsInv, NumbersInv, Restart
  PROVE  TypeOK' /\ SettingsInv' /\ NumbersInv'
<1>1. app \in Seq(Entry) /\ buffer \in Seq(Entry) /\ BufferSize \in Nat /\ logged \in Nat
  <2>1. app \in Seq(Entry) /\ buffer \in Seq(Entry) /\ BufferSize \in Nat /\ logged \in 0 .. MaxEntries
    BY Zenon, LoggingAssumption DEF TypeOK
  <2> QED BY <2>1
<1>2. /\ buffer' = <<>> /\ UNCHANGED <<app, written, logged>>
      /\ started' = FALSE /\ logConfig' = Default /\ atomicLevel' = 1
      /\ mainFile' = Unset /\ levelFiles' = <<>> /\ masking' = FALSE
      /\ logger' = [h \in Holders |-> NoLogger]
      /\ changing' = [w \in Writers |-> NoChange] /\ overlapped' = {}
  BY DEF Restart, Fresh, LevelOf
<1>3. buffer' \in Seq(Entry) /\ Len(buffer') <= BufferSize /\ app' \o buffer' = app
  BY <1>1, <1>2, ConcatEmptySeq
<1>4. Default \in LogConfigs /\ Unset \in Settings /\ Default.async = FALSE
      /\ [h \in Holders |-> NoLogger] \in
           [Holders -> [taken : BOOLEAN, traced : BOOLEAN, masks : BOOLEAN]]
  <2>1. "info" \in LevelNames
    BY DEF LevelNames, LevelOf
  <2> QED BY <2>1 DEF Default, LogConfigs, Settings, Unset, NoLogger
<1>5. DOMAIN levelFiles' = {}
  BY <1>2
<1>6. TypeOK'
  <2>1. /\ started' \in BOOLEAN /\ masking' \in BOOLEAN /\ atomicLevel' \in Levels
        /\ logConfig' \in LogConfigs /\ mainFile' \in Settings
    <3>1. 1 \in Levels
      BY DEF Levels
    <3> QED BY Zenon, <1>2, <1>4, <3>1
  <2>2. logger' \in [Holders -> [taken : BOOLEAN, traced : BOOLEAN, masks : BOOLEAN]]
    BY <1>2, <1>4
  <2>3. app' \in Seq(Entry) /\ written' \in [AllFiles -> Seq(Entry)] /\ logged' \in 0 .. MaxEntries
    BY <1>2 DEF TypeOK
  <2>4. DOMAIN levelFiles' \subseteq DOMAIN logConfig'.files
        /\ \A f \in DOMAIN levelFiles' : levelFiles'[f] \in Settings
    BY <1>5
  <2>5. changing' \in [Writers -> [to : Settings, left : SUBSET Statements]]
        /\ overlapped' \subseteq Params
    BY <1>2, <1>4 DEF NoChange
  <2> QED BY <1>3, <2>1, <2>2, <2>3, <2>4, <2>5 DEF TypeOK
<1>7. SettingsInv'
  <2>1. NoneChanges'
    BY <1>2 DEF NoneChanges, NoChange
  <2>2. RotationInv'
    BY <1>2, <2>1 DEF RotationInv, ParameterInv, NoneChanges
  <2> QED BY <1>2, <1>5, <2>2 DEF SettingsInv, NoLogger
<1>8. NumbersInv'
  <2>1. Ordered(app) /\ UpTo(app, logged)
    BY <1>1, FrontOrdered DEF NumbersInv
  <2> QED BY Zenon, <1>2, <1>3, <2>1 DEF NumbersInv, AllFiles
<1> QED BY <1>6, <1>7, <1>8

LEMMA CtxKeeps ==
  ASSUME TypeOK, SettingsInv, NEW h \in Holders, NEW traced \in Traces, Ctx(h, traced)
  PROVE  TypeOK' /\ SettingsInv' /\ UNCHANGED entries
<1>1. traced \in BOOLEAN /\ masking \in BOOLEAN
  BY LoggingAssumption DEF TypeOK
<1>2. logger' \in [Holders -> [taken : BOOLEAN, traced : BOOLEAN, masks : BOOLEAN]]
  <2>1. logger \in [Holders -> [taken : BOOLEAN, traced : BOOLEAN, masks : BOOLEAN]]
    BY DEF TypeOK
  <2>2. [taken |-> TRUE, traced |-> traced, masks |-> masking]
          \in [taken : BOOLEAN, traced : BOOLEAN, masks : BOOLEAN]
    BY <1>1
  <2>3. logger' = [logger EXCEPT ![h] = [taken |-> TRUE, traced |-> traced, masks |-> masking]]
    BY DEF Ctx
  <2> QED BY <2>1, <2>2, <2>3
<1>3. TypeOK'
  BY <1>2 DEF TypeOK, Ctx, settings, rotations, entries
<1>4. SettingsInv'
  <2>1. RotationInv'
    BY RotationSame DEF SettingsInv, Ctx, settings
  <2> QED BY <2>1 DEF SettingsInv, Ctx, settings, rotations, entries
<1> QED BY <1>3, <1>4 DEF Ctx

LEMMA LogStarts == LogInit => TypeOK /\ SettingsInv /\ NumbersInv
<1> SUFFICES ASSUME LogInit PROVE TypeOK /\ SettingsInv /\ NumbersInv
  OBVIOUS
<1>1. /\ Default \in LogConfigs /\ Unset \in Settings /\ Default.async = FALSE
      /\ [h \in Holders |-> NoLogger] \in
           [Holders -> [taken : BOOLEAN, traced : BOOLEAN, masks : BOOLEAN]]
  <2>1. "info" \in LevelNames
    BY DEF LevelNames, LevelOf
  <2> QED BY <2>1 DEF Default, LogConfigs, Settings, Unset, NoLogger
<1>2. DOMAIN levelFiles = {}
  BY DEF LogInit
<1>3. /\ <<>> \in Seq(Entry) /\ Len(<<>>) = 0 /\ <<>> \o <<>> = <<>> /\ DOMAIN <<>> = {}
      /\ BufferSize \in Nat /\ MaxEntries \in Nat
  <2>1. <<>> \in Seq(Entry)
    OBVIOUS
  <2>2. <<>> \o <<>> = <<>>
    BY <2>1, ConcatEmptySeq
  <2>3. Len(<<>>) = 0 /\ DOMAIN <<>> = {}
    OBVIOUS
  <2>4. BufferSize \in Nat /\ MaxEntries \in Nat
    BY Zenon, LoggingAssumption
  <2> QED BY <2>1, <2>2, <2>3, <2>4
<1>4. TypeOK
  <2>1. /\ started \in BOOLEAN /\ masking \in BOOLEAN /\ atomicLevel \in Levels
        /\ logConfig \in LogConfigs /\ mainFile \in Settings
    <3>1. LevelOf.info \in Levels
      BY DEF LevelOf, Levels
    <3> QED BY Zenon, <1>1, <3>1 DEF LogInit
  <2>2. logger \in [Holders -> [taken : BOOLEAN, traced : BOOLEAN, masks : BOOLEAN]]
    BY <1>1 DEF LogInit
  <2>3. app \in Seq(Entry) /\ buffer \in Seq(Entry) /\ Len(buffer) <= BufferSize
    BY <1>3 DEF LogInit
  <2>4. written \in [AllFiles -> Seq(Entry)] /\ logged \in 0 .. MaxEntries
    BY <1>3 DEF LogInit
  <2>5. DOMAIN levelFiles \subseteq DOMAIN logConfig.files
        /\ \A f \in DOMAIN levelFiles : levelFiles[f] \in Settings
    BY <1>2
  <2>6. changing \in [Writers -> [to : Settings, left : SUBSET Statements]]
        /\ overlapped \subseteq Params
    BY <1>1 DEF LogInit, NoChange
  <2> QED BY <2>1, <2>2, <2>3, <2>4, <2>5, <2>6 DEF TypeOK
<1>5. SettingsInv
  <2>1. NoneChanges
    BY DEF LogInit, NoneChanges, NoChange
  <2>2. RotationInv
    BY <2>1 DEF LogInit, RotationInv, ParameterInv, NoneChanges
  <2> QED BY <1>1, <1>2, <2>2 DEF LogInit, SettingsInv, NoLogger
<1>6. NumbersInv
  <2>1. Ordered(<<>>) /\ UpTo(<<>>, 0)
    BY <1>3 DEF Ordered, UpTo
  <2> QED BY <1>3, <2>1 DEF LogInit, NumbersInv
<1> QED BY <1>4, <1>5, <1>6

LEMMA LogNextKeeps ==
  ASSUME TypeOK, SettingsInv, NumbersInv, [LogNext]_vars
  PROVE  TypeOK' /\ SettingsInv' /\ NumbersInv'
<1>1. ASSUME TypeOK', SettingsInv', UNCHANGED entries
      PROVE  TypeOK' /\ SettingsInv' /\ NumbersInv'
  BY <1>1, Zenon DEF entries, NumbersInv, AllFiles
<1>2. CASE \/ \E conf \in Confs : Build(conf)
           \/ \E name \in Names : UpdateLogLevel(name)
           \/ \E w \in Writers :
                \/ \E conf \in Confs : Reinit(w, conf)
                \/ \E r \in [Params -> Values \cup {0}] : UpdateLogRotation(w, r)
                \/ \E p \in Params, v \in Values : UpdateOne(w, p, v)
                \/ RunStatement(w)
           \/ \E on \in Masks : UpdateSensitiveConfig(on)
           \/ UNCHANGED vars
  <2>1. \A r \in [Params -> Values \cup {0}] : r \in Settings
    <3>1. Values \cup {0} \subseteq Nat
      <4>1. Values \subseteq Nat \ {0}
        BY Zenon, LoggingAssumption
      <4> QED BY <4>1
    <3> QED BY <3>1 DEF Settings
  <2> QED BY <1>1, <1>2, <2>1, SettingsStep
<1>3. CASE \E h \in Holders, traced \in Traces : Ctx(h, traced)
  BY <1>1, <1>3, CtxKeeps
<1>4. CASE \E h \in Holders, level \in Levels : Log(h, level)
  BY <1>4, LogStep
<1>5. CASE Flush \/ Restart
  BY <1>5, FlushStep, RestartStep
<1> QED BY <1>2, <1>3, <1>4, <1>5 DEF LogNext

-----------------------------------------------------------------------------
(* What a plain logger writes to a level file passes its level, in every     *)
(* configuration that names the file.                                        *)
LEMMA LogFilters ==
  ASSUME FilesKeepLevels, TypeOK, SettingsInv, LevelsInv,
         NEW h \in Holders, NEW level \in Levels, Log(h, level)
  PROVE  LevelsInv'
<1> DEFINE e == [level |-> level, wrapped |-> IsWrapped(h), number |-> logged + 1]
           to == Targets(h, level)
<1> SUFFICES ASSUME NEW c \in Confs, NEW f \in DOMAIN c.files, c.files[f].level # "",
                    NEW i \in DOMAIN written'[f], ~written'[f][i].wrapped
             PROVE  written'[f][i].level >= parseLogLevel(c.files[f].level)
  BY DEF LevelsInv
<1>1. f \in AllFiles /\ f # "app"
  <2>1. DOMAIN c.files \cap Places = {}
    BY Zenon, LoggingAssumption
  <2> QED BY <2>1 DEF AllFiles, Places
<1>2. written'[f] = IF f \in to THEN Append(written[f], e) ELSE written[f]
  BY <1>1 DEF Log
<1>3. written[f] \in Seq(Entry)
  <2>1. written \in [AllFiles -> Seq(Entry)]
    BY Zenon DEF TypeOK
  <2> QED BY <1>1, <2>1
<1>4. logged < MaxEntries
  BY DEF Log
<1>5. e \in Entry /\ e.level = level /\ e.wrapped = IsWrapped(h)
  BY <1>4, LoggedEntry
<1> HIDE DEF e
<1>6. CASE written'[f] = written[f]
  <2>1. i \in DOMAIN written[f] /\ ~written[f][i].wrapped
    BY <1>6
  <2>2. written[f][i].level >= parseLogLevel(c.files[f].level)
    BY <2>1 DEF LevelsInv
  <2> QED BY <1>6, <2>2
<1>7. CASE f \in to /\ written'[f] = Append(written[f], e)
  <2>1. /\ i \in DOMAIN written[f] /\ written'[f][i] = written[f][i]
        \/ written'[f][i] = e
    BY Zenon, <1>3, <1>5, <1>7, AppendAt
  <2>2. CASE i \in DOMAIN written[f] /\ written'[f][i] = written[f][i]
    <3>1. ~written[f][i].wrapped
      BY <2>2
    <3>2. written[f][i].level >= parseLogLevel(c.files[f].level)
      BY <2>2, <3>1 DEF LevelsInv
    <3> QED BY <2>2, <3>2
  <2>3. CASE written'[f][i] = e
    <3>1. ~IsWrapped(h)
      BY <1>5, <2>3
    <3>2. f \in DOMAIN levelFiles /\ level >= parseLogLevel(logConfig.files[f].level)
      BY <1>1, <1>7, <3>1 DEF Targets, Plain, Passes, Threshold
    <3>3. f \in DOMAIN logConfig.files
          /\ logConfig.files \in {d.files : d \in Confs} \cup {<<>>}
      <4>1. DOMAIN levelFiles \subseteq DOMAIN logConfig.files /\ logConfig \in LogConfigs
        BY Zenon DEF TypeOK
      <4> QED BY <3>2, <4>1 DEF LogConfigs
    <3>4. PICK d \in Confs : logConfig.files = d.files
      BY Zenon, <3>3, NoFiles
    <3>5. d.files[f].level = c.files[f].level
      BY <3>3, <3>4 DEF FilesKeepLevels
    <3>6. level >= parseLogLevel(c.files[f].level)
      BY <3>2, <3>4, <3>5
    <3> QED BY <1>5, <2>3, <3>6
  <2> QED BY <2>1, <2>2, <2>3
<1> QED BY <1>2, <1>6, <1>7

LEMMA LogNextFilters ==
  ASSUME FilesKeepLevels, TypeOK, SettingsInv, LevelsInv, [LogNext]_vars
  PROVE  LevelsInv'
<1>1. CASE \E h \in Holders, level \in Levels : Log(h, level)
  BY <1>1, LogFilters
<1>2. CASE written' = written
  BY <1>2 DEF LevelsInv
<1>3. (\E h \in Holders, level \in Levels : Log(h, level)) \/ written' = written
  BY DEF LogNext, Build, Reinit, UpdateLogLevel, UpdateLogRotation, UpdateOne, RunStatement,
         UpdateSensitiveConfig, Ctx, Flush, Restart, vars, entries
<1> QED BY <1>1, <1>2, <1>3

(* The buffer, restarts and changes of the settings leave every log in the   *)
(* order of its entries, for any bound on them; and as long as no restart    *)
(* gives a level file another level, what a plain logger wrote to it passes. *)
THEOREM FilesAreKept ==
  ASSUME FilesKeepLevels
  PROVE  LogSpec => []EntriesKept
<1> DEFINE IInv == TypeOK /\ SettingsInv /\ NumbersInv /\ LevelsInv
<1>1. LogInit => IInv
  <2> SUFFICES ASSUME LogInit PROVE IInv
    OBVIOUS
  <2>1. \A f \in AllFiles : DOMAIN written[f] = {}
    BY DEF LogInit
  <2>2. LevelsInv
    BY <2>1 DEF LevelsInv, AllFiles
  <2> QED BY <2>2, LogStarts
<1>2. IInv /\ [LogNext]_vars => IInv'
  <2> SUFFICES ASSUME IInv, [LogNext]_vars PROVE IInv'
    OBVIOUS
  <2> QED BY Zenon, LogNextKeeps, LogNextFilters
<1>3. IInv => EntriesKept
  <2> SUFFICES ASSUME IInv PROVE EntriesKept
    OBVIOUS
  <2>1. EntriesInOrder
    BY DEF NumbersInv, Ordered, EntriesInOrder
  <2>2. PlainEntriesFiltered
    <3> SUFFICES ASSUME NEW f \in DOMAIN levelFiles, NEW i \in DOMAIN written[f],
                        ~written[f][i].wrapped
                 PROVE  Passes(f, written[f][i].level)
      BY DEF PlainEntriesFiltered
    <3>1. f \in DOMAIN logConfig.files /\ logConfig.files \in {c.files : c \in Confs} \cup {<<>>}
      <4>1. DOMAIN levelFiles \subseteq DOMAIN logConfig.files /\ logConfig \in LogConfigs
        BY Zenon DEF TypeOK
      <4> QED BY <4>1 DEF LogConfigs
    <3>2. PICK c \in Confs : logConfig.files = c.files
      BY <3>1
    <3>3. c.files[f].level # ""
      BY <3>2 DEF SettingsInv
    <3> QED BY <3>1, <3>2, <3>3 DEF LevelsInv, Passes, Threshold
  <2> QED BY <2>1, <2>2 DEF EntriesKept
<1> QED BY <1>1, <1>2, <1>3, PTL DEF LogSpec

-----------------------------------------------------------------------------
(* ConfigCenter                                                            *)

(* A merge runs from the first field to the last of the rotation's           *)
(* statements.                                                               *)
Merging(t) == \/ run[t].pc \in {"merge", "level", "setLevel", "rotation", "setRotation"}
              \/ changing[t].left # {}

(* InitConfig is done before there are listeners, the logger is there before *)
(* it begins, and the rotation is changed before the callback.               *)
PhasesInv ==
  /\ \A w \in Writers : changing[w].left # {} => w \in Threads /\ run[w].pc = "callback"
  /\ ~listening => \A t \in Threads : t # Main => run[t].pc = "idle"
  /\ listening => run[Main].pc = "idle"
  /\ ~started => ~listening /\ run[Main].pc = "before"

OneMerges == alone => \A t, u \in Threads : Merging(t) /\ Merging(u) => t = u

LevelAgrees == config["Level"] # "" => atomicLevel = parseLogLevel(config["Level"])
RotationAgrees == \A p \in Params : config[p] > 0 => mainFile[p] = config[p]

(* An update that is alone brings the level, then the rotation, from the     *)
(* struct, which it has changed before, to the logger.                       *)
AgreementInv ==
  started /\ alone =>
    /\ (\A t \in Threads : ~Merging(t)) => LevelAgrees /\ RotationAgrees
    /\ \A t \in Threads :
         /\ run[t].pc = "setLevel" => run[t].level = config["Level"]
         /\ run[t].pc \in {"rotation", "setRotation"} => LevelAgrees
         /\ run[t].pc = "setRotation" => run[t].rotation = Rotation(config)
         /\ changing[t].left # {} =>
              /\ LevelAgrees /\ changing[t].to = Rotation(config)
              /\ \A p \in Params : \/ <<"app", p>> \in changing[t].left
                                   \/ config[p] > 0 => mainFile[p] = config[p]

\* The struct has what the content last told gives this field.
HasLatest(f) ==
  f \in DOMAIN seen.fields /\ Unmarshal(seen, f) # Zero(f) => config[f] = Unmarshal(seen, f)

(* ... and it merges the content that was last told, if that one parses.     *)
LatestInv ==
  alone /\ seen.kind = "yaml" =>
    /\ \A t \in Threads : Merging(t) => run[t].new = seen
    /\ \A t \in Threads : run[t].pc = "merge" =>
         \A i \in DOMAIN FieldOrder : i < run[t].at => HasLatest(FieldOrder[i])
    /\ (\A t \in Threads : run[t].pc # "merge") => \A f \in Fields : HasLatest(f)

(* What is still to be given to a field is what it may have; and when        *)
(* nothing is, it has what it may have.                                      *)
GivenInv ==
  \A f \in Fields : /\ Coming(f) \subseteq given[f]
                    /\ Coming(f) = {} => config[f] \in given[f]

-----------------------------------------------------------------------------
LEMMA FieldsConcat ==
  ASSUME NEW s \in Seq(Fields), NEW t \in Seq(Fields)
  PROVE  s \o t \in Seq(Fields) /\ Range(s \o t) = Range(s) \cup Range(t)
BY RangeConcatenation, ConcatProperties

(* The fields of the struct, one after the other.                            *)
LEMMA OrderOfFields ==
  /\ FieldOrder \in Seq(Fields)
  /\ Len(FieldOrder) \in Nat \ {0} /\ DOMAIN FieldOrder = 1 .. Len(FieldOrder)
  /\ \A f \in Fields : \E i \in DOMAIN FieldOrder : FieldOrder[i] = f
<1> DEFINE a == <<"Level">>  z == <<"Request">>
           m1 == Only("MaxSize")  m2 == Only("MaxBackups")  m3 == Only("MaxAge")
<1>1. /\ a \in Seq(Fields) /\ z \in Seq(Fields) /\ Range(a) = {"Level"} /\ Range(z) = {"Request"}
  BY DEF Fields, Range
<1>2. \A p : Only(p) \in Seq(Fields) /\ Range(Only(p)) = {p} \cap Params
  <2> TAKE p
  <2>1. CASE p \in Params
    BY <2>1 DEF Only, Fields, Range
  <2>2. CASE p \notin Params
    BY <2>2 DEF Only, Fields, Range
  <2> QED BY <2>1, <2>2
<1> HIDE DEF a, z
<1>3. a \o m1 \in Seq(Fields) /\ Range(a \o m1) = Range(a) \cup Range(m1)
  BY <1>1, <1>2, FieldsConcat, Zenon
<1>4. (a \o m1) \o m2 \in Seq(Fields) /\ Range((a \o m1) \o m2) = Range(a \o m1) \cup Range(m2)
  BY <1>2, <1>3, FieldsConcat, Zenon
<1>5. ((a \o m1) \o m2) \o m3 \in Seq(Fields)
      /\ Range(((a \o m1) \o m2) \o m3) = Range((a \o m1) \o m2) \cup Range(m3)
  BY <1>2, <1>4, FieldsConcat, Zenon
<1>6. (((a \o m1) \o m2) \o m3) \o z \in Seq(Fields)
      /\ Range((((a \o m1) \o m2) \o m3) \o z) = Range(((a \o m1) \o m2) \o m3) \cup Range(z)
  BY <1>1, <1>5, FieldsConcat, Zenon
<1>7. FieldOrder = (((a \o m1) \o m2) \o m3) \o z
  BY Zenon DEF FieldOrder, a, z
<1>8. Params \subseteq {"MaxSize", "MaxBackups", "MaxAge"}
  BY Zenon, LoggingAssumption
<1>9. Range(FieldOrder) = Fields
  <2>1. Range(FieldOrder) = Range(a) \cup Range(m1) \cup Range(m2) \cup Range(m3) \cup Range(z)
    BY <1>3, <1>4, <1>5, <1>6, <1>7
  <2>2. /\ Range(m1) = {"MaxSize"} \cap Params /\ Range(m2) = {"MaxBackups"} \cap Params
        /\ Range(m3) = {"MaxAge"} \cap Params
    BY <1>2
  <2> HIDE DEF m1, m2, m3
  <2> QED BY <1>1, <1>8, <2>1, <2>2 DEF Fields
<1>10. FieldOrder \in Seq(Fields)
  BY <1>6, <1>7
<1>11. Len(FieldOrder) \in Nat /\ DOMAIN FieldOrder = 1 .. Len(FieldOrder)
  BY <1>10, LenProperties
<1>12. \A f \in Fields : \E i \in DOMAIN FieldOrder : FieldOrder[i] = f
  BY <1>9 DEF Range
<1>13. Len(FieldOrder) # 0
  <2>1. "Level" \in Fields
    BY DEF Fields
  <2> QED BY <1>11, <1>12, <2>1
<1> QED BY <1>10, <1>11, <1>12, <1>13

\* The value of a field.
IsValue(f, value) ==
  IF f = "Level" THEN value \in LevelNames
  ELSE IF f \in Params THEN value \in Nat
  ELSE value \in [Subfields -> {0, 1}]

LEMMA UnmarshalValue ==
  ASSUME NEW c \in Contents \cup {Nothing}, NEW f \in Fields
  PROVE  IsValue(f, Unmarshal(c, f))
<1>1. Params \subseteq {"MaxSize", "MaxBackups", "MaxAge"}
  BY Zenon, LoggingAssumption
<1>2. "" \in LevelNames
  BY DEF LevelNames
<1>3. CASE f \notin DOMAIN c.fields
  BY <1>1, <1>2, <1>3 DEF IsValue, Unmarshal, Zero, Fields
<1>4. CASE f \in DOMAIN c.fields
  <2>1. DOMAIN Nothing.fields = {}
    BY DEF Nothing
  <2>2. c \in Contents
    BY <1>4, <2>1
  <2>3. IF f = "Level" THEN c.fields[f] \in LevelNames
        ELSE IF f \in Params THEN c.fields[f] \in Nat
        ELSE \A s \in DOMAIN c.fields[f] : c.fields[f][s] \in {0, 1}
    BY Zenon, <1>4, <2>2, CenterAssumption
  <2>4. CASE f # "Request"
    BY <1>1, <1>4, <2>3, <2>4 DEF IsValue, Unmarshal, Fields
  <2>5. CASE f = "Request"
    BY <1>1, <1>4, <2>3, <2>5 DEF IsValue, Unmarshal
  <2> QED BY <2>4, <2>5
<1> QED BY <1>3, <1>4

\* The struct has a value for every field.
IsConfig(struct) == DOMAIN struct = Fields /\ \A f \in Fields : IsValue(f, struct[f])

LEMMA ConfigValues ==
  ASSUME NEW struct
  PROVE  /\ DOMAIN struct = Fields /\ struct["Level"] \in LevelNames
         /\ Rotation(struct) \in Settings /\ struct["Request"] \in [Subfields -> {0, 1}]
         <=> IsConfig(struct)
<1>1. Params \subseteq {"MaxSize", "MaxBackups", "MaxAge"}
  BY Zenon, LoggingAssumption
<1>2. Rotation(struct) \in Settings <=> \A p \in Params : struct[p] \in Nat
  BY DEF Rotation, Settings
<1> QED BY <1>1, <1>2 DEF IsConfig, IsValue, Fields

LEMMA LocalValues ==
  /\ DOMAIN Local = Fields /\ Local["Level"] \in LevelNames
  /\ Rotation(Local) \in Settings /\ Local["Request"] \in [Subfields -> {0, 1}]
<1>1. /\ DOMAIN Local = Fields /\ Local["Level"] \in LevelNames
      /\ Local["Request"] \in [Subfields -> {0, 1}] /\ \A p \in Params : Local[p] \in Nat
  BY Zenon, CenterAssumption
<1> QED BY <1>1 DEF Rotation, Settings

(* Merging a field changes that field at most, and to what the content has.  *)
LEMMA MergesField ==
  ASSUME IsConfig(config), NEW c \in Contents \cup {Nothing}, NEW f \in Fields,
         MergeField(f, Unmarshal(c, f))
  PROVE  /\ IsConfig(config')
         /\ \A g \in Fields : g # f => config'[g] = config[g]
         /\ f \notin DOMAIN c.fields => config' = config
         /\ Unmarshal(c, f) # Zero(f) => config'[f] = Unmarshal(c, f)
<1>1. IsValue(f, Unmarshal(c, f))
  BY UnmarshalValue
<1>2. CASE Unmarshal(c, f) = Zero(f)
  BY <1>2 DEF MergeField, IsConfig
<1>3. CASE Unmarshal(c, f) # Zero(f)
  <2> DEFINE value == Unmarshal(c, f)
  <2>1. config' = [config EXCEPT ![f] = value]
    BY <1>3 DEF MergeField
  <2>2. f \in DOMAIN c.fields
    BY <1>3 DEF Unmarshal
  <2> HIDE DEF value
  <2>3. DOMAIN config' = Fields /\ config'[f] = value
        /\ \A g \in Fields : g # f => config'[g] = config[g]
    BY <2>1 DEF IsConfig
  <2>4. IsConfig(config')
    <3>1. IsValue(f, value)
      BY <1>1 DEF value
    <3>2. \A g \in Fields : IsValue(g, config'[g])
      BY <2>3, <3>1 DEF IsConfig
    <3> QED BY <2>3, <3>2 DEF IsConfig
  <2> QED BY <2>2, <2>3, <2>4 DEF value
<1> QED BY <1>2, <1>3

-----------------------------------------------------------------------------
Stages == {"before", "idle", "get", "merge", "level", "setLevel", "rotation",
           "setRotation", "callback", "listen"}

LEMMA NewRuns ==
  ASSUME NEW pc \in Stages, NEW c \in Contents \cup {Nothing}
  PROVE  [NotRunning(pc) EXCEPT !.new = c] \in Runs /\ NotRunning(pc) \in Runs
<1>1. 1 \in DOMAIN FieldOrder /\ "" \in LevelNames /\ Unset \in Settings
  BY OrderOfFields DEF LevelNames, Unset, Settings
<1> QED BY <1>1 DEF NotRunning, Runs, Stages

LEMMA StartsUpdate ==
  ASSUME run \in [Threads -> Runs], NEW t \in Threads, NEW c \in Contents \cup {Nothing},
         StartUpdate(t, c)
  PROVE  /\ run' \in [Threads -> Runs]
         /\ \A u \in Threads : u # t => run'[u] = run[u]
         /\ run'[t].pc = IF c.kind = "yaml" THEN "merge" ELSE "callback"
         /\ run'[t].new = c /\ run'[t].at = 1
<1> DEFINE new == [NotRunning(IF c.kind = "yaml" THEN "merge" ELSE "callback") EXCEPT !.new = c]
<1>1. new \in Runs
  BY NewRuns DEF Stages
<1>2. new.pc = (IF c.kind = "yaml" THEN "merge" ELSE "callback") /\ new.new = c /\ new.at = 1
  BY DEF NotRunning
<1>3. run' = [run EXCEPT ![t] = new]
  BY DEF StartUpdate
<1> HIDE DEF new
<1> QED BY <1>1, <1>2, <1>3

LEMMA Goes ==
  ASSUME run \in [Threads -> Runs], NEW t \in Threads, NEW pc \in Stages, Goto(t, pc)
  PROVE  /\ run' \in [Threads -> Runs]
         /\ \A u \in Threads : u # t => run'[u] = run[u]
         /\ run'[t].pc = pc /\ run'[t].new = run[t].new
BY DEF Goto, Runs, Stages

(* The step from field to field.                                             *)
LEMMA NextFields ==
  ASSUME run \in [Threads -> Runs], NEW t \in Threads, run' = NextField(t), run[t].pc = "merge"
  PROVE  /\ run' \in [Threads -> Runs]
         /\ \A u \in Threads : u # t => run'[u] = run[u]
         /\ run'[t].new = run[t].new
         /\ \/ run'[t].pc = "merge" /\ run'[t].at = run[t].at + 1
            \/ run'[t].pc = "level" /\ run[t].at = Len(FieldOrder)
<1>1. run[t] \in Runs /\ run[t].at \in DOMAIN FieldOrder
  BY DEF Runs
<1>2. run[t].at \in Nat /\ run[t].at <= Len(FieldOrder) /\ Len(FieldOrder) \in Nat
  BY <1>1, OrderOfFields
<1>3. CASE run[t].at < Len(FieldOrder)
  <2>1. run[t].at + 1 \in DOMAIN FieldOrder
    BY <1>2, <1>3, OrderOfFields
  <2>2. run' = [run EXCEPT ![t].at = run[t].at + 1]
    BY <1>3 DEF NextField
  <2> DEFINE new == [run[t] EXCEPT !.at = run[t].at + 1]
  <2>3. new \in Runs /\ new.at = run[t].at + 1 /\ new.pc = run[t].pc /\ new.new = run[t].new
    BY <1>1, <2>1 DEF Runs
  <2>4. run' = [run EXCEPT ![t] = new]
    BY <2>2
  <2> HIDE DEF new
  <2> QED BY <2>3, <2>4
<1>4. CASE ~(run[t].at < Len(FieldOrder))
  <2>1. run' = [run EXCEPT ![t].pc = "level"] /\ run[t].at = Len(FieldOrder)
    BY <1>2, <1>4 DEF NextField
  <2> DEFINE new == [run[t] EXCEPT !.pc = "level"]
  <2>2. new \in Runs /\ new.pc = "level" /\ new.new = run[t].new
    BY <1>1 DEF Runs
  <2>3. run' = [run EXCEPT ![t] = new]
    BY <2>1
  <2> HIDE DEF new
  <2> QED BY <2>1, <2>2, <2>3
<1> QED BY <1>3, <1>4

LEMMA CenterTyped ==
  ASSUME TypeOK, SettingsInv, CenterTypeOK, [CenterNext]_<<center, vars>>
  PROVE  TypeOK' /\ SettingsInv' /\ CenterTypeOK'
<1>0. IsConfig(config) /\ run \in [Threads -> Runs] /\ Main \in Threads
      /\ content \in Contents \cup {Nothing} /\ seen \in Contents \cup {Nothing}
  BY ConfigValues DEF CenterTypeOK, Threads
<1>c. ASSUME IsConfig(config'), run' \in [Threads -> Runs],
             content' \in Contents \cup {Nothing}, seen' \in Contents \cup {Nothing},
             changes' \in 0 .. MaxChanges, listening' \in BOOLEAN, alone' \in BOOLEAN,
             DOMAIN given' = Fields
      PROVE  CenterTypeOK'
  <2>1. /\ DOMAIN config' = Fields /\ config'["Level"] \in LevelNames
        /\ Rotation(config') \in Settings /\ config'["Request"] \in [Subfields -> {0, 1}]
    BY <1>c, ConfigValues
  <2> QED BY <1>c, <2>1 DEF CenterTypeOK
<1>v. ASSUME UNCHANGED vars PROVE TypeOK' /\ SettingsInv'
  BY <1>v, SettingsStep
<1>w. Threads \subseteq Writers
  BY Zenon, CenterAssumption
<1>1. CASE StartLog
  <2> DEFINE conf == [level |-> config["Level"], rotation |-> Rotation(config),
                      async |-> FALSE, sensitive |-> FALSE, files |-> <<>>]
  <2>1. IsConf(conf) /\ conf.files = <<>>
    <3>1. DOMAIN <<>> = {}
      OBVIOUS
    <3> QED BY <3>1 DEF CenterTypeOK, IsConf
  <2>2. Build(conf) /\ UNCHANGED center
    BY <1>1 DEF StartLog
  <2> HIDE DEF conf
  <2>3. TypeOK' /\ SettingsInv'
    BY <2>1, <2>2, BuildKeeps
  <2> QED BY <2>2, <2>3 DEF CenterTypeOK, center, told
<1>2. CASE InitConfig
  <2>1. run' \in [Threads -> Runs]
    BY <1>0, <1>2, Goes DEF InitConfig, Stages
  <2> QED BY <1>c, <1>v, <1>0, <1>2, <2>1 DEF InitConfig, told, CenterTypeOK
<1>3. CASE GetConfig
  <2>1. run' \in [Threads -> Runs]
    BY <1>0, <1>3, Goes, StartsUpdate DEF GetConfig, Stages
  <2>2. seen' \in Contents \cup {Nothing}
    BY <1>0, <1>3 DEF GetConfig
  <2>3. DOMAIN given' = Fields
    BY <1>3 DEF GetConfig, Give, CenterTypeOK
  <2> QED BY <1>c, <1>v, <1>0, <1>3, <2>1, <2>2, <2>3 DEF GetConfig, CenterTypeOK
<1>4. CASE ListenConfig
  <2>1. run' \in [Threads -> Runs]
    BY <1>0, <1>4, Goes DEF ListenConfig, Stages
  <2> QED BY <1>c, <1>v, <1>0, <1>4, <2>1 DEF ListenConfig, told, CenterTypeOK
<1>5. ASSUME NEW c \in Contents \cup {Nothing}, Change(c)
      PROVE  TypeOK' /\ SettingsInv' /\ CenterTypeOK'
  <2>1. changes' \in 0 .. MaxChanges
    <3>1. changes \in 0 .. MaxChanges /\ MaxChanges \in Nat
      BY Zenon, CenterAssumption DEF CenterTypeOK
    <3> QED BY <1>5, <3>1 DEF Change
  <2> QED BY <1>c, <1>v, <1>0, <1>5, <2>1 DEF Change, told, CenterTypeOK
<1>6. ASSUME NEW t \in Threads, Merge(t) PROVE TypeOK' /\ SettingsInv' /\ CenterTypeOK'
  <2>1. run[t] \in Runs /\ FieldOrder[run[t].at] \in Fields
    <3>1. run[t] \in Runs
      BY <1>0
    <3>2. run[t].at \in DOMAIN FieldOrder
      BY <3>1 DEF Runs
    <3> QED BY <3>1, <3>2, OrderOfFields
  <2>2. IsConfig(config')
    BY <1>0, <1>6, <2>1, MergesField DEF Merge, Runs
  <2>3. run' \in [Threads -> Runs]
    BY <1>0, <1>6, NextFields DEF Merge, At
  <2> QED BY <1>c, <1>v, <1>0, <1>6, <2>2, <2>3 DEF Merge, told, CenterTypeOK
<1>7. ASSUME NEW t \in Threads, ReadLevel(t) PROVE TypeOK' /\ SettingsInv' /\ CenterTypeOK'
  <2>1. run' \in [Threads -> Runs]
    <3> DEFINE to == IF config["Level"] # "" THEN "setLevel" ELSE "rotation"
               new == [run[t] EXCEPT !.level = config["Level"], !.pc = to]
    <3>1. to \in Stages
      BY DEF Stages
    <3>2. run' = [run EXCEPT ![t] = new]
      BY <1>7 DEF ReadLevel
    <3> HIDE DEF to
    <3>3. new \in Runs
      BY <1>0, <3>1 DEF Runs, CenterTypeOK, Stages
    <3> HIDE DEF new
    <3> QED BY <1>0, <3>2, <3>3
  <2> QED BY <1>c, <1>v, <1>0, <1>7, <2>1 DEF ReadLevel, told, CenterTypeOK
<1>8. ASSUME NEW t \in Threads, ApplyLevel(t) PROVE TypeOK' /\ SettingsInv' /\ CenterTypeOK'
  <2>1. run' \in [Threads -> Runs]
    BY <1>0, <1>8, Goes DEF ApplyLevel, Stages
  <2>2. TypeOK' /\ SettingsInv'
    BY <1>8, SettingsStep DEF ApplyLevel
  <2> QED BY <1>c, <1>0, <1>8, <2>1, <2>2 DEF ApplyLevel, told, CenterTypeOK
<1>9. ASSUME NEW t \in Threads, ReadRotation(t) PROVE TypeOK' /\ SettingsInv' /\ CenterTypeOK'
  <2>0. Rotation(config) \in Settings
    BY DEF CenterTypeOK
  <2>1. run' \in [Threads -> Runs]
    BY <1>0, <1>9, <2>0 DEF ReadRotation, Runs
  <2> QED BY <1>c, <1>v, <1>0, <1>9, <2>1 DEF ReadRotation, told, CenterTypeOK
<1>10. ASSUME NEW t \in Threads, ApplyRotation(t) PROVE TypeOK' /\ SettingsInv' /\ CenterTypeOK'
  <2>1. run' \in [Threads -> Runs]
    BY <1>0, <1>10, Goes DEF ApplyRotation, Stages
  <2>2. run[t].rotation \in Settings
    BY <1>0 DEF Runs
  <2>3. TypeOK' /\ SettingsInv'
    BY <1>w, <1>10, <2>2, SettingsStep DEF ApplyRotation
  <2> QED BY <1>c, <1>0, <1>10, <2>1, <2>3 DEF ApplyRotation, told, CenterTypeOK
<1>11. ASSUME NEW t \in Threads, Callback(t) PROVE TypeOK' /\ SettingsInv' /\ CenterTypeOK'
  <2>1. run' \in [Threads -> Runs]
    <3>1. (IF t = Main THEN "listen" ELSE "idle") \in Stages
      BY DEF Stages
    <3> QED BY <1>0, <1>11, <3>1, Goes DEF Callback
  <2> QED BY <1>c, <1>v, <1>0, <1>11, <2>1 DEF Callback, told, CenterTypeOK
<1>12. ASSUME NEW t \in Threads, OnChange(t) PROVE TypeOK' /\ SettingsInv' /\ CenterTypeOK'
  <2>1. run' \in [Threads -> Runs]
    BY <1>0, <1>12, StartsUpdate DEF OnChange
  <2>2. Quiet \in BOOLEAN
    BY Zenon DEF Quiet
  <2>3. alone' \in BOOLEAN
    BY <1>12, <2>2 DEF OnChange, CenterTypeOK
  <2>4. DOMAIN given' = Fields
    BY <1>12 DEF OnChange, Give
  <2> QED BY <1>c, <1>v, <1>0, <1>12, <2>1, <2>3, <2>4 DEF OnChange, CenterTypeOK
<1>13. ASSUME NEW t \in Threads, SetNext(t) PROVE TypeOK' /\ SettingsInv' /\ CenterTypeOK'
  <2>1. TypeOK' /\ SettingsInv'
    BY <1>w, <1>13, SettingsStep DEF SetNext
  <2> QED BY <1>13, <2>1 DEF SetNext, CenterTypeOK, center, told
<1>14. CASE UNCHANGED <<center, vars>>
  BY <1>v, <1>14 DEF CenterTypeOK, center, told
<1> QED
  BY <1>1, <1>2, <1>3, <1>4, <1>5, <1>6, <1>7, <1>8, <1>9, <1>10, <1>11, <1>12, <1>13, <1>14
     DEF CenterNext, Step, UpdateStep

-----------------------------------------------------------------------------
(* An update that has merged its content goes on.                            *)
LEMMA UpdateGoesOn ==
  ASSUME PhasesInv, OneMerges, LatestInv, Main \in Threads, Threads \subseteq Writers,
         NEW t \in Threads, Merging(t), run[t].pc # "merge",
         \A u \in Threads : u # t => run'[u] = run[u],
         \A w \in Writers : w # t => changing'[w] = changing[w],
         run'[t].pc \in {"setLevel", "rotation", "setRotation", "callback"},
         changing'[t].left # {} => run'[t].pc = "callback",
         run'[t].new = run[t].new,
         UNCHANGED <<config, seen, alone, listening, started>>
  PROVE  /\ PhasesInv' /\ OneMerges' /\ LatestInv' /\ started
         /\ alone => \A u \in Threads : u # t => ~Merging(u) /\ ~Merging(u)'
<1>1. PhasesInv' /\ started
  BY DEF PhasesInv, Merging
<1>2. \A u \in Threads : Merging(u)' => Merging(u)
  BY DEF Merging
<1>3. OneMerges'
  BY <1>2 DEF OneMerges
<1>4. LatestInv'
  <2>1. \A u \in Threads : run'[u].pc = "merge" <=> run[u].pc = "merge"
    OBVIOUS
  <2>2. \A u \in Threads : run[u].pc = "merge" => run'[u] = run[u]
    OBVIOUS
  <2>3. \A f : HasLatest(f)' <=> HasLatest(f)
    BY DEF HasLatest, Unmarshal
  <2>4. \A u \in Threads : Merging(u)' => run'[u].new = run[u].new
    OBVIOUS
  <2> QED BY <1>2, <2>1, <2>2, <2>3, <2>4 DEF LatestInv
<1>5. alone => \A u \in Threads : u # t => ~Merging(u) /\ ~Merging(u)'
  BY <1>2 DEF OneMerges
<1> QED BY <1>1, <1>3, <1>4, <1>5

LEMMA AppliesSettings ==
  ASSUME TypeOK, CenterTypeOK, PhasesInv, OneMerges, LatestInv, AgreementInv, NEW t \in Threads,
         ReadLevel(t) \/ ApplyLevel(t) \/ ReadRotation(t)
  PROVE  PhasesInv' /\ OneMerges' /\ LatestInv' /\ AgreementInv'
<1>0. run \in [Threads -> Runs] /\ Main \in Threads /\ Threads \subseteq Writers
  BY CenterAssumption, Zenon DEF CenterTypeOK, Threads
<1>e. run[t].pc # "callback" => changing[t].left = {}
  BY <1>0 DEF PhasesInv
<1>1. CASE ReadLevel(t)
  <2>1. /\ \A u \in Threads : u # t => run'[u] = run[u]
        /\ run'[t].level = config["Level"] /\ run'[t].new = run[t].new
        /\ run'[t].pc = IF config["Level"] # "" THEN "setLevel" ELSE "rotation"
        /\ run[t].pc = "level"
        /\ UNCHANGED <<config, seen, alone, listening, started, atomicLevel, mainFile, changing>>
    BY <1>0, <1>1 DEF ReadLevel, Runs, At, vars, settings, rotations, told
  <2>2. Merging(t) /\ Merging(t)' /\ changing[t].left = {}
    BY <1>e, <2>1 DEF Merging
  <2>3. /\ PhasesInv' /\ OneMerges' /\ LatestInv' /\ started
        /\ alone => \A u \in Threads : u # t => ~Merging(u) /\ ~Merging(u)'
    BY <1>0, <2>1, <2>2, UpdateGoesOn
  <2>4. AgreementInv'
    BY <2>1, <2>2, <2>3 DEF AgreementInv, Merging, LevelAgrees
  <2> QED BY <2>3, <2>4
<1>2. CASE ApplyLevel(t)
  <2>1. /\ \A u \in Threads : u # t => run'[u] = run[u]
        /\ run'[t].pc = "rotation" /\ run'[t].new = run[t].new
        /\ run[t].pc = "setLevel" /\ atomicLevel' = parseLogLevel(run[t].level)
        /\ UNCHANGED <<config, seen, alone, listening, started, mainFile, changing>>
    BY <1>0, <1>2, Goes DEF ApplyLevel, UpdateLogLevel, SetLevel, Stages, At, rotations, told
  <2>2. Merging(t) /\ Merging(t)' /\ changing[t].left = {}
    BY <1>e, <2>1 DEF Merging
  <2>3. /\ PhasesInv' /\ OneMerges' /\ LatestInv' /\ started
        /\ alone => \A u \in Threads : u # t => ~Merging(u) /\ ~Merging(u)'
    BY <1>0, <2>1, <2>2, UpdateGoesOn
  <2>4. alone => LevelAgrees'
    BY <2>1, <2>3 DEF AgreementInv, LevelAgrees
  <2>5. AgreementInv'
    BY <2>1, <2>2, <2>3, <2>4 DEF AgreementInv, Merging
  <2> QED BY <2>3, <2>5
<1>3. CASE ReadRotation(t)
  <2>1. /\ \A u \in Threads : u # t => run'[u] = run[u]
        /\ run'[t].pc = "setRotation" /\ run'[t].new = run[t].new
        /\ run'[t].rotation = Rotation(config) /\ run[t].pc = "rotation"
        /\ UNCHANGED <<config, seen, alone, listening, started, atomicLevel, mainFile, changing>>
    BY <1>0, <1>3 DEF ReadRotation, Runs, At, vars, settings, rotations, told
  <2>2. Merging(t) /\ Merging(t)' /\ changing[t].left = {}
    BY <1>e, <2>1 DEF Merging
  <2>3. /\ PhasesInv' /\ OneMerges' /\ LatestInv' /\ started
        /\ alone => \A u \in Threads : u # t => ~Merging(u) /\ ~Merging(u)'
    BY <1>0, <2>1, <2>2, UpdateGoesOn
  <2>4. AgreementInv'
    BY <2>1, <2>2, <2>3 DEF AgreementInv, Merging, LevelAgrees, Rotation
  <2> QED BY <2>3, <2>4
<1> QED BY <1>1, <1>2, <1>3

(* The rotation is set statement by statement; those of an update that is    *)
(* alone leave what the struct has.                                          *)
LEMMA SetsRotation ==
  ASSUME TypeOK, CenterTypeOK, PhasesInv, OneMerges, LatestInv, AgreementInv, NEW t \in Threads,
         ApplyRotation(t) \/ SetNext(t)
  PROVE  PhasesInv' /\ OneMerges' /\ LatestInv' /\ AgreementInv'
<1>0. /\ run \in [Threads -> Runs] /\ Main \in Threads /\ Threads \subseteq Writers
      /\ changing \in [Writers -> [to : Settings, left : SUBSET Statements]]
      /\ mainFile \in Settings
  BY CenterAssumption, Zenon DEF CenterTypeOK, Threads, TypeOK
<1>1. CASE ApplyRotation(t)
  <2> DEFINE r == run[t].rotation
             positive == {p \in Params : r[p] > 0}
  <2>1. /\ \A u \in Threads : u # t => run'[u] = run[u]
        /\ run'[t].pc = "callback" /\ run'[t].new = run[t].new
        /\ run[t].pc = "setRotation"
        /\ Begin(t, r, Places \cup DOMAIN levelFiles)
        /\ UNCHANGED <<config, seen, alone, listening, started, atomicLevel>>
    BY <1>0, <1>1, Goes DEF ApplyRotation, UpdateLogRotation, SetRotation, Stages, At, told
  <2>2. /\ mainFile' = mainFile
        /\ changing[t].left = {}
        /\ changing' = IF positive = {} THEN changing
                       ELSE [changing EXCEPT ![t] = [to |-> r, left |->
                               (Places \cup DOMAIN levelFiles) \X positive]]
    BY <2>1 DEF Begin
  <2>3. \A w \in Writers : w # t => changing'[w] = changing[w]
    BY <1>0, <2>2
  <2>4. /\ changing'[t].left # {} => changing'[t].to = r
        /\ \A p \in Params : r[p] > 0 => <<"app", p>> \in changing'[t].left
    BY <1>0, <2>2 DEF Places
  <2>5. Merging(t)
    BY <2>1 DEF Merging
  <2>6. /\ PhasesInv' /\ OneMerges' /\ LatestInv' /\ started
        /\ alone => \A u \in Threads : u # t => ~Merging(u) /\ ~Merging(u)'
    BY <1>0, <2>1, <2>3, <2>5, UpdateGoesOn
  <2>7. alone => LevelAgrees' /\ r = Rotation(config) /\ config' = config
    BY <2>1, <2>6 DEF AgreementInv, LevelAgrees
  <2>8. alone => \A p \in Params : r[p] = config[p]
    BY <2>7 DEF Rotation
  <2> HIDE DEF r
  <2>9. alone /\ ~Merging(t)' => RotationAgrees'
    BY <2>4, <2>7, <2>8 DEF Merging, RotationAgrees
  <2>10. AgreementInv'
    <3> SUFFICES ASSUME started', alone'
                 PROVE  /\ (\A u \in Threads : ~Merging(u)') => LevelAgrees' /\ RotationAgrees'
                        /\ changing'[t].left # {} =>
                             /\ LevelAgrees' /\ changing'[t].to = Rotation(config')
                             /\ \A p \in Params : \/ <<"app", p>> \in changing'[t].left
                                                  \/ config'[p] > 0 => mainFile'[p] = config'[p]
      BY <2>1, <2>6 DEF AgreementInv, Merging
    <3> QED BY <2>1, <2>4, <2>7, <2>8, <2>9
  <2> QED BY <2>6, <2>10
<1>2. CASE SetNext(t)
  <2>1. /\ UNCHANGED <<run, config, seen, alone, listening, started, atomicLevel>>
        /\ RunStatement(t)
    BY <1>2 DEF SetNext, RunStatement, center, told
  <2>2. PICK s \in changing[t].left :
          /\ Assign(s, changing[t].to[s[2]])
          /\ changing' = [changing EXCEPT ![t] = Rest(changing[t], s)]
    BY <2>1 DEF RunStatement
  <2>s. s[2] \in Params /\ s = <<s[1], s[2]>>
    BY <1>0, <2>2 DEF Statements
  <2>3. /\ \A w \in Writers : w # t => changing'[w] = changing[w]
        /\ changing'[t].left = changing[t].left \ {s}
        /\ changing'[t].left # {} => changing'[t].to = changing[t].to
    BY <1>0, <2>2 DEF Rest, NoChange
  <2>4. /\ Merging(t) /\ run[t].pc = "callback"
    BY <1>0, <2>2 DEF Merging, PhasesInv
  <2>5. /\ PhasesInv' /\ OneMerges' /\ LatestInv' /\ started
        /\ alone => \A u \in Threads : u # t => ~Merging(u) /\ ~Merging(u)'
    BY <1>0, <2>1, <2>3, <2>4, UpdateGoesOn
  <2>6. alone => /\ LevelAgrees /\ changing[t].to = Rotation(config)
                 /\ \A p \in Params : \/ <<"app", p>> \in changing[t].left
                                      \/ config[p] > 0 => mainFile[p] = config[p]
    BY <2>2, <2>5 DEF AgreementInv
  <2>7. alone => \A p \in Params : \/ <<"app", p>> \in changing'[t].left
                                   \/ config'[p] > 0 => mainFile'[p] = config'[p]
    <3> SUFFICES ASSUME alone, NEW p \in Params, <<"app", p>> \notin changing'[t].left, config[p] > 0
                 PROVE  mainFile'[p] = config[p]
      BY <2>1
    <3>1. mainFile' = IF s[1] = "app" THEN [mainFile EXCEPT ![s[2]] = changing[t].to[s[2]]]
                      ELSE mainFile
      BY <2>2 DEF Assign
    <3>2. CASE s = <<"app", p>>
      BY <1>0, <2>6, <3>1, <3>2 DEF Rotation, Settings
    <3>3. CASE s # <<"app", p>>
      <4>1. mainFile[p] = config[p]
        BY <2>3, <2>6, <3>3
      <4>2. s[1] # "app" \/ s[2] # p
        BY <2>s, <3>3
      <4> QED BY <1>0, <2>s, <3>1, <4>1, <4>2 DEF Settings
    <3> QED BY <3>2, <3>3
  <2>8. AgreementInv'
    <3> SUFFICES ASSUME started', alone'
                 PROVE  /\ (\A u \in Threads : ~Merging(u)') => LevelAgrees' /\ RotationAgrees'
                        /\ changing'[t].left # {} =>
                             /\ LevelAgrees' /\ changing'[t].to = Rotation(config')
                             /\ \A p \in Params : \/ <<"app", p>> \in changing'[t].left
                                                  \/ config'[p] > 0 => mainFile'[p] = config'[p]
      BY <2>1, <2>4, <2>5 DEF AgreementInv, Merging
    <3> QED BY <2>1, <2>3, <2>6, <2>7 DEF Merging, RotationAgrees, LevelAgrees
  <2> QED BY <2>5, <2>8
<1> QED BY <1>1, <1>2

(* Merging goes through all of the fields.                                   *)
LEMMA MergesFields ==
  ASSUME CenterTypeOK, PhasesInv, OneMerges, LatestInv, AgreementInv, NEW t \in Threads, Merge(t)
  PROVE  PhasesInv' /\ OneMerges' /\ LatestInv' /\ AgreementInv'
<1> DEFINE at == run[t].at
<1>0. run \in [Threads -> Runs] /\ Main \in Threads /\ run[t] \in Runs /\ at \in DOMAIN FieldOrder
      /\ IsConfig(config)
  BY ConfigValues DEF CenterTypeOK, Threads, Runs
<1>w. Threads \subseteq Writers
  BY Zenon, CenterAssumption
<1>1. FieldOrder[at] \in Fields /\ at \in Nat /\ Len(FieldOrder) \in Nat
      /\ DOMAIN FieldOrder = 1 .. Len(FieldOrder)
  BY <1>0, OrderOfFields
<1>f. PICK f \in Fields : f = FieldOrder[at]
  BY <1>1
<1>2. /\ \A u \in Threads : u # t => run'[u] = run[u]
      /\ run'[t].new = run[t].new /\ run[t].pc = "merge"
      /\ \/ run'[t].pc = "merge" /\ run'[t].at = at + 1
         \/ run'[t].pc = "level" /\ at = Len(FieldOrder)
      /\ MergeField(f, Unmarshal(run[t].new, f))
      /\ UNCHANGED <<seen, alone, listening, started, atomicLevel, mainFile, changing>>
  BY <1>0, <1>f, NextFields DEF Merge, At, vars, settings, rotations, told
<1>3. \A u \in Threads : Merging(u)' <=> Merging(u)
  BY <1>2 DEF Merging
<1>4. PhasesInv' /\ OneMerges'
  BY <1>0, <1>2, <1>3 DEF PhasesInv, OneMerges
<1>l. changing[t].left = {}
  BY <1>w, <1>2 DEF PhasesInv
<1>5. alone => \A u \in Threads : u # t => ~Merging(u) /\ ~Merging(u)'
  BY <1>2, <1>3 DEF OneMerges, Merging
<1>6. AgreementInv'
  BY <1>l, <1>2, <1>3, <1>5 DEF AgreementInv, Merging
<1>7. LatestInv'
  <2> SUFFICES ASSUME alone, seen.kind = "yaml"
               PROVE  /\ \A u \in Threads : Merging(u)' => run'[u].new = seen
                      /\ \A u \in Threads : run'[u].pc = "merge" =>
                           \A i \in DOMAIN FieldOrder : i < run'[u].at => HasLatest(FieldOrder[i])'
                      /\ (\A u \in Threads : run'[u].pc # "merge") => \A g \in Fields : HasLatest(g)'
    BY <1>2 DEF LatestInv
  <2>1. run[t].new = seen /\ \A i \in DOMAIN FieldOrder : i < at => HasLatest(FieldOrder[i])
    BY <1>2 DEF LatestInv, Merging
  <2>2. \A u \in Threads : Merging(u)' => run'[u].new = seen
    BY <1>2, <1>5, <2>1
  <2>3. /\ \A g \in Fields : g # f => config'[g] = config[g]
        /\ Unmarshal(seen, f) # Zero(f) => config'[f] = Unmarshal(seen, f)
    BY <1>0, <1>1, <1>2, <2>1, MergesField DEF CenterTypeOK, Runs
  <2>u. seen' = seen /\ \A g : Unmarshal(seen, g)' = Unmarshal(seen, g)
    BY <1>2 DEF Unmarshal
  <2>5. HasLatest(f)'
    BY <2>u, <2>3 DEF HasLatest
  <2>4. \A g \in Fields : HasLatest(g) => HasLatest(g)'
    <3> TAKE g \in Fields
    <3>1. CASE g = f
      BY <2>5, <3>1
    <3>2. CASE g # f
      BY <2>u, <2>3, <3>2 DEF HasLatest
    <3> QED BY <3>1, <3>2
  <2>6. \A i \in DOMAIN FieldOrder : i <= at => HasLatest(FieldOrder[i])'
    <3> TAKE i \in DOMAIN FieldOrder
    <3> HAVE i <= at
    <3>1. i \in Nat /\ FieldOrder[i] \in Fields
      BY <1>1, OrderOfFields
    <3>2. CASE i = at
      BY <1>f, <2>5, <3>2
    <3>3. CASE i # at
      <4>1. i < at
        BY <1>1, <3>1, <3>3
      <4> QED BY <2>1, <2>4, <3>1, <4>1
    <3> QED BY <3>2, <3>3
  <2>7. CASE run'[t].pc = "merge" /\ run'[t].at = at + 1
    <3>1. \A i \in DOMAIN FieldOrder : i < at + 1 => HasLatest(FieldOrder[i])'
      BY <1>1, <2>6
    <3>2. \A u \in Threads : run'[u].pc = "merge" => u = t
      BY <1>5 DEF Merging
    <3> QED BY Zenon, <2>2, <2>7, <3>1, <3>2
  <2>8. CASE run'[t].pc = "level" /\ at = Len(FieldOrder)
    <3>1. \A i \in DOMAIN FieldOrder : HasLatest(FieldOrder[i])'
      BY <1>1, <2>6, <2>8
    <3>2. \A g \in Fields : HasLatest(g)'
      BY Zenon, <3>1, OrderOfFields
    <3>3. \A u \in Threads : run'[u].pc # "merge"
      BY <1>5, <2>8 DEF Merging
    <3> QED BY Zenon, <2>2, <3>2, <3>3
  <2> QED BY <1>2, <2>7, <2>8
<1> QED BY <1>4, <1>6, <1>7

LEMMA CallsBack ==
  ASSUME CenterTypeOK, PhasesInv, OneMerges, LatestInv, AgreementInv,
         \/ InitConfig
         \/ At(Main, "get") /\ Goto(Main, "idle") /\ UNCHANGED <<seen, listening, config, alone, vars>>
         \/ ListenConfig
         \/ \E t \in Threads : Callback(t)
  PROVE  PhasesInv' /\ OneMerges' /\ LatestInv' /\ AgreementInv'
<1>0. run \in [Threads -> Runs] /\ Main \in Threads /\ Threads \subseteq Writers
  BY CenterAssumption, Zenon DEF CenterTypeOK, Threads
<1>e. \A t \in Threads : run[t].pc # "callback" => changing[t].left = {}
  BY <1>0 DEF PhasesInv
<1>1. PICK t \in Threads :
        /\ \A u \in Threads : u # t => run'[u] = run[u]
        /\ UNCHANGED <<seen, alone, config, started, atomicLevel, mainFile, changing>>
        /\ changing[t].left = {}
        /\ \/ t = Main /\ run[t].pc = "before" /\ started /\ run'[t].pc = "get" /\ listening' = listening
           \/ t = Main /\ run[t].pc = "get" /\ run'[t].pc = "idle" /\ listening' = listening
           \/ t = Main /\ run[t].pc = "listen" /\ run'[t].pc = "idle" /\ listening' \in BOOLEAN
           \/ /\ run[t].pc = "callback" /\ run'[t].pc = (IF t = Main THEN "listen" ELSE "idle")
              /\ listening' = listening
  <2>1. CASE InitConfig
    BY <1>0, <1>e, <2>1, Goes DEF InitConfig, At, Stages, vars, settings, rotations, told
  <2>2. CASE At(Main, "get") /\ Goto(Main, "idle") /\ UNCHANGED <<seen, listening, config, alone, vars>>
    BY <1>0, <1>e, <2>2, Goes DEF At, Stages, vars, settings, rotations, told
  <2>3. CASE ListenConfig
    BY <1>0, <1>e, <2>3, Goes DEF ListenConfig, At, Stages, vars, settings, rotations, told
  <2>4. ASSUME NEW u \in Threads, Callback(u) PROVE
        /\ \A v \in Threads : v # u => run'[v] = run[v]
        /\ UNCHANGED <<seen, alone, config, started, atomicLevel, mainFile, changing>>
        /\ changing[u].left = {}
        /\ run[u].pc = "callback" /\ run'[u].pc = (IF u = Main THEN "listen" ELSE "idle")
        /\ listening' = listening
    <3>1. (IF u = Main THEN "listen" ELSE "idle") \in Stages
      BY DEF Stages
    <3> QED BY <1>0, <2>4, <3>1, Goes DEF Callback, At, vars, settings, rotations, told
  <2> QED BY <2>1, <2>2, <2>3, <2>4
<1>2. ~Merging(t) /\ ~Merging(t)'
  BY <1>1 DEF Merging
<1>3. \A u \in Threads : (Merging(u)' <=> Merging(u)) /\ (Merging(u) => run'[u] = run[u])
  BY <1>1, <1>2 DEF Merging
<1>4. PhasesInv'
  BY <1>0, <1>1 DEF PhasesInv
<1>5. OneMerges'
  BY <1>1, <1>3 DEF OneMerges
<1>6. AgreementInv'
  <2>1. /\ LevelAgrees' <=> LevelAgrees
        /\ RotationAgrees' <=> RotationAgrees
    BY <1>1 DEF LevelAgrees, RotationAgrees
  <2>2. \A u \in Threads : u # t => run'[u] = run[u] /\ changing'[u] = changing[u]
    BY <1>1
  <2>3. run'[t].pc \in {"get", "idle", "listen"} /\ changing'[t].left = {}
    BY <1>1
  <2> QED BY <1>1, <1>3, <2>1, <2>2, <2>3 DEF AgreementInv
<1>7. LatestInv'
  <2>1. \A f : HasLatest(f)' <=> HasLatest(f)
    BY <1>1 DEF HasLatest, Unmarshal
  <2>2. \A u \in Threads : /\ run'[u].pc = "merge" <=> run[u].pc = "merge"
                          /\ run[u].pc = "merge" => run'[u] = run[u]
    BY <1>1
  <2> QED BY <1>1, <1>3, <2>1, <2>2 DEF LatestInv
<1> QED BY <1>4, <1>5, <1>6, <1>7

(* The first update, or a listener's, begins.                                *)
LEMMA BeginsUpdate ==
  ASSUME CenterTypeOK, PhasesInv, OneMerges, LatestInv, AgreementInv,
         \/ At(Main, "get") /\ StartUpdate(Main, content) /\ seen' = content
              /\ UNCHANGED <<listening, config, alone, vars>>
         \/ \E t \in Threads : OnChange(t)
  PROVE  PhasesInv' /\ OneMerges' /\ LatestInv' /\ AgreementInv'
<1>0. run \in [Threads -> Runs] /\ Main \in Threads /\ content \in Contents \cup {Nothing}
      /\ 1 \in DOMAIN FieldOrder /\ DOMAIN FieldOrder \subseteq Nat \ {0}
  BY OrderOfFields DEF CenterTypeOK, Threads
<1>w. Threads \subseteq Writers
  BY Zenon, CenterAssumption
<1>e. \A t \in Threads : run[t].pc # "callback" => changing[t].left = {}
  BY <1>w DEF PhasesInv
<1>1. PICK t \in Threads :
        /\ \A u \in Threads : u # t => run'[u] = run[u]
        /\ run'[t].pc = (IF content.kind = "yaml" THEN "merge" ELSE "callback")
        /\ run'[t].new = content /\ run'[t].at = 1 /\ seen' = content
        /\ UNCHANGED <<config, listening, started, atomicLevel, mainFile, changing>>
        /\ \/ t = Main /\ run[t].pc = "get" /\ alone' = alone
           \/ /\ t # Main /\ run[t].pc = "idle" /\ listening
              /\ alone' = IF content.kind = "yaml" THEN Quiet ELSE alone
  <2>1. CASE At(Main, "get") /\ StartUpdate(Main, content) /\ seen' = content
               /\ UNCHANGED <<listening, config, alone, vars>>
    BY <1>0, <2>1, StartsUpdate DEF At, vars, settings, rotations, told
  <2>2. ASSUME NEW t \in Threads, OnChange(t)
        PROVE  /\ \A u \in Threads : u # t => run'[u] = run[u]
               /\ run'[t].pc = (IF content.kind = "yaml" THEN "merge" ELSE "callback")
               /\ run'[t].new = content /\ run'[t].at = 1 /\ seen' = content
               /\ UNCHANGED <<config, listening, started, atomicLevel, mainFile, changing>>
               /\ t # Main /\ run[t].pc = "idle" /\ listening
               /\ alone' = IF content.kind = "yaml" THEN Quiet ELSE alone
    BY <1>0, <2>2, StartsUpdate DEF OnChange, At, vars, settings, rotations, told
  <2> QED BY <2>1, <2>2
<1>l. changing[t].left = {}
  BY <1>e, <1>1
<1>2. PhasesInv'
  BY <1>0, <1>l, <1>1 DEF PhasesInv
\* A merge that begins is the only one, if alone is set.
<1>3. /\ content.kind = "yaml" /\ alone' => \A u \in Threads : u # t => ~Merging(u)
      /\ content.kind # "yaml" => alone' = alone
  <2>1. Quiet => \A u \in Threads : ~Merging(u)
    BY <1>e DEF Quiet, Merging
  <2>2. t = Main /\ run[t].pc = "get" => \A u \in Threads : u # t => ~Merging(u)
    BY <1>0, <1>e DEF PhasesInv, Merging
  <2> QED BY <1>1, <2>1, <2>2
<1>4. ~Merging(t) /\ \A u \in Threads : u # t => (Merging(u)' <=> Merging(u))
  BY <1>l, <1>1 DEF Merging
<1>5. CASE content.kind = "yaml"
  <2>1. run'[t].pc = "merge" /\ Merging(t)'
    BY <1>1, <1>5 DEF Merging
  <2>2. alone' => \A u \in Threads : u # t => ~Merging(u)'
    BY <1>3, <1>4, <1>5
  <2>3. OneMerges'
    BY <2>2 DEF OneMerges
  <2>4. AgreementInv'
    BY <1>l, <1>1, <2>1, <2>2 DEF AgreementInv, Merging
  <2>5. LatestInv'
    <3>1. \A i \in DOMAIN FieldOrder : ~(i < 1)
      BY <1>0
    <3> QED BY <1>1, <2>1, <2>2, <3>1 DEF LatestInv, Merging
  <2> QED BY <1>2, <2>3, <2>4, <2>5
<1>6. CASE content.kind # "yaml"
  <2>1. run'[t].pc = "callback" /\ ~Merging(t)' /\ alone' = alone
    BY <1>l, <1>1, <1>3, <1>6 DEF Merging
  <2>2. \A u \in Threads : (Merging(u)' <=> Merging(u)) /\ (Merging(u) => run'[u] = run[u])
    BY <1>1, <1>4, <2>1
  <2>3. OneMerges'
    BY <2>1, <2>2 DEF OneMerges
  <2>4. AgreementInv'
    BY <1>1, <2>1, <2>2 DEF AgreementInv, Merging, LevelAgrees, RotationAgrees
  <2>5. LatestInv'
    BY <1>1, <1>6 DEF LatestInv
  <2> QED BY <1>2, <2>3, <2>4, <2>5
<1> QED BY <1>5, <1>6

(* Nothing of this is disturbed by what goes on elsewhere.                   *)
LEMMA OtherSteps ==
  ASSUME CenterTypeOK, PhasesInv, OneMerges, LatestInv, AgreementInv,
         StartLog \/ (\E c \in Contents \cup {Nothing} : Change(c)) \/ UNCHANGED <<center, vars>>
  PROVE  PhasesInv' /\ OneMerges' /\ LatestInv' /\ AgreementInv'
<1>1. UNCHANGED <<run, config, seen, alone, listening, changing>>
  BY DEF StartLog, Change, Build, center, told, vars, settings, rotations
<1>2. OneMerges' /\ LatestInv'
  BY <1>1 DEF OneMerges, LatestInv, Merging, HasLatest, Unmarshal
<1>3. CASE UNCHANGED <<started, atomicLevel, mainFile, changing>>
  BY <1>1, <1>2, <1>3 DEF PhasesInv, AgreementInv, Merging, LevelAgrees, RotationAgrees
<1>4. CASE StartLog
  <2>1. /\ ~started /\ started'
        /\ atomicLevel' = parseLogLevel(IF config["Level"] # "" THEN config["Level"] ELSE Default.level)
        /\ mainFile' = Picked(Rotation(config), Default.rotation)
    BY <1>4 DEF StartLog, Build
  <2>w. Threads \subseteq Writers
    BY Zenon, CenterAssumption
  <2>2. \A t \in Threads : run[t].pc \in {"before", "idle"} /\ changing[t].left = {}
    BY <2>w, <2>1 DEF PhasesInv
  <2>3. LevelAgrees' /\ RotationAgrees'
    BY <1>1, <2>1 DEF LevelAgrees, RotationAgrees, Picked, Rotation
  <2>4. AgreementInv'
    BY <1>1, <2>2, <2>3 DEF AgreementInv, Merging
  <2>5. PhasesInv'
    BY <1>1, <2>1 DEF PhasesInv
  <2> QED BY <1>2, <2>4, <2>5
<1> QED BY <1>3, <1>4 DEF Change, vars, settings, rotations

-----------------------------------------------------------------------------
CenterInv == /\ TypeOK /\ SettingsInv /\ CenterTypeOK
             /\ PhasesInv /\ OneMerges /\ LatestInv /\ AgreementInv /\ GivenInv

LEMMA CenterStarts == CenterInit => CenterInv
<1> SUFFICES ASSUME CenterInit PROVE CenterInv
  OBVIOUS
<1>1. TypeOK /\ SettingsInv
  BY LogStarts DEF CenterInit
<1>2. /\ run = [t \in Threads |-> NotRunning(IF t = Main THEN "before" ELSE "idle")]
      /\ Main \in Threads
      /\ started = FALSE /\ listening = FALSE /\ seen = Nothing /\ alone = TRUE
      /\ config = Local /\ changes = 0 /\ content \in Contents \cup {Nothing}
      /\ given = [f \in Fields |-> {Local[f]}]
      /\ \A w \in Writers : changing[w].left = {}
  BY DEF NoChange, CenterInit, LogInit, Threads
<1>3. \A t \in Threads : run[t].pc = IF t = Main THEN "before" ELSE "idle"
  BY <1>2 DEF NotRunning
<1>4. CenterTypeOK
  <2>1. NotRunning("before") \in Runs /\ NotRunning("idle") \in Runs
    BY <1>2, NewRuns DEF Stages
  <2>2. run \in [Threads -> Runs]
    BY <1>2, <2>1
  <2>3. changes \in 0 .. MaxChanges
    BY <1>2, CenterAssumption
  <2> QED BY <1>2, <2>2, <2>3, LocalValues DEF CenterTypeOK
<1>5. PhasesInv /\ OneMerges /\ AgreementInv
  <2>1. Threads \subseteq Writers
    BY Zenon, CenterAssumption
  <2> QED BY <1>2, <1>3, <2>1 DEF PhasesInv, OneMerges, AgreementInv, Merging
<1>6. LatestInv
  BY <1>2 DEF LatestInv, Nothing
<1>7. GivenInv
  BY <1>2, <1>3 DEF GivenInv, Coming, At
<1> QED BY <1>1, <1>4, <1>5, <1>6, <1>7 DEF CenterInv

(* What a goroutine has yet to give to a field.                              *)
IsYetToGive(t, f) == At(t, "merge") /\ \E i \in DOMAIN FieldOrder : i >= run[t].at /\ FieldOrder[i] = f

LEMMA ComingFrom ==
  ASSUME NEW f, NEW v
  PROVE  v \in Coming(f) <=>
           v # Zero(f) /\ \E t \in Threads : IsYetToGive(t, f) /\ v = Unmarshal(run[t].new, f)
BY DEF Coming, IsYetToGive

LEMMA MergeGives ==
  ASSUME CenterTypeOK, GivenInv, NEW t \in Threads, Merge(t)
  PROVE  GivenInv'
<1> DEFINE at == run[t].at
<1>0. run \in [Threads -> Runs] /\ run[t] \in Runs /\ at \in DOMAIN FieldOrder /\ IsConfig(config)
      /\ DOMAIN FieldOrder = 1 .. Len(FieldOrder) /\ Len(FieldOrder) \in Nat
  BY ConfigValues, OrderOfFields DEF CenterTypeOK, Runs
<1>f. PICK f \in Fields : f = FieldOrder[at]
  BY <1>0, OrderOfFields
<1>1. /\ \A u \in Threads : u # t => run'[u] = run[u]
      /\ run'[t].new = run[t].new /\ run[t].pc = "merge"
      /\ \/ run'[t].pc = "merge" /\ run'[t].at = at + 1
         \/ run'[t].pc = "level" /\ at = Len(FieldOrder)
      /\ MergeField(f, Unmarshal(run[t].new, f)) /\ given' = given
  BY <1>0, <1>f, NextFields DEF Merge, At, told
<1>2. \A g : \A u \in Threads : IsYetToGive(u, g)' => IsYetToGive(u, g) /\ run'[u].new = run[u].new
  BY <1>0, <1>1 DEF IsYetToGive, At
<1>3. \A g : \A u \in Threads : IsYetToGive(u, g) => IsYetToGive(u, g)' \/ (u = t /\ g = f)
  <2> TAKE g
  <2> TAKE u \in Threads
  <2>1. CASE u # t
    BY <1>1, <2>1 DEF IsYetToGive, At
  <2>2. CASE u = t
    <3> SUFFICES ASSUME IsYetToGive(t, g), g # f PROVE IsYetToGive(t, g)'
      BY <2>2
    <3>1. PICK i \in DOMAIN FieldOrder : i >= at /\ FieldOrder[i] = g
      BY DEF IsYetToGive
    <3>2. i # at /\ i \in Nat /\ at \in Nat
      BY <1>f, <1>0, <3>1
    <3>3. i >= at + 1 /\ i <= Len(FieldOrder)
      BY <1>0, <3>1, <3>2
    <3> QED BY <1>0, <1>1, <3>1, <3>2, <3>3 DEF IsYetToGive, At
  <2> QED BY <2>1, <2>2
<1>4. \A g : Unmarshal(run[t].new, g) = Unmarshal(run'[t].new, g)
  BY <1>1
<1>5. \A g : \A u \in Threads : IsYetToGive(u, g)' =>
        Unmarshal(run'[u].new, g) = Unmarshal(run[u].new, g)
  BY <1>2
<1>6. \A g : Coming(g)' \subseteq Coming(g)
  <2> SUFFICES ASSUME NEW g, NEW v \in Coming(g)' PROVE v \in Coming(g)
    OBVIOUS
  <2>1. v # Zero(g) /\ \E u \in Threads : IsYetToGive(u, g)' /\ v = Unmarshal(run'[u].new, g)
    BY DEF Coming, IsYetToGive, At, Unmarshal
  <2>2. \E u \in Threads : IsYetToGive(u, g) /\ v = Unmarshal(run[u].new, g)
    BY <1>2, <1>5, <2>1
  <2> QED BY <2>1, <2>2, ComingFrom
<1>7. \A g : \A v \in Coming(g) : v \in Coming(g)' \/ (g = f /\ v = Unmarshal(run[t].new, f))
  <2> SUFFICES ASSUME NEW g, NEW v \in Coming(g), ~(g = f /\ v = Unmarshal(run[t].new, f))
               PROVE  v \in Coming(g)'
    OBVIOUS
  <2>1. PICK u \in Threads : IsYetToGive(u, g) /\ v = Unmarshal(run[u].new, g) /\ v # Zero(g)
    BY ComingFrom
  <2>2. IsYetToGive(u, g)'
    BY <1>3, <2>1
  <2>3. v = Unmarshal(run'[u].new, g)
    BY <1>5, <2>1, <2>2
  <2> QED BY <2>1, <2>2, <2>3 DEF Coming, IsYetToGive, At, Unmarshal
<1>8. ASSUME NEW g \in Fields, Coming(g)' = {} PROVE config'[g] \in given[g]
  <2> DEFINE c == run[t].new
  <2>0. c \in Contents \cup {Nothing}
    BY <1>0 DEF Runs
  <2>1. CASE g = f /\ Unmarshal(c, f) # Zero(f)
    <3>1. config'[f] = Unmarshal(c, f)
      BY <1>0, <1>1, <2>0, <2>1, MergesField
    <3>2. IsYetToGive(t, f)
      BY <1>0, <1>f, <1>1 DEF IsYetToGive, At
    <3>3. Unmarshal(c, f) \in Coming(f)
      BY <2>1, <3>2, ComingFrom
    <3> QED BY <2>1, <3>1, <3>3 DEF GivenInv
  <2>2. CASE ~(g = f /\ Unmarshal(c, f) # Zero(f))
    <3>1. config'[g] = config[g]
      <4>1. CASE g # f
        BY <1>0, <1>1, <2>0, <4>1, MergesField
      <4>2. CASE g = f
        BY <1>1, <2>2, <4>2 DEF MergeField
      <4> QED BY <4>1, <4>2
    <3>2. Coming(g) = {}
      <4> SUFFICES ASSUME NEW v \in Coming(g) PROVE FALSE
        OBVIOUS
      <4>1. v # Zero(g)
        BY ComingFrom
      <4>2. v \in Coming(g)'
        BY <1>7, <2>2, <4>1
      <4> QED BY <1>8, <4>2
    <3> QED BY <3>1, <3>2 DEF GivenInv
  <2> QED BY <2>1, <2>2
<1> QED BY <1>1, <1>6, <1>8 DEF GivenInv

LEMMA BeginGives ==
  ASSUME CenterTypeOK, GivenInv, NEW t \in Threads, run[t].pc # "merge",
         StartUpdate(t, content), Give(content), config' = config
  PROVE  GivenInv'
<1>0. run \in [Threads -> Runs] /\ content \in Contents \cup {Nothing}
      /\ DOMAIN FieldOrder \subseteq Nat \ {0}
  BY OrderOfFields DEF CenterTypeOK
<1>1. /\ \A u \in Threads : u # t => run'[u] = run[u]
      /\ run'[t].pc = IF content.kind = "yaml" THEN "merge" ELSE "callback"
      /\ run'[t].new = content /\ run'[t].at = 1
  BY <1>0, StartsUpdate
<1>2. \A f \in Fields : \A u \in Threads :
        IsYetToGive(u, f)' <=> IsYetToGive(u, f) \/ (u = t /\ content.kind = "yaml")
  <2> TAKE f \in Fields
  <2> TAKE u \in Threads
  <2>1. CASE u # t
    BY <1>1, <2>1 DEF IsYetToGive, At
  <2>2. CASE u = t
    <3>1. PICK i \in DOMAIN FieldOrder : FieldOrder[i] = f
      BY OrderOfFields
    <3>2. i >= 1
      BY <1>0
    <3> QED BY <1>1, <2>2, <3>1, <3>2 DEF IsYetToGive, At
  <2> QED BY <2>1, <2>2
<1>3. ASSUME NEW f \in Fields
      PROVE  /\ Coming(f)' \subseteq given'[f]
             /\ Coming(f)' = {} => config'[f] \in given'[f]
  <2>1. given'[f] = IF content.kind = "yaml" /\ Unmarshal(content, f) # Zero(f)
                    THEN {Unmarshal(content, f)} \cup Coming(f) ELSE given[f]
    BY DEF Give
  <2>2. \A v : v \in Coming(f)' <=>
          v # Zero(f) /\ \E u \in Threads : IsYetToGive(u, f)' /\ v = Unmarshal(run'[u].new, f)
    BY DEF Coming, IsYetToGive, At, Unmarshal
  <2>3. \A v : v \in Coming(f)' <=>
          \/ v \in Coming(f)
          \/ content.kind = "yaml" /\ v # Zero(f) /\ v = Unmarshal(content, f)
    <3> TAKE v
    <3>1. v \in Coming(f) <=>
            v # Zero(f) /\ \E u \in Threads : IsYetToGive(u, f) /\ v = Unmarshal(run[u].new, f)
      BY ComingFrom
    <3>2. \A u \in Threads : IsYetToGive(u, f) => u # t
      BY DEF IsYetToGive, At
    <3>3. \A u \in Threads : u # t => Unmarshal(run'[u].new, f) = Unmarshal(run[u].new, f)
      BY <1>1
    <3>4. Unmarshal(run'[t].new, f) = Unmarshal(content, f)
      BY <1>1
    <3> QED BY <1>2, <2>2, <3>1, <3>2, <3>3, <3>4
  <2>4. Coming(f) \subseteq given[f] /\ (Coming(f) = {} => config[f] \in given[f])
    BY DEF GivenInv
  <2>5. CASE content.kind = "yaml" /\ Unmarshal(content, f) # Zero(f)
    <3>1. Coming(f)' = {Unmarshal(content, f)} \cup Coming(f)
      BY <2>3, <2>5
    <3> QED BY <2>1, <2>5, <3>1
  <2>6. CASE ~(content.kind = "yaml" /\ Unmarshal(content, f) # Zero(f))
    <3>1. Coming(f)' = Coming(f) /\ given'[f] = given[f]
      BY <2>1, <2>3, <2>6
    <3> QED BY <2>4, <3>1
  <2> QED BY <2>5, <2>6
<1> QED BY <1>3 DEF GivenInv

(* Where a goroutine goes that does not merge is nothing to the fields.      *)
LEMMA OthersGive ==
  ASSUME CenterTypeOK, GivenInv, UNCHANGED <<config, given>>,
         \A t \in Threads : run'[t] = run[t] \/ (run[t].pc # "merge" /\ run'[t].pc # "merge")
  PROVE  GivenInv'
<1>1. \A f : \A t \in Threads : IsYetToGive(t, f)' <=> IsYetToGive(t, f)
  BY DEF IsYetToGive, At
<1>2. \A f : Coming(f)' = Coming(f)
  <2> TAKE f
  <2>1. \A v : v \in Coming(f)' <=>
          v # Zero(f) /\ \E u \in Threads : IsYetToGive(u, f)' /\ v = Unmarshal(run'[u].new, f)
    BY DEF Coming, IsYetToGive, At, Unmarshal
  <2>2. \A t \in Threads : IsYetToGive(t, f) => run'[t] = run[t]
    BY DEF IsYetToGive, At
  <2> QED BY <1>1, <2>1, <2>2, ComingFrom
<1> QED BY <1>2 DEF GivenInv

LEMMA CenterGives ==
  ASSUME CenterTypeOK, GivenInv, [CenterNext]_<<center, vars>>
  PROVE  GivenInv'
<1>0. run \in [Threads -> Runs] /\ Main \in Threads
  BY DEF CenterTypeOK, Threads
<1>1. ASSUME NEW t \in Threads, Merge(t) PROVE GivenInv'
  BY <1>1, MergeGives
<1>2. CASE At(Main, "get") /\ StartUpdate(Main, content) /\ Give(content) /\ config' = config
  BY <1>0, <1>2, BeginGives DEF At
<1>3. ASSUME NEW t \in Threads, OnChange(t) PROVE GivenInv'
  BY <1>3, BeginGives DEF OnChange, At
<1>4. ASSUME NEW t \in Threads, NEW stage \in Stages \ {"merge"}, run[t].pc # "merge",
             Goto(t, stage), UNCHANGED <<config, given>>
      PROVE  GivenInv'
  <2>1. /\ \A u \in Threads : u # t => run'[u] = run[u]
        /\ run'[t].pc = stage
    BY <1>0, <1>4, Goes
  <2> QED BY <1>4, <2>1, OthersGive
<1>5. ASSUME NEW t \in Threads, ReadLevel(t) \/ ReadRotation(t) PROVE GivenInv'
  <2>1. \A u \in Threads : run'[u] = run[u] \/ (run[u].pc # "merge" /\ run'[u].pc # "merge")
    BY <1>0, <1>5 DEF ReadLevel, ReadRotation, At, Runs
  <2>2. UNCHANGED <<config, given>>
    BY <1>5 DEF ReadLevel, ReadRotation, told
  <2> QED BY <2>1, <2>2, OthersGive
<1>6. ASSUME NEW t \in Threads, ApplyLevel(t) \/ ApplyRotation(t) \/ Callback(t) PROVE GivenInv'
  <2>1. PICK stage \in Stages \ {"merge"} : Goto(t, stage)
    BY <1>6 DEF ApplyLevel, ApplyRotation, Callback, Stages
  <2>2. run[t].pc # "merge" /\ UNCHANGED <<config, given>>
    BY <1>6 DEF ApplyLevel, ApplyRotation, Callback, At, told
  <2> QED BY <1>4, <2>1, <2>2
<1>7. CASE InitConfig \/ ListenConfig \/ (At(Main, "get") /\ Goto(Main, "idle") /\ UNCHANGED <<config, given>>)
  <2>1. PICK stage \in Stages \ {"merge"} : Goto(Main, stage)
    BY <1>7 DEF InitConfig, ListenConfig, Stages
  <2>2. run[Main].pc # "merge" /\ UNCHANGED <<config, given>>
    BY <1>7 DEF InitConfig, ListenConfig, At, told
  <2> QED BY <1>0, <1>4, <2>1, <2>2
<1>8. CASE UNCHANGED <<run, config, given>>
  BY <1>8, OthersGive
<1>9. GetConfig =>
        \/ At(Main, "get") /\ StartUpdate(Main, content) /\ Give(content) /\ config' = config
        \/ At(Main, "get") /\ Goto(Main, "idle") /\ UNCHANGED <<config, given>>
  BY DEF GetConfig
<1>10. \/ StartLog \/ (\E c \in Contents \cup {Nothing} : Change(c)) \/ UNCHANGED <<center, vars>>
       \/ \E t \in Threads : SetNext(t)
       => UNCHANGED <<run, config, given>>
  BY DEF StartLog, Change, SetNext, center, told
<1> QED
  BY <1>1, <1>2, <1>3, <1>5, <1>6, <1>7, <1>8, <1>9, <1>10 DEF CenterNext, Step, UpdateStep

LEMMA CenterStep ==
  ASSUME CenterInv, [CenterNext]_<<center, vars>>
  PROVE  CenterInv'
<1>1. TypeOK' /\ SettingsInv' /\ CenterTypeOK' /\ GivenInv'
  BY CenterTyped, CenterGives DEF CenterInv
<1>2. CASE \/ InitConfig \/ ListenConfig \/ \E t \in Threads : Callback(t)
           \/ At(Main, "get") /\ Goto(Main, "idle") /\ UNCHANGED <<seen, listening, config, alone, vars>>
  BY <1>1, <1>2, CallsBack DEF CenterInv
<1>3. CASE \/ At(Main, "get") /\ StartUpdate(Main, content) /\ seen' = content
                /\ UNCHANGED <<listening, config, alone, vars>>
           \/ \E t \in Threads : OnChange(t)
  BY <1>1, <1>3, BeginsUpdate DEF CenterInv
<1>4. CASE \/ StartLog \/ UNCHANGED <<center, vars>>
           \/ \E c \in Contents \cup {Nothing} : Change(c)
  BY <1>1, <1>4, OtherSteps DEF CenterInv
<1>5. CASE \E t \in Threads : Merge(t)
  BY <1>1, <1>5, MergesFields DEF CenterInv
<1>6. CASE \E t \in Threads : \/ ReadLevel(t) \/ ApplyLevel(t) \/ ReadRotation(t)
                             \/ ApplyRotation(t) \/ SetNext(t)
  BY <1>1, <1>6, AppliesSettings, SetsRotation DEF CenterInv
<1>7. GetConfig =>
        \/ At(Main, "get") /\ Goto(Main, "idle") /\ UNCHANGED <<seen, listening, config, alone, vars>>
        \/ At(Main, "get") /\ StartUpdate(Main, content) /\ seen' = content
             /\ UNCHANGED <<listening, config, alone, vars>>
  BY DEF GetConfig
<1> QED
  BY <1>2, <1>3, <1>4, <1>5, <1>6, <1>7 DEF CenterNext, Step, UpdateStep

(* What the logger does is what the struct says, whenever no update is       *)
(* running and the last one that merged was alone, whatever overlapped       *)
(* before it; and GetLogConfig reports the rotation that the main file has.  *)
THEOREM LoggerFollowsConfig == CenterSpec => []SettingsAgree
<1>1. CenterInv => SettingsAgree
  <2> SUFFICES ASSUME CenterInv PROVE SettingsAgree
    OBVIOUS
  <2>0. Threads \subseteq Writers
    BY Zenon, CenterAssumption
  <2>1. Quiet => \A t \in Threads : ~Merging(t)
    BY <2>0 DEF Quiet, Merging, CenterInv, PhasesInv
  <2>2. LogFollowsConfig
    BY <2>1 DEF CenterInv, AgreementInv, LogFollowsConfig, LevelAgrees, RotationAgrees
  <2>3. RotationIsReported
    BY DEF CenterInv, SettingsInv, RotationInv, ParameterInv, RotationIsReported
  <2> QED BY <2>2, <2>3 DEF CenterInv, SettingsAgree
<1>2. CenterInv /\ [CenterNext]_<<center, vars>> => CenterInv'
  BY CenterStep
<1> QED BY <1>1, <1>2, CenterStarts, PTL DEF CenterSpec

(* ... and the struct has, field by field, what the content last told gives. *)
THEOREM StructHasLatest == CenterSpec => []ConfigIsLatest
<1>1. CenterInv => ConfigIsLatest
  <2> SUFFICES ASSUME CenterInv, Quiet, alone, seen.kind = "yaml",
                      NEW f \in DOMAIN seen.fields, Unmarshal(seen, f) # Zero(f)
               PROVE  config[f] = Unmarshal(seen, f)
    BY DEF ConfigIsLatest
  <2>1. \A t \in Threads : run[t].pc # "merge"
    BY DEF Quiet
  <2>2. f \in Fields
    <3>1. seen \in Contents
      BY DEF CenterInv, CenterTypeOK, Nothing
    <3> QED BY Zenon, <3>1, CenterAssumption
  <2> QED BY <2>1, <2>2 DEF CenterInv, LatestInv, HasLatest
<1>2. CenterInv /\ [CenterNext]_<<center, vars>> => CenterInv'
  BY CenterStep
<1> QED BY <1>1, <1>2, CenterStarts, PTL DEF CenterSpec

(* Whatever updates overlap, once none is running each field has what the    *)
(* last content that gives it was told to give, or what an update gave that  *)
(* was still running beside that one.                                        *)
THEOREM FieldsAreGiven == CenterSpec => []FieldsComeFromContents
<1>1. CenterInv => FieldsComeFromContents
  <2> SUFFICES ASSUME CenterInv, Quiet, NEW f \in Fields PROVE config[f] \in given[f]
    BY DEF FieldsComeFromContents
  <2>1. Coming(f) = {}
    BY DEF Coming, At, Quiet
  <2> QED BY <2>1 DEF CenterInv, GivenInv
<1>2. CenterInv /\ [CenterNext]_<<center, vars>> => CenterInv'
  BY CenterStep
<1> QED BY <1>1, <1>2, CenterStarts, PTL DEF CenterSpec

(* A program that sets its logger up itself is told the rotation it has.     *)
THEOREM ReportedAsSet == LogSpec => []RotationIsReported
<1>1. LogInit => TypeOK /\ SettingsInv /\ NumbersInv
  BY LogStarts
<1>2. TypeOK /\ SettingsInv /\ NumbersInv /\ [LogNext]_vars
        => TypeOK' /\ SettingsInv' /\ NumbersInv'
  BY LogNextKeeps
<1>3. SettingsInv => RotationIsReported
  BY DEF SettingsInv, RotationInv, ParameterInv, RotationIsReported
<1> QED BY <1>1, <1>2, <1>3, PTL DEF LogSpec
=============================================================================
