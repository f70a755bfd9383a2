---------------------------- MODULE Translations ----------------------------
(***************************************************************************)
(* i18n.go: one bundle of messages for the process, made by the first Init *)
(* and filled from its directory's files one after the other; later Inits,  *)
(* whatever directory they name, load nothing.  Whoever is in the process   *)
(* registers further messages and translates, before, during and after it. *)
(*                                                                         *)
(* The library does not lock the bundle, nor does the package: a message    *)
(* that is put into it and a translation are one step each here.            *)
(***************************************************************************)
EXTENDS Integers, Sequences

CONSTANTS
  Callers,
  Langs, Ids,
  Chinese,   \* the default language until Init sets one
  Files,     \* of each LocaleDir, in the order of filepath.Walk: a message each
  MaxCalls   \* of RegisterMessage and Translate, by all callers

Unknown == "id"  \* the answer that is the message's id
Texts == {Unknown, "file", "own"}
NoTexts == [lang \in Langs |-> [id \in Ids |-> Unknown]]
Messages == [lang : Langs, id : Ids]
Dirs == DOMAIN Files
Count(dir) == Len(Files[dir])
AllFiles == UNION {{dir} \X (1..Count(dir)) : dir \in Dirs}

ASSUME TranslationsAssumption ==
  /\ Chinese \in Langs /\ MaxCalls \in Nat
  /\ Files \in [Dirs -> Seq(Messages)]
  /\ "" \in Dirs /\ Files[""] = <<>>

VARIABLES
  bad,         \* files that are no messages, or not there: <<dir, index>>
  once,        \* "new", "running" or "done"
  published,   \* bundle # nil
  bundle,      \* the texts of the bundle
  defaultLang,
  loadedDir,   \* the LocaleDir of the first Init
  loaded,      \* files of it that have been loaded
  i18nPc,
  asked,       \* the LocaleDir of a caller's last Init
  result,      \* of a caller's last Init: "none", "nil" or "error"
  errors,      \* Inits that returned an error
  known,       \* what a caller may count on: see FilesOf and RegisterMessage
  answer,      \* to its last question, and whether it was about such a message
  calls
bundleVars == <<bad, once, published, bundle, defaultLang, loadedDir, loaded>>
i18nVars == <<bundleVars, i18nPc, asked, result, errors, known, answer, calls>>

I18nInit ==
  /\ bad \in SUBSET AllFiles
  /\ once = "new" /\ published = FALSE /\ bundle = NoTexts
  /\ loadedDir = "" /\ loaded = 0
  /\ defaultLang = Chinese
  /\ i18nPc = [c \in Callers |-> "idle"] /\ asked = [c \in Callers |-> ""]
  /\ result = [c \in Callers |-> "none"]
  /\ errors = 0
  /\ known = [c \in Callers |-> {}]
  /\ answer = [c \in Callers |-> [text |-> Unknown, known |-> FALSE]]
  /\ calls = 0

-----------------------------------------------------------------------------
CallInit(c, dir) ==
  /\ i18nPc[c] = "idle"
  /\ i18nPc' = [i18nPc EXCEPT ![c] = "once"]
  /\ asked' = [asked EXCEPT ![c] = dir]
  /\ result' = [result EXCEPT ![c] = "none"]
  /\ UNCHANGED <<bundleVars, errors, known, answer, calls>>

(* The messages of a directory before its first bad file: what is left of it *)
(* when it is loaded.                                                        *)
IsBad(dir, f) == <<dir, f>> \in bad
Broken(dir) == \E f \in 1..Count(dir) : IsBad(dir, f)
FilesOf(dir) == {Files[dir][f] : f \in {g \in 1..Count(dir) : \A h \in 1..g : ~IsBad(dir, h)}}

(* Whatever it returns, an Init that asked for the directory that is loaded  *)
(* has its messages; one that asked for another has nothing for it.          *)
End(c, r) ==
  /\ i18nPc' = [i18nPc EXCEPT ![c] = "idle"] /\ result' = [result EXCEPT ![c] = r]
  /\ errors' = IF r = "error" THEN errors + 1 ELSE errors
  /\ known' = [known EXCEPT ![c] =
                 IF asked[c] = loadedDir THEN @ \cup FilesOf(loadedDir) ELSE @]

(* once.Do: the first caller runs the function, and the others wait for its  *)
(* end, whatever it is.                                                      *)
Unused == once = "new"
Done == once = "done"

(* The bundle is there for everybody before a file is loaded.  Its language  *)
(* is the configuration's, or stays Chinese when that names none.            *)
Do(c, lang) ==
  /\ i18nPc[c] = "once" /\ Unused
  /\ once' = "running" /\ loadedDir' = asked[c] /\ loaded' = 0
  /\ defaultLang' = lang /\ published' = TRUE /\ bundle' = NoTexts
  /\ i18nPc' = [i18nPc EXCEPT ![c] = "load"]
  /\ UNCHANGED <<bad, asked, result, errors, known, answer, calls>>

(* Nothing is loaded for a later Init, and its error is a variable of its own *)
(* that nobody has set.                                                      *)
DoNothing(c) ==
  /\ i18nPc[c] = "once" /\ Done
  /\ End(c, "nil")
  /\ UNCHANGED <<bundleVars, asked, answer, calls>>

LoadMessageFile(c) ==
  /\ loaded' = loaded + 1
  /\ LET m == Files[loadedDir][loaded'] IN bundle' = [bundle EXCEPT ![m.lang][m.id] = "file"]
  /\ UNCHANGED <<once, i18nPc, result, errors, known>>

\* Mutant: the walk is begun again.
LoadFails_Again(c) == loaded' = 0 /\ UNCHANGED <<once, bundle, i18nPc, result, errors, known>>

(* The walk ends at the first file that fails; what was loaded stays.        *)
LoadFails(c) == once' = "done" /\ End(c, "error") /\ UNCHANGED <<loaded, bundle>>

loadMessageFiles(c) ==
  /\ i18nPc[c] = "load"
  /\ IF loaded = Count(loadedDir)
     THEN once' = "done" /\ End(c, "nil") /\ UNCHANGED <<loaded, bundle>>
     ELSE IF IsBad(loadedDir, loaded + 1) THEN LoadFails(c) ELSE LoadMessageFile(c)
  /\ UNCHANGED <<bad, published, defaultLang, loadedDir, asked, answer, calls>>

-----------------------------------------------------------------------------
(* Nothing is registered without a bundle, and nobody is told.  A call of    *)
(* RegisterMessages is as many steps as it has messages.                     *)
RegisterMessage(c, m) ==
  /\ i18nPc[c] = "idle" /\ calls < MaxCalls
  /\ calls' = calls + 1
  /\ IF published
     THEN /\ bundle' = [bundle EXCEPT ![m.lang][m.id] = "own"]
          /\ known' = [known EXCEPT ![c] = @ \cup {m}]
     ELSE UNCHANGED <<bundle, known>>
  /\ UNCHANGED <<bad, once, published, defaultLang, loadedDir, loaded>>
  /\ UNCHANGED <<i18nPc, asked, result, errors, answer>>

\* Mutant: no language means the one the package began with.
LangOf_Chinese(lang) == IF lang = "" THEN Chinese ELSE lang

LangOf(lang) == IF lang = "" THEN defaultLang ELSE lang

(* The id is the answer without a bundle and for a message it does not have. *)
(* The library may let the default language stand in for another.            *)
Translate(c, id, lang) ==
  LET l == LangOf(lang)
      countedOn == [lang |-> IF lang = "" THEN defaultLang ELSE lang, id |-> id] \in known[c]
  IN /\ i18nPc[c] = "idle" /\ calls < MaxCalls
     /\ calls' = calls + 1
     /\ \E text \in {Unknown, bundle[l][id], bundle[defaultLang][id]} :
          /\ IF published /\ bundle[l][id] # Unknown THEN text = bundle[l][id]
             ELSE published \/ text = Unknown
          /\ answer' = [answer EXCEPT ![c] = [text |-> text, known |-> countedOn]]
     /\ UNCHANGED <<bundleVars, i18nPc, asked, result, errors, known>>

InitSteps(c) == (\E lang \in Langs : Do(c, lang)) \/ DoNothing(c) \/ loadMessageFiles(c)

I18nNext == \E c \in Callers :
  \/ (\E dir \in Dirs : CallInit(c, dir)) \/ InitSteps(c)
  \/ \E m \in Messages : RegisterMessage(c, m)
  \/ \E lang \in Langs \cup {""}, id \in Ids : Translate(c, id, lang)

I18nSpec == I18nInit /\ [][I18nNext]_i18nVars

-----------------------------------------------------------------------------
I18nTypeOK ==
  /\ bad \subseteq AllFiles /\ once \in {"new", "running", "done"}
  /\ published \in BOOLEAN /\ bundle \in [Langs -> [Ids -> Texts]] /\ defaultLang \in Langs
  /\ loadedDir \in Dirs /\ loaded \in 0..Count(loadedDir) /\ asked \in [Callers -> Dirs]
  /\ i18nPc \in [Callers -> {"idle", "once", "load"}]
  /\ result \in [Callers -> {"none", "nil", "error"}] /\ errors \in Nat
  /\ known \in [Callers -> SUBSET Messages]
  /\ answer \in [Callers -> [text : Texts, known : BOOLEAN]]
  /\ calls \in 0..MaxCalls

(* A directory with a bad file is told to one caller of Init, the one that   *)
(* loads it, and to no other, now or later; nobody else is told an error.    *)
FailureToldOnce ==
  /\ errors = IF once = "done" /\ Broken(loadedDir) THEN 1 ELSE 0
  /\ \A c \in Callers : result[c] = "error" => asked[c] = loadedDir

(* A message a caller may count on is there: whoever asked for the directory *)
(* that is loaded has, once its Init has returned, though another loaded it, *)
(* all its messages up to a bad file, and whoever registered a message has  *)
(* it or a file's.                                                           *)
There(m) == bundle[m.lang][m.id] # Unknown
KnownIsThere == \A c \in Callers : \A m \in known[c] : There(m)

(* And it is what Translate answers when asked for it in its language, or    *)
(* in none when its language is the default one.                             *)
KnownIsAnswered == \A c \in Callers : answer[c].known => answer[c].text # Unknown

(* The i18n bundle: what a caller registered, or asked an Init for that      *)
(* loaded it or found it loaded, is there and is what Translate answers; a   *)
(* broken directory is told to one caller.                                   *)
KnownIsTranslated == I18nTypeOK /\ KnownIsThere /\ KnownIsAnswered /\ FailureToldOnce

(* Its inductive form: one caller loads, the directory it asked for; those   *)
(* files before loaded are in the bundle, and the walk ends at the first bad *)
(* one.                                                                      *)
LoadInv ==
  /\ published <=> once # "new"
  /\ \A c \in Callers : i18nPc[c] = "load" => once = "running" /\ asked[c] = loadedDir
  /\ \A c, d \in Callers : i18nPc[c] = "load" /\ i18nPc[d] = "load" => c = d
  /\ published => \A f \in 1..loaded : There(Files[loadedDir][f]) /\ ~IsBad(loadedDir, f)
  /\ once = "done" => loaded = Count(loadedDir) \/ IsBad(loadedDir, loaded + 1)
  /\ \A c \in Callers : known[c] # {} => published
  /\ once = "new" => \A c \in Callers : result[c] # "error"

(* One bundle for the life of the process: the default language of the first *)
(* Init stays, and no message of it becomes unknown again.                   *)
BundleStays ==
  [][published =>
       /\ defaultLang' = defaultLang
       /\ \A l \in Langs, i \in Ids : bundle[l][i] # Unknown => bundle'[l][i] # Unknown]_i18nVars

(* Each Init returns, the ones that wait for another's too.                  *)
InitReturns == \A c \in Callers : i18nPc[c] # "idle" ~> i18nPc[c] = "idle"
=============================================================================
