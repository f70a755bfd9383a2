------------------------------ MODULE MCStartup ------------------------------
(***************************************************************************)
(* Small instances, for TLC, of the parts that keep package variables for  *)
(* the life of the process and are set up by a call that may come again:   *)
(* Registration, DbInit and Translations.  They share nothing, so a        *)
(* behaviour is one of one of them, and the others are at rest.            *)
(***************************************************************************)
EXTENDS Registration, DbInit, Translations

VARIABLE part   \* "nacos", "db" or "i18n"

(* No directory, one of two files and one of another.                       *)
TwoDirs ==
  [dir \in {"", "a", "b"} |->
     CASE dir = "" -> <<>>
       [] dir = "a" -> << [lang |-> "en", id |-> "m1"], [lang |-> "zh", id |-> "m2"] >>
       [] dir = "b" -> << [lang |-> "en", id |-> "m2"] >>]

-----------------------------------------------------------------------------
NoDatabase == InitDb /\ oneAtATime = TRUE
NoMessages == I18nInit /\ bad = {}

StartupInit ==
  \/ part = "nacos" /\ Init /\ NoDatabase /\ NoMessages
  \/ part = "db" /\ Init /\ InitDb /\ NoMessages
  \/ part = "i18n" /\ Init /\ NoDatabase /\ I18nInit

StartupNext ==
  /\ UNCHANGED part
  /\ \/ part = "nacos" /\ Next /\ UNCHANGED <<dbVars, i18nVars>>
     \/ part = "db" /\ DbNext /\ UNCHANGED <<vars, i18nVars>>
     \/ part = "i18n" /\ I18nNext /\ UNCHANGED <<vars, dbVars>>

all == <<part, vars, dbVars, i18nVars>>

(* The SDK's notifiers run, and a caller that is in Init goes on with it.   *)
StartupSpec ==
  /\ StartupInit /\ [][StartupNext]_all
  /\ \A c \in Clients :
       /\ WF_all(part = "nacos" /\ Notify(c) /\ UNCHANGED <<part, dbVars, i18nVars>>)
       /\ WF_all(part = "nacos" /\ RunCallback(c) /\ UNCHANGED <<part, dbVars, i18nVars>>)
  /\ \A c \in Callers :
       WF_all(part = "i18n" /\ InitSteps(c) /\ UNCHANGED <<part, vars, dbVars>>)

-----------------------------------------------------------------------------
(* Each i18n.Init returns, the ones that wait for another's too, and from    *)
(* the first on the bundle and its language stay, and no message becomes     *)
(* unknown again.                                                            *)
BundleSettles == BundleStays /\ InitReturns
=============================================================================
