------------------------------- MODULE Secrets -------------------------------
(***************************************************************************)
(* A secret on its way into a configuration: a command line makes the       *)
(* program print it encrypted (system-service.go, Run), somebody puts what  *)
(* it printed into the configuration, and ReadConfig or UpdateConfig turns  *)
(* the text into the one that is parsed: one pass for each cipher with a    *)
(* key, then the environment's variables.                                   *)
(*                                                                         *)
(* A text is a sequence of parts:                                           *)
(*   word     anything without a meaning here; a key is one, of its size    *)
(*   var      "${name}"                                                     *)
(*   open     "${name:", the default value goes to the next "}"             *)
(*   close    "}"                                                           *)
(*   cut      "${name", of a var whose "}" ended a default value            *)
(*   DES3     "ENCDES3(...)", a text encrypted under the named key          *)
(*   SM4      "ENCSM4(...)"                                                 *)
(*   cipher   what stands between the parentheses                           *)
(***************************************************************************)
EXTENDS Integers, Sequences, SequencesExt, TLC

CONSTANTS
  Secrets,   \* the texts somebody encrypts
  Contexts,  \* pairs of texts: what stands before and after it in the file
  Settings,  \* what the environment gives a variable, nothing for unset
  Commands   \* the command lines

Types == {"DES3", "SM4"}
KeySize == [DES3 |-> 24, SM4 |-> 16, MIX |-> 32]
Part(kind, name, inner) == [kind |-> kind, name |-> name, inner |-> inner]
Word(name) == Part("word", name, <<>>)

\* A text, whatever its parts.
IsList(t) == t \in Seq({t[i] : i \in DOMAIN t})

(* Texts are sequences; the environment has every variable that a            *)
(* configuration names, with nothing for one that is unset; a command line   *)
(* asks for no other keys than those Run makes.                              *)
ASSUME SecretsAssumption ==
  /\ \A s \in Secrets : IsList(s)
  /\ \A c \in Contexts : \A i \in {1, 2} :
       /\ IsList(c[i])
       /\ \A j \in DOMAIN c[i] :
            /\ IsList(c[i][j].inner)
            /\ c[i][j].kind \in {"var", "open"} => \A e \in Settings : c[i][j].name \in DOMAIN e
  /\ \A e \in Settings : \A name \in DOMAIN e : IsList(e[name])
  /\ \A c \in Commands : c.gen \subseteq DOMAIN KeySize

VARIABLES
  secretPc,
  args,     \* the command line
  secret,   \* what is encrypted: -encValue, or a key that was made
  ownKeys,  \* of the command: for each cipher a key, or "" for none
  keys,     \* of the program that reads the configuration
  env,
  printed,  \* what the command printed: a label and a text each
  around,   \* what stands before and after it in the configuration
  configText      \* of the configuration
secretVars == <<secretPc, args, secret, ownKeys, keys, env, printed, around, configText>>

OwnKeys == [Types -> {"", "k1", "k2"}]

SecretInit ==
  /\ secretPc = "command"
  /\ args \in Commands /\ secret \in Secrets
  /\ ownKeys \in OwnKeys /\ keys \in OwnKeys /\ env \in Settings
  /\ printed = {} /\ around = << <<>>, <<>> >> /\ configText = <<>>

-----------------------------------------------------------------------------
(* What Run does for a command line: the first of its questions that is      *)
(* answered, the service when none is. Half a pair is only complained of.    *)
Chosen ==
  IF args.version THEN "version"
  ELSE IF args.regex # "none" \/ args.antPath # "none" THEN "match"
  ELSE IF args.gen # {} THEN "keys"
  ELSE IF args.encType # "" /\ args.hasValue THEN "value"
  ELSE "service"

\* One key is made, whatever the number of labels it is printed under.
NewKeySize == IF "SM4" \in args.gen THEN 16 ELSE IF "MIX" \in args.gen THEN 32 ELSE 24

CipherOf == IF args.encType = "sm4" THEN "SM4" ELSE "DES3"

\* Mutant: the wrapper is the one of DES3, whatever encrypted the text.
Wrapped_Labelled(plain) == <<Part("DES3", ownKeys[CipherOf], plain)>>

Wrapped(plain) == <<Part(CipherOf, ownKeys[CipherOf], plain)>>

(* Nothing is printed without a key to encrypt under.                        *)
Run ==
  /\ secretPc = "command"
  /\ \/ /\ Chosen \in {"keys", "value"} /\ ownKeys[CipherOf] # ""
        /\ secretPc' = "write"
        /\ secret' = IF Chosen = "keys" THEN <<Word(ToString(NewKeySize))>> ELSE secret
        /\ printed' = {[label |-> l, text |-> Wrapped(secret')] :
                         l \in IF Chosen = "keys" THEN args.gen ELSE {"value"}}
     \/ /\ Chosen \notin {"keys", "value"} \/ ownKeys[CipherOf] = ""
        /\ secretPc' = "over"
        /\ UNCHANGED <<secret, printed>>
  /\ UNCHANGED <<args, ownKeys, keys, env, around, configText>>

\* Somebody puts something that was printed into the configuration.
Write ==
  /\ secretPc = "write"
  /\ secretPc' = "DES3"
  /\ around' \in Contexts
  /\ \E p \in printed : configText' = around'[1] \o p.text \o around'[2]
  /\ UNCHANGED <<args, secret, ownKeys, keys, env, printed>>

-----------------------------------------------------------------------------
(* A part as the pass of a cipher leaves it. Under another key decrypting    *)
(* fails, or by chance does not; what fails stays without its wrapper.       *)
Unwrapped(part, type, key, chance) ==
  IF part.kind # type THEN <<part>>
  ELSE IF part.name = key THEN part.inner
  ELSE IF chance = "error" THEN <<Part("cipher", part.name, part.inner)>> ELSE <<Word("?")>>

(* A cipher without a key has no pass.                                       *)
DecryptEncryptedContent(type) ==
  /\ secretPc = type
  /\ secretPc' = IF type = "DES3" THEN "SM4" ELSE "expand"
  /\ IF keys[type] = "" THEN UNCHANGED configText
     ELSE \E chance \in {"error", "other"} :
            configText' = FlattenSeq([i \in 1..Len(configText) |-> Unwrapped(configText[i], type, keys[type], chance)])
  /\ UNCHANGED <<args, secret, ownKeys, keys, env, printed, around>>

Setting(e, name, default) == IF e[name] = <<>> THEN default ELSE e[name]

\* What may close a default value: the "}" of a variable inside of it too.
FirstClose(t, i) ==
  LET ends == {j \in (i + 1)..Len(t) : t[j].kind \in {"close", "var"}}
  IN IF ends = {} THEN 0 ELSE CHOOSE j \in ends : \A k \in ends : j <= k

\* The default value that ends at j, with "${name" of a variable cut there.
Default(t, i, j) ==
  SubSeq(t, i + 1, j - 1) \o IF t[j].kind = "var" THEN <<Part("cut", t[j].name, <<>>)>> ELSE <<>>

(* The expression of ExpandEnv wants a default value that is not empty; what *)
(* it puts in, from the environment e, is not looked at again.               *)
ExpandEnv(e, t) ==
  LET from[i \in 1..(Len(t) + 1)] ==
        IF i > Len(t) THEN <<>>
        ELSE IF t[i].kind = "var" THEN Setting(e, t[i].name, <<>>) \o from[i + 1]
        ELSE LET j == FirstClose(t, i)
             IN IF t[i].kind = "open" /\ j > 0 /\ Default(t, i, j) # <<>>
                THEN Setting(e, t[i].name, Default(t, i, j)) \o from[j + 1]
                ELSE <<t[i]>> \o from[i + 1]
  IN from[1]

Expand ==
  /\ secretPc = "expand"
  /\ secretPc' = "read"
  /\ configText' = ExpandEnv(env, configText)
  /\ UNCHANGED <<args, secret, ownKeys, keys, env, printed, around>>

SecretNext == Run \/ Write \/ (\E type \in Types : DecryptEncryptedContent(type)) \/ Expand

SecretSpec == SecretInit /\ [][SecretNext]_secretVars

-----------------------------------------------------------------------------
Plain(t) == \A i \in 1..Len(t) : t[i].kind = "word"

\* No other secret is in the configuration.
Alone == \A i \in {1, 2} : \A j \in 1..Len(around[i]) : around[i][j].kind \notin Types

(* What the command prints is, once in the configuration, the secret again   *)
(* for a program with the same keys, alone or as a variable's default: the   *)
(* configuration reads as if the secret had been written into it.            *)
SecretReturns ==
  secretPc = "read" /\ keys = ownKeys /\ Plain(secret) /\ Alone
    => configText = ExpandEnv(env, around[1] \o secret \o around[2])

\* Nothing brings a wrapper that an earlier step has to take away: neither
\* the environment, nor a wrapper around one.
NoneNested ==
  /\ Plain(secret) /\ \A v \in DOMAIN env : Plain(env[v])
  /\ \A i \in {1, 2} : \A j \in 1..Len(around[i]) : Plain(around[i][j].inner)

(* No wrapper reaches the parser: what cannot be decrypted has lost it, for  *)
(* each cipher the program has a key of.                                     *)
NoWrapperLeft ==
  secretPc = "read" /\ NoneNested
    => \A i \in 1..Len(configText) : configText[i].kind \in Types => keys[configText[i].kind] = ""

(* A key that is printed for a cipher has the size of the cipher's keys: for *)
(* each command line with one of the flags.                                  *)
KeysFit == \A p \in printed :
  p.label # "value" /\ args.gen = {p.label} => p.text[1].inner = <<Word(ToString(KeySize[p.label]))>>

(* A secret that the command line encrypted is back when the configuration   *)
(* is read, no wrapper of it is left, and a key it made has the right size.  *)
SecretComesBack == SecretReturns /\ NoWrapperLeft /\ KeysFit

=============================================================================
