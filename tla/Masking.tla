------------------------------- MODULE Masking -------------------------------
(***************************************************************************)
(* Masking of log entries, log/sensitive.go: what sensitiveWriteCore.Write *)
(* does to one message or one string field, and DesensitizeQuery, while    *)
(* UpdateSensitiveConfig replaces the configuration without a lock.        *)
(*                                                                         *)
(* A text is a sequence of characters, of which those above 0 are the      *)
(* original's, told apart, and each of a class that the content patterns   *)
(* look at; Star is the mask character; Dot is one of the three of a       *)
(* truncated text.  A JSON value is its string leaves, each with the key it *)
(* has in its object, or an array around it; the walk over the nodes in     *)
(* between visits all of them.                                              *)
(***************************************************************************)
EXTENDS Integers, Sequences, FiniteSets

CONSTANTS
  Configs,     \* SensitiveConfigs: [fields, content, maxLength]
  Values,      \* what is logged: [kind, leaves, compact]
  Lower,       \* strings.ToLower, on the keys of Values
  MaxRepeat,   \* the largest count regexp accepts in {n,}: 1000
  MaxUpdates   \* bound on the updates that start during one write, for TLC

Parts == {"fields", "content", "maxLength"}

(* A value is a message, a query, a plain field or a field with a document;  *)
(* its characters are told apart.                                            *)
Parents == [message |-> {"none"}, query |-> {"query", "badPair"},
            plain |-> {"field"}, json |-> {"object", "array"}]

IsValue(v) ==
  /\ v.kind \in DOMAIN Parents /\ v.compact \in BOOLEAN
  /\ \A l \in DOMAIN v.leaves : LET t == v.leaves[l] IN
       /\ l.parent \in Parents[v.kind] /\ t \in Seq(Nat \ {0})
       /\ \A i, j \in DOMAIN t : t[i] = t[j] => i = j
  /\ v.kind = "plain" => \A l, k \in DOMAIN v.leaves : l = k

IsRules(rules) ==
  /\ rules \in Seq({ rules[i] : i \in DOMAIN rules })
  /\ \A i \in DOMAIN rules : rules[i].mask.prefix \in Nat /\ rules[i].mask.suffix \in Nat

ASSUME MaskingAssumption ==
  /\ \A c \in Configs :
       DOMAIN c = Parts /\ c.maxLength \in Int /\ IsRules(c.fields) /\ IsRules(c.content)
  /\ \A v \in Values : IsValue(v)
  /\ MaxRepeat \in Nat /\ MaxUpdates \in Nat

VARIABLES
  currentConfig,
  longStrRegexMux,     \* "free" or "held"
  upd,                 \* the goroutine in UpdateSensitiveConfig
  maskPc, value,           \* the goroutine that logs: where it is, what it was given
  maskText,                \* the leaves as masked so far
  todo, cur,           \* leaves still to visit, the query pair at hand
  seen,                \* history: what each part of currentConfig was meanwhile
  updates,             \* updates started meanwhile
  tooLong              \* history: a MaxLength above MaxRepeat was configured

updVars == <<longStrRegexMux, upd, updates, tooLong>>
logVars == <<maskPc, value, maskText, todo, cur>>
maskVars == <<currentConfig, updVars, logVars, seen>>

Star == 0
Dot == -1
Digits == 0..9
LetterX == 10 \* and x
Other == 11
Class(c) == IF c > 0 THEN c % 12 ELSE Other
Visible(t) == {i \in DOMAIN t : t[i] > 0}

-----------------------------------------------------------------------------
(* Masks *)

Strategies == {"replace", "border", "prefix", "suffix"}
Replace == [strategy |-> "replace", prefix |-> 0, suffix |-> 0]
Border(p, s) == [strategy |-> "border", prefix |-> p, suffix |-> s]
Unset == [strategy |-> "", prefix |-> 0, suffix |-> 0]   \* a nil Mask too

typePresets ==
  [mobile |-> Border(3, 4), idcard |-> Border(6, 4), bankcard |-> Border(4, 4),
   name |-> Border(1, 1), password |-> Replace,
   qq |-> [strategy |-> "prefix", prefix |-> 4, suffix |-> 0]]

\* A content pattern: the classes it takes at each place, digits but where
\* it says otherwise, and the least and the most it takes.
Pattern(min, max, classes) ==
  [min |-> min, max |-> max,
   at |-> [k \in 1..max |-> IF k \in DOMAIN classes THEN classes[k] ELSE Digits]]

\* 1[3-9]\d{9}, \d{17}[\dXx], \d{16,19} and [1-9]\d{4,10}.  Left out are
\* those that are no such row (email, ip, a rule's own) and creditcode's letters.
contentPattern ==
  [mobile |-> Pattern(11, 11, <<{1}, 3..9>>),
   idcard |-> Pattern(18, 18, [k \in {18} |-> Digits \cup {LetterX}]),
   bankcard |-> Pattern(16, 19, <<>>),
   qq |-> Pattern(5, 11, <<1..9>>)]

getMaskConfig(rule) ==
  IF rule.mask.strategy # "" THEN rule.mask
  ELSE IF rule.type \in DOMAIN typePresets THEN typePresets[rule.type] ELSE Replace

AtMost(a, b) == IF a <= b THEN a ELSE b
KeptPrefix(m, n) == IF m.strategy \in {"border", "prefix"} THEN AtMost(m.prefix, n) ELSE 0
KeptSuffix(m, n) ==
  IF m.strategy \in {"border", "suffix"} THEN AtMost(m.suffix, n - KeptPrefix(m, n)) ELSE 0

applyMask(t, m) ==
  LET n == Len(t) IN
  IF m.strategy \notin Strategies THEN t
  ELSE [i \in 1..n |-> IF i <= KeptPrefix(m, n) \/ i > n - KeptSuffix(m, n)
                       THEN t[i] ELSE Star]

\* Mutant: the key is compared as it is written.
RuleFor_AsWritten(key, rules) ==
  LET naming == {i \in DOMAIN rules : key \in rules[i].names}
  IN IF naming = {} THEN {}
     ELSE {getMaskConfig(rules[CHOOSE i \in naming : \A j \in naming : i <= j])}

\* findFieldMask: the first rule that names the key, in lower case; the
\* names in the rules are taken as they are.  A set of one mask, or none.
RuleFor(key, rules) ==
  LET naming == {i \in DOMAIN rules : Lower[key] \in rules[i].names}
  IN IF naming = {} THEN {}
     ELSE {getMaskConfig(rules[CHOOSE i \in naming : \A j \in naming : i <= j])}

MaskByField(key, t, rules) ==
  IF RuleFor(key, rules) = {} THEN t
  ELSE applyMask(t, CHOOSE m \in RuleFor(key, rules) : TRUE)

\* How many characters from i on a pattern can take as a match.
Matches(t, pattern, i) ==
  {k \in pattern.min..AtMost(pattern.max, Len(t) - i + 1) :
     \A j \in 1..k : Class(t[i + j - 1]) \in pattern.at[j]}
MatchLength(t, pattern, i) ==
  CHOOSE k \in Matches(t, pattern, i) : \A j \in Matches(t, pattern, i) : j <= k

\* ReplaceAllStringFunc: leftmost matches, each as long as can be.
ReplaceMatches(t, pattern, m) ==
  LET from[i \in 1..(Len(t) + 1)] ==
        IF i > Len(t) THEN <<>>
        ELSE IF Matches(t, pattern, i) = {} THEN <<t[i]>> \o from[i + 1]
        ELSE LET n == MatchLength(t, pattern, i)
             IN applyMask(SubSeq(t, i, i + n - 1), m) \o from[i + n]
  IN from[1]

ApplyRule(t, rule) ==
  IF rule.type \notin DOMAIN contentPattern THEN t
  ELSE ReplaceMatches(t, contentPattern[rule.type], getMaskConfig(rule))

\* Mutant: a text is given to the first rule only.
DesensitizeText_FirstOnly(t, rules) ==
  IF rules = <<>> THEN t ELSE ApplyRule(t, Head(rules))

DesensitizeText(t, rules) ==
  LET after[n \in 0..Len(rules)] ==
        IF n = 0 THEN t ELSE ApplyRule(after[n - 1], rules[n])
  IN after[Len(rules)]

Truncated(t, n) == IF Len(t) > n THEN SubSeq(t, 1, n - 3) \o <<Dot, Dot, Dot>> ELSE t

-----------------------------------------------------------------------------
(* UpdateSensitiveConfig.  The struct is copied over the one in use a word  *)
(* at a time; the model takes each of its parts as one word.  The caches of *)
(* compiled patterns, emptied next, are keyed by the pattern and cannot     *)
(* change a result.                                                         *)

Idle == [pc |-> "idle", next |-> currentConfig, left |-> {}]

StartUpdate(c) ==
  /\ upd.pc = "idle" /\ updates < MaxUpdates
  /\ upd' = [pc |-> "copy", next |-> c, left |-> Parts]
  /\ updates' = IF maskPc = "idle" THEN 0 ELSE updates + 1
  /\ tooLong' = (tooLong \/ c.maxLength > MaxRepeat)
  /\ UNCHANGED <<currentConfig, longStrRegexMux, logVars, seen>>

CopyPart(part) ==
  /\ part \in upd.left
  /\ currentConfig' = [currentConfig EXCEPT ![part] = upd.next[part]]
  /\ seen' = IF maskPc = "idle" THEN seen ELSE [seen EXCEPT ![part] = @ \cup {upd.next[part]}]
  /\ upd' = [upd EXCEPT !.left = @ \ {part}]
  /\ UNCHANGED <<longStrRegexMux, updates, tooLong, logVars>>

Copied ==
  /\ upd.pc = "copy" /\ upd.left = {}
  /\ upd' = IF upd.next.maxLength > 0 THEN [upd EXCEPT !.pc = "compile"] ELSE Idle
  /\ UNCHANGED <<currentConfig, longStrRegexMux, updates, tooLong, logVars, seen>>

\* Mutant: the mutex is not released.
CompileLongStr_Locked ==
  /\ upd.pc = "compile" /\ longStrRegexMux = "free"
  /\ longStrRegexMux' = "held"
  /\ upd' = Idle
  /\ UNCHANGED <<currentConfig, updates, tooLong, logVars, seen>>

\* regexp.MustCompile panics on a count that is too large, and the mutex is
\* not released by a defer.
CompileLongStr ==
  /\ upd.pc = "compile" /\ longStrRegexMux = "free"
  /\ longStrRegexMux' = IF upd.next.maxLength > MaxRepeat THEN "held" ELSE "free"
  /\ upd' = Idle
  /\ UNCHANGED <<currentConfig, updates, tooLong, logVars, seen>>

-----------------------------------------------------------------------------
(* One text is logged (the state of the goroutine that does).              *)

Begin(v) ==
  /\ maskPc = "idle"
  /\ maskPc' = CASE v.kind = "message" -> "content"
             [] v.kind = "query"   -> "query"
             [] OTHER              -> "field"
  /\ value' = v /\ maskText' = v.leaves
  /\ seen' = [part \in Parts |-> {currentConfig[part]}]
  /\ updates' = 0
  /\ UNCHANGED <<currentConfig, longStrRegexMux, upd, tooLong, todo, cur>>

Goto(from, to) == maskPc = from /\ maskPc' = to
Logging(changed) == UNCHANGED <<changed, currentConfig, updVars, seen, value>>

MaskLeaf(l) == [maskText EXCEPT ![l] = MaskByField(l.key, @, currentConfig.fields)]

\* desensitizeFieldValue: a field that a rule names is masked as a whole (the
\* JSON values here are fields that no rule names).
FindField ==
  /\ IF \E l \in DOMAIN maskText : l.parent = "field" /\ RuleFor(l.key, currentConfig.fields) # {}
     THEN /\ Goto("field", "done")
          /\ maskText' = [l \in DOMAIN maskText |-> MaskByField(l.key, maskText[l], currentConfig.fields)]
     ELSE Goto("field", "json") /\ UNCHANGED maskText
  /\ Logging(<<todo, cur>>)

\* looksLikeJSON, then desensitizeJSON, which may find nothing to do.
LooksLikeJSON ==
  /\ Goto("json", IF value.kind = "json" /\ currentConfig.fields # <<>>
                  THEN "parse" ELSE "content")
  /\ Logging(<<maskText, todo, cur>>)

ParseJSON ==
  /\ IF /\ currentConfig.fields = <<>> /\ currentConfig.content = <<>>
        /\ currentConfig.maxLength <= 0
     THEN Goto("parse", "content") /\ UNCHANGED todo
     ELSE Goto("parse", "walk") /\ todo' = DOMAIN maskText
  /\ Logging(<<maskText, cur>>)

\* walkAndMask, in the order of Go's maps: none.  A string in an array has no
\* key and is left alone.
WalkLeaf(l) ==
  /\ maskPc = "walk" /\ l \in todo
  /\ todo' = todo \ {l}
  /\ maskText' = IF l.parent = "object" THEN MaskLeaf(l) ELSE maskText
  /\ Logging(<<maskPc, cur>>)

\* MaxLength is looked at, and read again for the call of walkAndTruncate.
Walked ==
  /\ todo = {}
  /\ Goto("walk", IF currentConfig.maxLength > 0 THEN "truncate" ELSE "compare")
  /\ Logging(<<maskText, todo, cur>>)

\* A negative slice bound panics.
Truncate ==
  /\ LET n == currentConfig.maxLength
         long == {l \in DOMAIN maskText : l.parent = "object" /\ Len(maskText[l]) > n}
     IN IF long # {} /\ n < 3
        THEN Goto("truncate", "panicked") /\ UNCHANGED maskText
        ELSE /\ Goto("truncate", "compare")
             /\ maskText' = [l \in DOMAIN maskText |-> IF l \in long THEN Truncated(maskText[l], n) ELSE maskText[l]]
  /\ Logging(<<todo, cur>>)

\* The content rules get a JSON value only if it came out as it went in, which
\* it does not if it was not written the way json.Marshal writes.
Compare ==
  /\ Goto("compare", IF maskText # value.leaves \/ ~value.compact THEN "done" ELSE "content")
  /\ Logging(<<maskText, todo, cur>>)

Content ==
  /\ Goto("content", "done")
  /\ maskText' = [l \in DOMAIN maskText |-> DesensitizeText(maskText[l], currentConfig.content)]
  /\ Logging(<<todo, cur>>)

-----------------------------------------------------------------------------
(* DesensitizeQuery, pair by pair *)

StartQuery ==
  /\ IF currentConfig.fields = <<>>
     THEN Goto("query", "done") /\ UNCHANGED todo
     ELSE Goto("query", "pairs") /\ todo' = DOMAIN maskText
  /\ Logging(<<maskText, cur>>)

\* A pair with more than one "=" is not written at all.
NextPair(l) ==
  /\ maskPc = "pairs" /\ l \in todo
  /\ todo' = todo \ {l}
  /\ IF l.parent = "badPair"
     THEN /\ maskText' = [x \in DOMAIN maskText \ {l} |-> maskText[x]]
          /\ UNCHANGED <<maskPc, cur>>
     ELSE /\ maskPc' = IF currentConfig.maxLength > 0 THEN "long" ELSE "mask"
          /\ cur' = {l} /\ UNCHANGED maskText
  /\ Logging(<<>>)

LongPair ==
  /\ Goto("long", IF \E l \in cur : Len(maskText[l]) > currentConfig.maxLength
                  THEN "cut" ELSE "mask")
  /\ Logging(<<maskText, todo, cur>>)

\* MaxLength is read once more: a bound that has become negative panics, one
\* longer than the text does, or finds zeroes after its end.
CutPair ==
  /\ LET n == currentConfig.maxLength IN
     \E l \in cur :
       \/ /\ n < 3 \/ n - 3 > Len(maskText[l])
          /\ Goto("cut", "panicked") /\ UNCHANGED maskText
       \/ /\ n >= 3
          /\ Goto("cut", "mask")
          /\ maskText' = [maskText EXCEPT
               ![l] = SubSeq(@, 1, AtMost(n - 3, Len(@))) \o <<Dot, Dot, Dot>>]
  /\ Logging(<<todo, cur>>)

MaskPair ==
  /\ Goto("mask", "pairs")
  /\ \E l \in cur : maskText' = MaskLeaf(l)
  /\ cur' = {}
  /\ Logging(<<todo>>)

PairsDone == todo = {} /\ Goto("pairs", "done") /\ Logging(<<maskText, todo, cur>>)

\* The text is written; the history starts anew.
Written ==
  /\ maskPc \in {"done", "panicked"} /\ maskPc' = "idle"
  /\ maskText' = value.leaves /\ todo' = {} /\ cur' = {}
  /\ seen' = [part \in Parts |-> {}] /\ updates' = 0
  /\ UNCHANGED <<currentConfig, longStrRegexMux, upd, tooLong, value>>

-----------------------------------------------------------------------------
NothingLogged == [kind |-> "none", leaves |-> <<>>, compact |-> TRUE]

MaskInit ==
  /\ currentConfig \in Configs
  /\ longStrRegexMux = "free" /\ tooLong = FALSE /\ updates = 0
  /\ upd = Idle
  /\ maskPc = "idle" /\ value = NothingLogged /\ maskText = NothingLogged.leaves
  /\ todo = {} /\ cur = {}
  /\ seen = [part \in Parts |-> {}]

LogStep ==
  \/ FindField \/ LooksLikeJSON \/ ParseJSON
  \/ (\E l \in todo : WalkLeaf(l)) \/ Walked \/ Truncate \/ Compare \/ Content
  \/ StartQuery \/ (\E l \in todo : NextPair(l))
  \/ LongPair \/ CutPair \/ MaskPair \/ PairsDone \/ Written

UpdateStep == (\E part \in Parts : CopyPart(part)) \/ Copied \/ CompileLongStr

MaskNext ==
  \/ \E c \in Configs : StartUpdate(c)
  \/ \E v \in Values : Begin(v)
  \/ UpdateStep \/ LogStep

MaskSpec == MaskInit /\ [][MaskNext]_maskVars

-----------------------------------------------------------------------------
MaskTypeOK ==
  /\ \A part \in Parts : currentConfig[part] \in {c[part] : c \in Configs}
  /\ longStrRegexMux \in {"free", "held"} /\ tooLong \in BOOLEAN
  /\ upd.pc \in {"idle", "copy", "compile"} /\ upd.left \subseteq Parts
  /\ updates \in 0..MaxUpdates
  /\ maskPc \in {"idle", "field", "json", "parse", "walk", "truncate", "compare", "content",
             "query", "pairs", "long", "cut", "mask", "done", "panicked"}
  /\ value \in Values \cup {NothingLogged}
  /\ \A l \in DOMAIN maskText :
       l \in DOMAIN value.leaves /\ Visible(maskText[l]) \subseteq 1..Len(value.leaves[l])
  /\ todo \subseteq DOMAIN value.leaves /\ cur \subseteq DOMAIN value.leaves

\* The rules that are meant for a value: one with a key, in any case.
NamingRules(l, rules) ==
  {i \in DOMAIN rules : l.parent \in {"field", "object", "query"}
                           /\ Lower[l.key] \in rules[i].names}
NamedBy(l, rules) == NamingRules(l, rules) # {}

(* A value whose key a rule names, in whatever field rules were in force     *)
(* while it was logged, shows no more characters than one of their masks     *)
(* keeps, unless the mask has no strategy that there is: however the         *)
(* configuration is replaced meanwhile, at any depth of a document, cut or   *)
(* not.                                                                      *)
MasksHide ==
  maskPc = "done" =>
    \A l \in DOMAIN maskText :
      (\A rules \in seen.fields : NamedBy(l, rules)) =>
        \E rules \in seen.fields : \E i \in NamingRules(l, rules) :
          LET n == Len(value.leaves[l])
              m == getMaskConfig(rules[i])
          IN \/ m.strategy \notin Strategies
             \/ Cardinality(Visible(maskText[l])) <= KeptPrefix(m, n) + KeptSuffix(m, n)

NamedAreHidden == MaskTypeOK /\ MasksHide

(* The runs, [from, to], of the characters that a pattern takes somewhere    *)
(* (digits, and X for idcard) that nothing extends.                          *)
Taken(pattern) == UNION {pattern.at[k] : k \in 1..pattern.max}
Runs(t, pattern) ==
  {r \in (DOMAIN t) \X (DOMAIN t) :
     /\ r[1] <= r[2] /\ \A i \in r[1]..r[2] : Class(t[i]) \in Taken(pattern)
     /\ r[1] - 1 \in DOMAIN t => Class(t[r[1] - 1]) \notin Taken(pattern)
     /\ r[2] + 1 \in DOMAIN t => Class(t[r[2] + 1]) \notin Taken(pattern)}

(* Those of them that a rule's pattern matches in.                           *)
Covered(rule, t) ==
  IF rule.type \notin DOMAIN contentPattern THEN {}
  ELSE LET pattern == contentPattern[rule.type]
       IN {r \in Runs(t, pattern) : \E i \in r[1]..r[2] : Matches(t, pattern, i) # {}}
Hides(rule) ==
  LET m == getMaskConfig(rule)
  IN m.strategy \in Strategies /\ m.prefix + m.suffix < contentPattern[rule.type].min

(* No run of digits in which a content rule's pattern matches (a row of 18   *)
(* digits, the last perhaps an X; one that begins as a mobile number does)   *)
(* can be read whole in a message, or in a plain field that is not masked as *)
(* a whole, whatever the other rules did to it first, unless that rule's     *)
(* mask keeps as much as it matches.                                         *)
RunsAreHidden ==
  maskPc = "done" /\ value.kind \in {"message", "plain"} /\ Cardinality(seen.content) = 1 =>
    \A l \in DOMAIN maskText, rules \in seen.content :
      (\A fields \in seen.fields : ~NamedBy(l, fields)) =>
        \A i \in DOMAIN rules : \A r \in Covered(rules[i], value.leaves[l]) :
          Hides(rules[i]) =>
            \E k \in r[1]..r[2] :
              value.leaves[l][k] \notin {maskText[l][j] : j \in DOMAIN maskText[l]}

(* What no rule concerns is logged as it came, a row of digits too that is   *)
(* none of the numbers: masking one value of a document or query does        *)
(* nothing to the others.                                                    *)
OthersKept ==
  maskPc = "done" =>
    \A l \in DOMAIN maskText :
      /\ \A rules \in seen.fields : ~NamedBy(l, rules)
      /\ \A rules \in seen.content : \A i \in DOMAIN rules : Covered(rules[i], value.leaves[l]) = {}
      /\ \A n \in seen.maxLength : n <= 0 \/ n >= Len(value.leaves[l])
      /\ Cardinality(seen.maxLength) = 1
      => maskText[l] = value.leaves[l]

ContentIsHidden == RunsAreHidden /\ OthersKept

(* Logging a value panics only over a MaxLength of 1 or 2, or one that      *)
(* changed under the goroutine's eyes: MaxLength is read again after it was *)
(* compared.                                                                *)
PanicsOverLength ==
  maskPc = "panicked" =>
    (\E n \in seen.maxLength : n \in {1, 2}) \/ Cardinality(seen.maxLength) > 1

(* An update ends, unless a MaxLength that regexp does not take was ever     *)
(* configured: that one panics with the mutex held, and the next blocks.     *)
UpdatesEnd ==
  []PanicsOverLength /\ (upd.pc # "idle" ~> upd.pc = "idle" \/ tooLong)

=============================================================================
