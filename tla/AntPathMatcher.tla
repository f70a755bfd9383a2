--------------------------- MODULE AntPathMatcher ---------------------------
(***************************************************************************)
(* Ant style path matching, ant-path-matcher.go: what Match and Matchs      *)
(* answer to concurrent callers who share the cache of compiled patterns,   *)
(* while ClearCache empties it key by key.                                  *)
(*                                                                         *)
(* Patterns and paths are sequences of characters.  A compiled pattern is   *)
(* the sequence of its tokens, a wildcard or a character each, and whether  *)
(* the end of the path is tied to its end.                                  *)
(***************************************************************************)
EXTENDS Naturals, Sequences

LOCAL INSTANCE SequencesExt

CONSTANTS
  Callers,    \* goroutines that call Match or Matchs
  Programs    \* for TLC: who of them calls, what they ask, whether more than
              \* once, and the calls of ClearCache: [callers, questions,
              \* again, clears] under a name each; a question is [patterns, path]

PatternsOf(q) == { q.patterns[i] : i \in DOMAIN q.patterns }

ASSUME AntPathAssumption == \A name \in DOMAIN Programs :
  LET p == Programs[name] IN
  /\ p.callers \subseteq Callers /\ p.again \in BOOLEAN
  /\ p.clears \in Nat
  /\ \A q \in p.questions : q.patterns \in Seq(PatternsOf(q)) \ { <<>> }

VARIABLES
  program,                \* the name of one of Programs
  patternCache,           \* from patterns to compiled ones
  antPc, question, left, answer,
                          \* of each caller; left: the patterns not yet tried
  clears, todo, stored    \* ClearCache: calls begun, keys of the running one
                          \* yet to delete, keys stored since it began
callVars == <<antPc, question, left, answer>>
clearVars == <<clears, todo, stored>>
antVars == <<program, patternCache, callVars, clearVars>>

-----------------------------------------------------------------------------
(* path.Clean: empty and "." segments go, ".." takes the one before along.   *)

Segments(s) ==
  FoldLeft(LAMBDA segs, c : IF c = "/" THEN Append(segs, <<>>)
                            ELSE [segs EXCEPT ![Len(segs)] = Append(@, c)],
           << <<>> >>, s)

CleanPath(s) ==
  LET rooted == s # <<>> /\ s[1] = "/"
      up == <<".", ".">>
      Keep(kept, seg) ==
        CASE seg \in { <<>>, <<".">> } -> kept
          [] seg = up /\ kept # <<>> /\ Last(kept) # up -> Front(kept)
          [] seg = up /\ kept = <<>> /\ rooted -> kept
          [] OTHER -> Append(kept, seg)
      kept == FoldLeft(Keep, <<>>, Segments(s))
      joined == FoldLeft(LAMBDA a, seg : a \o <<"/">> \o seg, <<>>, kept)
  IN IF kept = <<>> THEN IF rooted THEN <<"/">> ELSE <<".">>
     ELSE IF rooted THEN joined ELSE Tail(joined)

\* Only a double slash makes Match clean a string.
Cleaned(s) ==
  IF \E i \in 1..(Len(s) - 1) : s[i] = "/" /\ s[i + 1] = "/" THEN CleanPath(s) ELSE s

\* Two stars begin at i.
StarsAt(p, i) == i < Len(p) /\ p[i] = "*" /\ p[i + 1] = "*"

\* strings.ReplaceAll of "**" by the token "any".
PairStars(p) ==
  LET from[i \in 1..(Len(p) + 1)] ==
        IF i > Len(p) THEN <<>>
        ELSE IF StarsAt(p, i) THEN <<"any">> \o from[i + 2]
        ELSE <<p[i]>> \o from[i + 1]
  IN from[1]

(* A pattern that ends with a dollar gets no end of its own: the quoted      *)
(* dollar, which stands for itself, is taken for one.                        *)
convertPatternToRegex(p) ==
  [tokens |-> ReplaceAll(ReplaceAll(PairStars(p), "*", "segment"), "?", "one"),
   tied |-> p = <<>> \/ Last(p) # "$"]

\* Regexp.MatchString, of a pattern whose beginning is tied: a dot of Go's
\* takes no newline.
MatchString(regex, text) ==
  LET n == Len(regex.tokens)
      Takes(token, c) ==
        CASE token \in {"any", "one"} -> c # "newline"
          [] token = "segment" -> c # "/"
          [] OTHER -> c = token
      from[i \in 1..(n + 1), j \in 1..(Len(text) + 1)] ==
        IF i > n THEN ~regex.tied \/ j > Len(text)
        ELSE LET many == regex.tokens[i] \in {"any", "segment"}
             IN \/ many /\ from[i + 1, j]
                \/ /\ j <= Len(text)
                   /\ Takes(regex.tokens[i], text[j])
                   /\ from[IF many THEN i ELSE i + 1, j + 1]
  IN from[1, 1]

AntTypeOK ==
  /\ \A p \in DOMAIN patternCache : patternCache[p] = convertPatternToRegex(p)
  /\ antPc \in [Callers -> {"idle", "load", "compile", "done"}]
  /\ \A c \in Callers : antPc[c] # "idle" => question[c] \in Programs[program].questions
  /\ \A c \in Callers : antPc[c] \in {"load", "compile"} => left[c] # <<>>
  /\ answer \in [Callers -> BOOLEAN]
  /\ clears \in 0..Programs[program].clears

AntInit ==
  /\ program \in DOMAIN Programs
  /\ patternCache = <<>>
  /\ antPc = [c \in Callers |-> "idle"]
  /\ question = [c \in Callers |-> <<>>] /\ left = [c \in Callers |-> <<>>]
  /\ answer = [c \in Callers |-> FALSE]
  /\ clears = 0 /\ todo = {} /\ stored = {}

-----------------------------------------------------------------------------
(* Matchs tries its patterns in turn, up to the first that matches.  Those   *)
(* that need no compiled pattern are decided without the cache.              *)

Same(p, path) == p = path \/ Cleaned(p) = Cleaned(path)
HasWildcards(p) == \E i \in 1..Len(p) : p[i] \in {"*", "?"}

\* A pattern that differs from the path and has no wildcards does not match.
PassedOver(p, path) == ~Same(p, path) /\ ~HasWildcards(Cleaned(p))

\* Caller c goes on with the patterns ps: to the first it cannot pass over.
Try(c, ps, path) ==
  \E first \in 1..(Len(ps) + 1) :
    LET same == first <= Len(ps) /\ Same(ps[first], path)
    IN /\ \A j \in 1..(first - 1) : PassedOver(ps[j], path)
       /\ first <= Len(ps) => ~PassedOver(ps[first], path)
       /\ left' = [left EXCEPT ![c] = SubSeq(ps, first, Len(ps))]
       /\ antPc' = [antPc EXCEPT ![c] = IF first > Len(ps) \/ same THEN "done" ELSE "load"]
       /\ answer' = [answer EXCEPT ![c] = same]

Matched(c, regex) ==
  IF MatchString(regex, Cleaned(question[c].path))
  THEN /\ antPc' = [antPc EXCEPT ![c] = "done"]
       /\ answer' = [answer EXCEPT ![c] = TRUE]
       /\ UNCHANGED left
  ELSE Try(c, Tail(left[c]), question[c].path)

Matchs(c) ==
  /\ c \in Programs[program].callers
  /\ antPc[c] = "idle" \/ (antPc[c] = "done" /\ Programs[program].again)
  /\ \E q \in Programs[program].questions :
       /\ question' = [question EXCEPT ![c] = q]
       /\ Try(c, q.patterns, q.path)
  /\ UNCHANGED <<program, patternCache, clearVars>>

\* Mutant: the key is the path and not the pattern.
Key_Path(c) == Cleaned(question[c].path)

Key(c) == Cleaned(Head(left[c]))

Load(c) ==
  /\ antPc[c] = "load"
  /\ IF Key(c) \in DOMAIN patternCache
     THEN Matched(c, patternCache[Key(c)])
     ELSE antPc' = [antPc EXCEPT ![c] = "compile"] /\ UNCHANGED <<left, answer>>
  /\ UNCHANGED <<program, patternCache, question, clearVars>>

Store(c) ==
  LET regex == convertPatternToRegex(Cleaned(Head(left[c])))
  IN /\ antPc[c] = "compile"
     /\ patternCache' = [p \in DOMAIN patternCache \union {Key(c)} |->
                         IF p = Key(c) THEN regex ELSE patternCache[p]]
     /\ stored' = stored \union {Key(c)}
     /\ Matched(c, regex)
     /\ UNCHANGED <<program, question, clears, todo>>

-----------------------------------------------------------------------------
BeginClear ==
  /\ todo = {} /\ clears < Programs[program].clears
  /\ clears' = clears + 1
  /\ todo' = DOMAIN patternCache /\ stored' = {}
  /\ UNCHANGED <<program, patternCache, callVars>>

Delete ==
  \E p \in todo :
    /\ patternCache' = [q \in DOMAIN patternCache \ {p} |-> patternCache[q]]
    /\ todo' = todo \ {p}
    /\ UNCHANGED <<program, callVars, clears, stored>>

AntNext ==
  \/ \E c \in Callers : Matchs(c) \/ Load(c) \/ Store(c)
  \/ BeginClear \/ Delete

AntSpec == AntInit /\ [][AntNext]_antVars

-----------------------------------------------------------------------------
(* What a pattern means, character by character: "**" is any text, another   *)
(* "*" a text within a segment, "?" one character.                           *)
Denotes(p, text) ==
  LET from[i \in 1..(Len(p) + 1), j \in 1..(Len(text) + 1)] ==
        CASE i > Len(p) -> j > Len(text)
          [] StarsAt(p, i) ->
               \E k \in j..(Len(text) + 1) : from[i + 2, k]
          [] i <= Len(p) /\ ~StarsAt(p, i) /\ p[i] = "*" ->
               \E k \in j..(Len(text) + 1) :
                 "/" \notin { text[n] : n \in j..(k - 1) } /\ from[i + 1, k]
          [] i <= Len(p) /\ p[i] # "*" -> j <= Len(text) /\ p[i] \in {"?", text[j]} /\ from[i + 1, j + 1]
  IN from[1, 1]

(* What one caller alone decides about a pattern: the hypothesis of the       *)
(* theorem about AnswersRight, which TLC evaluates for every pattern of the   *)
(* programs.                                                                 *)
PatternsDecided ==
  \A name \in DOMAIN Programs : \A q \in Programs[name].questions :
    \A i \in 1..Len(q.patterns) :
      LET p == Cleaned(q.patterns[i])
          text == Cleaned(q.path)
      IN Denotes(p, text) <=>
           \/ Same(q.patterns[i], q.path)
           \/ HasWildcards(p) /\ MatchString(convertPatternToRegex(p), text)

(* Neither the short cuts before the cache, nor what other callers stored in *)
(* it, nor a ClearCache at any moment changes an answer: it is TRUE exactly  *)
(* when one of the patterns denotes the path, all of it.                     *)
AnswersMeant ==
  \A c \in Callers : antPc[c] = "done" =>
    (answer[c] <=> \E i \in 1..Len(question[c].patterns) :
                      Denotes(Cleaned(question[c].patterns[i]), Cleaned(question[c].path)))

(* When ClearCache has returned, nothing is cached but what callers have     *)
(* stored since it began.                                                    *)
ClearEmpties == clears > 0 /\ todo = {} => DOMAIN patternCache \subseteq stored

(* Match and Matchs answer what the patterns mean, whatever other callers    *)
(* and ClearCache do to the cache, and ClearCache empties it.                *)
AnswersRight == AntTypeOK /\ AnswersMeant /\ ClearEmpties

=============================================================================
