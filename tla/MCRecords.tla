------------------------------ MODULE MCRecords ------------------------------
(***************************************************************************)
(* Small instances, for TLC, of the parts that look at what passes through *)
(* them: SqlLog at statements, GinLogger at requests and AntPathMatcher at *)
(* paths.  A behaviour is one of one of them, and the others are at rest.  *)
(***************************************************************************)
EXTENDS SqlLog, GinLogger, AntPathMatcher

LOCAL INSTANCE SequencesExt

VARIABLE part  \* "statements", "requests" or "paths"

-----------------------------------------------------------------------------
(* GinLogger: requests of every method, rules of every type, one of them     *)
(* without types.                                                            *)
Request(m, b, p, ip, s, g, h, id) ==
  [method |-> m, body |-> b, path |-> p, ip |-> ip, clientIp |-> "ip2", session |-> s,
   gateway |-> g, header |-> h, id |-> id]

SomeRequests ==
  { Request("GET", <<>>, "/a", "", "none", FALSE, "", ""),
    Request("POST", <<1, 2>>, "/a", "ip1", "u1", FALSE, "", "id"),
    Request("POST", <<1>>, "/b", "", "garbled", TRUE, "h", "id"),
    Request("POST", <<>>, "/b", "", "u2", FALSE, "h", ""),
    Request("multipart", <<1>>, "/a", "", "u2", FALSE, "", "") }

Rule(urls, types) == [urls |-> urls, types |-> types]
Item(t, data) == [type |-> t, data |-> data]
Config(e, h, rules) == [enabled |-> e, handler |-> h, rules |-> rules]

SomeConfigs ==
  { Config(FALSE, TRUE, {}), Config(TRUE, FALSE, {}), Config(TRUE, TRUE, {}),
    Config(TRUE, TRUE, {Rule({"/b"}, {})}),
    Config(TRUE, TRUE, {Rule({"/a"}, {Item("ip", {"ip1"}), Item("gateway", {})}),
                  Rule({"/a", "/b"}, {Item("user", {"u2"})})}),
    Config(TRUE, TRUE, {Rule({"/b"}, {Item("header", {"h"}), Item("user", {"", "u1"})})}) }

-----------------------------------------------------------------------------
(* AntPathMatcher: every short pattern against every short path, longer ones *)
(* for what needs four characters; and a few of both, patterns of one key    *)
(* and lists of them, for callers who share the cache.                       *)
MatchOf(ps, paths) == { [patterns |-> ps, path |-> t] : t \in paths }
Every(patterns, paths) == UNION { MatchOf(<<p>>, paths) : p \in patterns }

ShortQuestions ==
  Every(BoundedSeq({"/", "*", "?", "a"}, 3)
          \union { <<"/", "*", "*", "/", "a">>, <<"*", "*", "*", "a">>, <<"a", "*", "/", "*", "*">>,
                   <<"/", "/", "*", "/", "a">>, <<"a", "/", "/", ".", ".", "/", "*">>,
                   <<"*", "/", ".", "/", "/", "a", "/">>, <<"*", "$", "a">>, <<"/", "/", ".", ".", "?">> },
        BoundedSeq({"/", "a", "b"}, 3)
          \union { <<"/", "a", "/", "/", "a">>, <<"/", "b", "/", "b", "/", "a">>, <<"a", "b", "/", "b", "/", "a">>,
                   <<"/", "/", ".", ".", "/", "a">>, <<"a", "/", "/", ".", ".", "/", ".", ".">>,
                   <<"b", "/", "/", ".", ".", "/", "a", "/", "b">>, <<"a", "$", "a">> })

SharedQuestions ==
  LET paths == { <<"/", "a", "/", "b">>, <<"b">> }
      star == <<"/", "*">>
  IN Every({ star, <<"/", "/", "*">> }, paths)
       \union UNION { MatchOf(ps, paths) : ps \in { << <<"b", "?">>, <<"/", "*", "*">> >>,
                                                    << <<"b">>, star, <<"b", "?">> >> } }

SomePrograms ==
  [ short |-> [callers |-> {"c1"}, questions |-> ShortQuestions, again |-> FALSE, clears |-> 0],
    shared |-> [callers |-> {"c1", "c2"}, questions |-> SharedQuestions, again |-> TRUE, clears |-> 1],
    none |-> [callers |-> {}, questions |-> {}, again |-> FALSE, clears |-> 0] ]

-----------------------------------------------------------------------------
NoStatements == Init /\ features = {} /\ debug = FALSE
NoRequests ==
  GinInit /\ req = Request("GET", <<>>, "/a", "", "none", FALSE, "", "")
           /\ config = Config(FALSE, TRUE, {}) /\ recovery = "inside"
NoPaths == AntInit /\ program = "none"

RecordsInit ==
  \/ part = "statements" /\ Init /\ NoRequests /\ NoPaths
  \/ part = "requests" /\ NoStatements /\ GinInit /\ NoPaths
  \/ part = "paths" /\ NoStatements /\ NoRequests /\ AntInit /\ program # "none"

RecordsNext ==
  /\ UNCHANGED part
  /\ \/ part = "statements" /\ Next /\ UNCHANGED <<ginVars, antVars>>
     \/ part = "requests" /\ GinNext /\ UNCHANGED <<vars, antVars>>
     \/ part = "paths" /\ AntNext /\ UNCHANGED <<vars, ginVars>>

RecordsSpec == RecordsInit /\ [][RecordsNext]_<<part, vars, ginVars, antVars>>

(* Decided alone, every pattern of the programs means what it denotes.        *)
ASSUME PatternsDecided

=============================================================================
