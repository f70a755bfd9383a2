------------------------------- MODULE Signing -------------------------------
(***************************************************************************)
(* utils.go, GetBody and GetSignMap: the body of a request is read for its  *)
(* signature and put back for the handler, and the map that is signed takes *)
(* the body's values under their paths, or those of its first level.        *)
(*                                                                         *)
(* A body is a table of nodes: node 0 is the whole, each other one is in a  *)
(* container under a key. A key is a sequence of words, for one may hold    *)
(* the separators that paths are made with; an array's keys are "[0]",      *)
(* "[1]", ... A value is the sequence of the nodes it is joined from.       *)
(***************************************************************************)
EXTENDS Integers, Sequences, FiniteSetsExt, SequencesExt

CONSTANT Bodies

NodeKinds == {"object", "array", "value", "null", "text"}

\* Nodes are numbered as they come, a container before what is in it.
IsTree(b) ==
  /\ IsFiniteSet(DOMAIN b) /\ DOMAIN b \subseteq Nat
  /\ 0 \in DOMAIN b /\ b[0].in = 0
  /\ \A n \in DOMAIN b : /\ DOMAIN b[n] = {"in", "key", "kind", "value"}
                          /\ b[n].kind \in NodeKinds
                          /\ b[n].key \in Seq({b[n].key[i] : i \in DOMAIN b[n].key})
                          /\ n # 0 => /\ b[n].in \in DOMAIN b /\ b[n].in < n
                                      /\ b[b[n].in].kind \in {"object", "array"}

ASSUME BodiesAssumption == \A b \in Bodies :
  IsTree(b) /\ \A n \in DOMAIN b : b[n].kind = "value" => b[n].value = <<n>>

VARIABLES
  signPc,
  sent,      \* the body of the request
  mediaType, \* "json", "form", or another
  signType,  \* "all", or another
  unread,    \* what the next reader of the request's body will find
  err,       \* of GetBody
  body,      \* what GetBody returned: a body, or nothing
  frames,    \* the calls of getSignAllMap that have not returned, the latest first
  signMap,   \* from paths to values
  handled    \* what the handler found in the body
requestVars == <<sent, mediaType, signType>>
signVars == <<signPc, requestVars, unread, err, body, frames, signMap, handled>>

\* The paths are sequences of words too: no path yet, and no entry yet.
NoPath == <<>>
NoEntries == <<>>
NoBody == <<>>

Children(b, n) == {m \in DOMAIN b : m # 0 /\ b[m].in = n}

\* A form of plain fields: what url.ParseQuery can be given.
IsForm(b) == b[0].kind = "object" /\ \A n \in Children(b, 0) : b[n].kind = "value"
             /\ Children(b, 0) = DOMAIN b \ {0}

\* No object has a key twice: of JSON, only such bodies are sent here.
DistinctKeys(b) ==
  \A m, n \in DOMAIN b \ {0} : b[m].in = b[n].in /\ b[m].key = b[n].key => m = n

SignInit ==
  /\ signPc = "begin"
  /\ sent \in Bodies /\ mediaType \in {"json", "form", "other"} /\ signType \in {"all", "first"}
  /\ mediaType = "form" => IsForm(sent)
  /\ mediaType = "json" => DistinctKeys(sent)
  /\ unread = "whole" /\ err = "none"
  /\ body = NoBody /\ frames = <<>> /\ signMap = NoEntries /\ handled = "none"

-----------------------------------------------------------------------------
(* The values of a form's field that occurs more than once are joined, as   *)
(* they came in.                                                             *)
Joined(b, key) ==
  LET same == {n \in Children(b, 0) : b[n].key = key}
  IN CHOOSE s \in [1..Cardinality(same) -> same] :
       ToSet(s) = same /\ \A i, j \in DOMAIN s : i < j => s[i] < s[j]

(* The form as JSON: one entry for each field.                               *)
FormMap(b) ==
  LET first == {n \in Children(b, 0) : ~ \E m \in Children(b, 0) : m < n /\ b[m].key = b[n].key}
  IN [n \in first \cup {0} |->
        IF n = 0 THEN b[0] ELSE [b[n] EXCEPT !.value = Joined(b, b[n].key)]]

ReadBody(b) == unread' = "whole" /\ err' = "none" /\ body' = b

\* The connection may end before the body does, and a form may be no form.
GetBody ==
  /\ signPc = "begin"
  /\ signPc' = "sign"
  /\ \/ mediaType = "json" /\ ReadBody(sent)
     \/ mediaType = "form" /\ ReadBody(FormMap(sent))
     \/ mediaType = "form" /\ err' = "parse" /\ UNCHANGED <<unread, body>>
     \/ mediaType # "other" /\ err' = "read" /\ unread' = "rest" /\ UNCHANGED body
     \/ mediaType = "other" /\ UNCHANGED <<unread, err, body>>
  /\ UNCHANGED <<requestVars, frames, signMap, handled>>

-----------------------------------------------------------------------------
Call(path, n) == [path |-> path, node |-> n, left |-> Children(body, n)]

(* GetSignMap: a body that is no JSON object has no entries. The first level *)
(* takes its arrays and objects too, as they are printed.                    *)
FirstLevel == [k \in {body[n].key : n \in Children(body, 0)} |->
                 body[CHOOSE n \in Children(body, 0) : body[n].key = k].value]

GetSignMap ==
  /\ signPc = "sign"
  /\ IF body = NoBody \/ (body # NoBody /\ body[0].kind # "object")
     THEN signPc' = "handle" /\ UNCHANGED <<frames, signMap>>
     ELSE IF signType = "all"
     THEN signPc' = "walk" /\ frames' = <<Call(NoPath, 0)>> /\ UNCHANGED signMap
     ELSE signPc' = "handle" /\ signMap' = FirstLevel /\ UNCHANGED frames
  /\ UNCHANGED <<requestVars, unread, err, body, handled>>

\* Mutant: an array's item has its array's path.
NewPath_NoIndex(path, n) ==
  IF body[body[n].in].kind = "array" THEN path
  ELSE IF path = NoPath THEN body[n].key
  ELSE path \o <<".">> \o body[n].key

NewPath(path, n) ==
  IF path = NoPath \/ body[body[n].in].kind = "array" THEN path \o body[n].key
  ELSE path \o <<".">> \o body[n].key

(* getSignAllMap goes to the next entry, of an object in any order and of an *)
(* array in its own; a container is a call of its own.                       *)
getSignAllMap(n) ==
  LET top == Head(frames)
      path == NewPath(top.path, n)
      rest == <<[top EXCEPT !.left = @ \ {n}]>> \o Tail(frames)
  IN /\ signPc = "walk" /\ frames # <<>> /\ n \in top.left
     /\ body[top.node].kind = "array" => n = Min(top.left)
     /\ IF body[n].kind \in {"object", "array"}
        THEN frames' = <<Call(path, n)>> \o rest /\ UNCHANGED signMap
        ELSE /\ frames' = rest
             /\ signMap' = [p \in DOMAIN signMap \cup {path} |->
                              IF p = path THEN body[n].value ELSE signMap[p]]
     /\ UNCHANGED <<signPc, requestVars, unread, err, body, handled>>

Return ==
  /\ signPc = "walk" /\ frames # <<>> /\ Head(frames).left = {}
  /\ frames' = Tail(frames)
  /\ signPc' = IF Tail(frames) = <<>> THEN "handle" ELSE signPc
  /\ UNCHANGED <<requestVars, unread, err, body, signMap, handled>>

\* The handler reads the request's body, whatever became of the signature.
Handle ==
  /\ signPc = "handle"
  /\ signPc' = "done"
  /\ handled' = unread /\ unread' = "nothing"
  /\ UNCHANGED <<requestVars, err, body, frames, signMap>>

SignNext ==
  \/ GetBody \/ GetSignMap \/ Return \/ Handle
  \/ \E n \in DOMAIN body : getSignAllMap(n)

SignSpec == SignInit /\ [][SignNext]_signVars

-----------------------------------------------------------------------------
Leaves(b) == {n \in DOMAIN b \ {0} : b[n].kind \notin {"object", "array"}}

\* A key of one word, no separator, has none in it and is not empty.
PlainKeys(b) == \A n \in DOMAIN b \ {0} : Len(b[n].key) = 1 /\ b[n].key[1] # "."

(* The path of a node by its definition, from the node up.                   *)
PathOf(b, n) ==
  LET up[m \in DOMAIN b] ==
        IF b[m].in = 0 THEN b[m].key
        ELSE up[b[m].in] \o (IF b[b[m].in].kind = "array" THEN b[m].key
                             ELSE <<".">> \o b[m].key)
  IN up[n]

Entries(b) == {[path |-> PathOf(b, n), value |-> b[n].value] : n \in Leaves(b)}
Signed == {[path |-> p, value |-> signMap[p]] : p \in DOMAIN signMap}

SignTypeOK ==
  /\ signPc \in {"begin", "sign", "walk", "handle", "done"}
  /\ sent \in Bodies /\ mediaType \in {"json", "form", "other"} /\ signType \in {"all", "first"}
  /\ unread \in {"whole", "rest", "nothing"} /\ err \in {"none", "read", "parse"}
  /\ handled \in {"none", "whole", "rest", "nothing"}
  /\ \A i \in 1..Len(frames) : frames[i].left \subseteq Children(body, frames[i].node)

(* Signer and verifier agree although each goes through the objects in an    *)
(* order of its own: under plain keys the map is the leaves of the body,     *)
(* each under its path, and nothing else.                                    *)
LeavesSigned ==
  signPc \in {"handle", "done"} /\ signType = "all" /\ body # NoBody
    => (body[0].kind = "object" /\ PlainKeys(body) => Signed = Entries(body))

(* Every field that was sent has a part in what is signed: no value of a     *)
(* form, whose fields may occur again, and none of a JSON object is left out *)
(* of the first level's map or of the other.                                 *)
NothingUnsigned ==
  signPc = "done" /\ mediaType # "other" /\ err = "none" /\ sent[0].kind = "object" /\ PlainKeys(sent)
    => \A n \in Children(sent, 0) \cap Leaves(sent) :
         /\ sent[n].key \in DOMAIN signMap
         /\ ToSet(sent[n].value) \subseteq ToSet(signMap[sent[n].key])

(* Whatever was signed reaches the handler as it was sent: only a request    *)
(* whose body could not be read comes to it with less, and unsigned.         *)
HandlerGetsSigned ==
  signPc = "done" => handled = "whole" \/ (err = "read" /\ signMap = NoEntries)

(* The map that is signed is the body, node by node, and the body that was   *)
(* signed is the one the handler gets.                                       *)
SignedIsHandled == SignTypeOK /\ LeavesSigned /\ NothingUnsigned /\ HandlerGetsSigned

=============================================================================
