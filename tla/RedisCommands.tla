--------------------------- MODULE RedisCommands ---------------------------
(***************************************************************************)
(* The key commands of redis/redis.go: what its callers get from a store   *)
(* they share over a network that loses requests and replies.  go-redis    *)
(* sends a command again when its reply does not come, whatever the        *)
(* command is, and an earlier copy may still reach Redis late, even after  *)
(* the call has given up.                                                  *)
(*                                                                         *)
(* Redis runs one command at a time.  A value is a number or Text.  History *)
(* of a key: the number of its life (from the write that creates it to its *)
(* removal), the number of its era (from one write that does not depend on *)
(* the value before it to the next) and the call that began the era.       *)
(***************************************************************************)
EXTENDS Integers

CONSTANTS
  Callers, Keys,
  Used,          \* the functions the callers use
  Expirations,   \* of SetIfAbsent: volatile, some duration; lasting, 0
  MaxRetries,    \* go-redis MaxRetries: InitRedis cannot set it to none
  MaxCalls       \* bound on the number of calls, for TLC

Text == -1       \* any value that is no number
Terms == {"lasting", "volatile"}   \* without and with an expiration
Functions == {"Set", "Get", "Del", "DelMulti", "Exists", "Expire", "GetExpire",
              "SetIfAbsent", "Increment"}
Ops == {"set", "get", "del", "delAll", "exists", "expire", "ttl", "setnx", "incr"}

ASSUME RedisAssumption ==
  /\ Used \subseteq Functions /\ Expirations \subseteq Terms
  /\ MaxRetries \in Nat \ {0} /\ MaxCalls \in Nat

VARIABLES
  client,     \* redisClient: none, open or closed
  store,      \* Redis
  flying,     \* copies of commands on their way to Redis
  pc,         \* of a caller: idle, waiting for a reply, replied
  cmd, call,  \* the caller's command and the number of its call
  tries,      \* copies sent again
  reply,      \* to the last copy
  result,     \* of the caller's last call
  issued,     \* history: the number of calls begun
  wins,       \* history: the SetIfAbsent calls that returned true
  numbers,    \* history: what the Increment calls returned
  earlier     \* history: the numbers returned before the caller's call

serverVars == <<store, flying>>
callVars == <<pc, cmd, call, tries, reply, result>>
histVars == <<issued, wins, numbers, earlier>>
vars == <<client, serverVars, callVars, histVars>>

-----------------------------------------------------------------------------
NoOne == 0

Command == [fn : Functions, op : Ops, key : Keys, value : {Text, 0}, term : Terms]

Entry == [term : Terms \union {"absent"}, value : Int, life : Nat, era : Nat, by : Nat]
Reply == [kind : {"value", "nil", "error"}, value : Int,
          life : Nat, era : Nat, by : Nat]
Result == [fn : Functions \union {"none"}, kind : {"value", "error"}, value : Int,
           there : BOOLEAN, life : Nat, era : Nat, by : Nat]
Copy == [from : Callers, of : Nat, try : Nat, cmd : Command]

There(e) == e.term # "absent"
Fresh(e, v, t, id) ==
  [term |-> t, value |-> v, by |-> id,
   life |-> IF There(e) THEN e.life ELSE e.life + 1, era |-> e.era + 1]
Removed(e) == [e EXCEPT !.term = "absent"]

\* What a command makes of its key.
After(e, m, id) ==
  CASE m.op = "set" -> Fresh(e, m.value, m.term, id)
    [] m.op = "setnx" /\ ~There(e) -> Fresh(e, m.value, m.term, id)
    [] m.op = "incr" /\ ~There(e) -> Fresh(e, 1, "lasting", id)
    [] m.op = "incr" /\ There(e) /\ e.value # Text -> [e EXCEPT !.value = @ + 1]
    [] m.op \in {"del", "delAll"} -> Removed(e)
    [] m.op = "expire" /\ There(e) -> [e EXCEPT !.term = "volatile"]
    [] OTHER -> e

Flag(b) == IF b THEN 1 ELSE 0

\* What Redis replies.
ReplyTo(e, m, id) ==
  LET f == After(e, m, id) IN
  [kind |-> CASE m.op = "get" /\ ~There(e) -> "nil"
              [] m.op = "incr" /\ There(e) /\ e.value = Text -> "error"
              [] OTHER -> "value",
   value |-> CASE m.op \in {"get", "incr"} -> f.value
               [] m.op = "setnx" -> Flag(~There(e))
               [] m.op = "set" -> 1
               [] m.op = "ttl" -> IF ~There(e) THEN -2
                                  ELSE IF e.term = "volatile" THEN 1 ELSE -1
               [] OTHER -> Flag(There(e)),
   life |-> f.life, era |-> f.era, by |-> f.by]

Nil == [kind |-> "nil", value |-> 0, life |-> 0, era |-> 0, by |-> NoOne]
Error == [Nil EXCEPT !.kind = "error"]

\* What the functions make of a reply: redis.Nil is no error to any of them,
\* an error gives no value.
Outcome(m, r) ==
  [fn |-> m.fn,
   kind |-> IF r.kind = "error" THEN "error" ELSE "value",
   value |-> IF r.kind = "value" THEN r.value ELSE 0,
   there |-> r.kind = "value", life |-> r.life, era |-> r.era, by |-> r.by]

NoCommand == [fn |-> "none"]
NoResult == Outcome(NoCommand, Nil)

TypeOK ==
  /\ client \in {"none", "open", "closed"}
  /\ store \in [Keys -> Entry]
  /\ flying \subseteq Copy
  /\ pc \in [Callers -> {"idle", "waiting", "replied", "panicked"}]
  /\ cmd \in [Callers -> Command \union {NoCommand}]
  /\ call \in [Callers -> Nat]
  /\ tries \in [Callers -> Nat]
  /\ reply \in [Callers -> Reply]
  /\ result \in [Callers -> Result]
  /\ issued \in Nat
  /\ wins \subseteq [of : Nat, key : Keys, life : Nat, era : Nat]
  /\ numbers \subseteq [of : Nat, by : Callers, key : Keys, era : Nat, n : Int]
  /\ earlier \in [Callers -> SUBSET numbers]

Init ==
  /\ client = "none"
  /\ store = [k \in Keys |-> [term |-> "absent", value |-> 0,
                              life |-> 0, era |-> 0, by |-> NoOne]]
  /\ flying = {}
  /\ pc = [c \in Callers |-> "idle"]
  /\ cmd = [c \in Callers |-> NoCommand]
  /\ call = [c \in Callers |-> 0] /\ tries = [c \in Callers |-> 0]
  /\ reply = [c \in Callers |-> Nil]
  /\ result = [c \in Callers |-> NoResult]
  /\ issued = 0
  /\ wins = {} /\ numbers = {}
  /\ earlier = [c \in Callers |-> {}]

-----------------------------------------------------------------------------
(* The client.  A client that cannot reach Redis is kept all the same, and   *)
(* without addresses there is none.  A program inits once.                   *)
InitRedis ==
  /\ client = "none"
  /\ client' = "open"
  /\ UNCHANGED <<serverVars, callVars, histVars>>

CloseRedis ==
  /\ client = "open"
  /\ client' = "closed"
  /\ UNCHANGED <<serverVars, callVars, histVars>>

(* A function sends its command.  Without a client it panics, with a closed  *)
(* one it returns an error.                                                  *)
Call(c, m) ==
  /\ m.fn \in Used
  /\ pc[c] = "idle" /\ issued < MaxCalls
  /\ issued' = issued + 1
  /\ cmd' = [cmd EXCEPT ![c] = m]
  /\ call' = [call EXCEPT ![c] = issued + 1]
  /\ tries' = [tries EXCEPT ![c] = 0]
  /\ earlier' = [earlier EXCEPT ![c] = IF m.fn = "Increment" THEN numbers ELSE {}]
  /\ \/ /\ client = "open"
        /\ pc' = [pc EXCEPT ![c] = "waiting"]
        /\ flying' = flying \union {[from |-> c, of |-> issued + 1, try |-> 0, cmd |-> m]}
        /\ result' = [result EXCEPT ![c] = NoResult]
     \/ /\ client = "none"
        /\ pc' = [pc EXCEPT ![c] = "panicked"]
        /\ result' = [result EXCEPT ![c] = NoResult]
        /\ UNCHANGED flying
     \/ /\ client = "closed"
        /\ result' = [result EXCEPT ![c] = Outcome(m, Error)]
        /\ UNCHANGED <<pc, flying>>
  /\ UNCHANGED <<client, store, reply, wins, numbers>>

Send(c, fn, op, k, v, t) ==
  Call(c, [fn |-> fn, op |-> op, key |-> k, value |-> v, term |-> t])

Set(c, k, v, t) == Send(c, "Set", "set", k, v, t)
Get(c, k) == Send(c, "Get", "get", k, Text, "lasting")
Del(c, k) == Send(c, "Del", "del", k, Text, "lasting")
\* ... of every key
DelMulti(c, k) == Send(c, "DelMulti", "delAll", k, Text, "lasting")
Exists(c, k) == Send(c, "Exists", "exists", k, Text, "lasting")
Expire(c, k) == Send(c, "Expire", "expire", k, Text, "volatile")
GetExpire(c, k) == Send(c, "GetExpire", "ttl", k, Text, "lasting")

\* Mutant: SetIfAbsent writes whether the key is absent or not.
SetIfAbsent_Overwrites(c, k, t) == Send(c, "SetIfAbsent", "set", k, Text, t)

\* Mutant: SetIfAbsent leaves the expiration to a later command.
SetIfAbsent_Forever(c, k, t) == Send(c, "SetIfAbsent", "setnx", k, Text, "lasting")

SetIfAbsent(c, k, t) == Send(c, "SetIfAbsent", "setnx", k, Text, t)

\* Mutant: Increment reads the counter and leaves the addition to a later command.
Increment_Reads(c, k) == Send(c, "Increment", "get", k, Text, "lasting")

Increment(c, k) == Send(c, "Increment", "incr", k, Text, "lasting")

(* Redis runs a copy; one that is lost is one that stays.  The reply reaches *)
(* a caller that still waits for it.                                         *)
Serve(f) ==
  LET c == f.from IN
  /\ flying' = flying \ {f}
  /\ store' = [k \in Keys |-> IF k = f.cmd.key \/ f.cmd.op = "delAll"
                              THEN After(store[k], f.cmd, f.of) ELSE store[k]]
  /\ IF pc[c] = "waiting" /\ f.of = call[c] /\ f.try = tries[c]
     THEN /\ reply' = [reply EXCEPT ![c] = ReplyTo(store[f.cmd.key], f.cmd, f.of)]
          /\ pc' = [pc EXCEPT ![c] = "replied"]
     ELSE UNCHANGED <<reply, pc>>
  /\ UNCHANGED <<client, cmd, call, tries, result, histVars>>

\* A key whose expiration is set goes away.
Expires(k) ==
  /\ store[k].term = "volatile"
  /\ store' = [store EXCEPT ![k] = Removed(@)]
  /\ UNCHANGED <<client, flying, callVars, histVars>>

\* No reply came in time, or it was lost: go-redis sends the command again.
Resend(c) ==
  /\ pc[c] \in {"waiting", "replied"} /\ client = "open"
  /\ tries[c] < MaxRetries
  /\ tries' = [tries EXCEPT ![c] = @ + 1]
  /\ pc' = [pc EXCEPT ![c] = "waiting"]
  /\ flying' = flying \union {[from |-> c, of |-> call[c], try |-> tries[c] + 1,
                               cmd |-> cmd[c]]}
  /\ reply' = [reply EXCEPT ![c] = Nil]
  /\ UNCHANGED <<client, store, cmd, call, result, histVars>>

GiveUp(c) ==
  /\ pc[c] \in {"waiting", "replied"}
  /\ tries[c] = MaxRetries \/ client = "closed"
  /\ pc' = [pc EXCEPT ![c] = "idle"]
  /\ result' = [result EXCEPT ![c] = Outcome(cmd[c], Error)]
  /\ tries' = [tries EXCEPT ![c] = 0]
  /\ reply' = [reply EXCEPT ![c] = Nil]
  /\ earlier' = [earlier EXCEPT ![c] = {}]
  /\ UNCHANGED <<client, serverVars, cmd, call, issued, wins, numbers>>

\* The reply arrives and the call returns.
Return(c) ==
  LET m == cmd[c]  r == Outcome(m, reply[c])  id == call[c] IN
  /\ pc[c] = "replied"
  /\ pc' = [pc EXCEPT ![c] = "idle"]
  /\ result' = [result EXCEPT ![c] = r]
  /\ wins' = IF m.fn = "SetIfAbsent" /\ r.value = 1
             THEN wins \union {[of |-> id, key |-> m.key, life |-> r.life,
                                era |-> r.era]}
             ELSE wins
  /\ numbers' = IF m.fn = "Increment" /\ r.kind = "value"
                THEN numbers \union {[of |-> id, by |-> c, key |-> m.key, era |-> r.era,
                                      n |-> r.value]}
                ELSE numbers
  /\ tries' = [tries EXCEPT ![c] = 0]
  /\ reply' = [reply EXCEPT ![c] = Nil]
  /\ earlier' = [earlier EXCEPT ![c] = {}]
  /\ UNCHANGED <<client, serverVars, cmd, call, issued>>

Next ==
  \/ InitRedis \/ CloseRedis
  \/ \E c \in Callers :
       \/ \E k \in Keys :
            \/ \E t \in Expirations : SetIfAbsent(c, k, t)
            \/ \E t \in Terms, v \in {Text, 0} : Set(c, k, v, t)
            \/ Get(c, k) \/ Del(c, k) \/ DelMulti(c, k) \/ Exists(c, k)
            \/ Expire(c, k) \/ GetExpire(c, k) \/ Increment(c, k)
       \/ Resend(c) \/ GiveUp(c) \/ Return(c)
  \/ \E f \in flying : Serve(f)
  \/ \E k \in Keys : Expires(k)

\* Only Redis's clock is sure to go on.
Spec == Init /\ [][Next]_vars /\ \A k \in Keys : WF_vars(Expires(k))

-----------------------------------------------------------------------------
(* A key, while it lives, has one winner: of all the callers that race to    *)
(* set it with SetIfAbsent, however often their commands are sent, at most   *)
(* one is told that it did.                                                  *)
OneWinner ==
  \A w, x \in wins : w.key = x.key /\ w.life = x.life => w = x

(* While nothing but Increment writes a counter, no two Increment calls      *)
(* return the same number ...                                                *)
NumbersDistinct ==
  \A m, n \in numbers :
    m.key = n.key /\ m.era = n.era /\ m.n = n.n => m = n

(* ... and a call that begins after another has returned gets a larger one.  *)
NumbersInOrder ==
  [][\A n \in numbers' \ numbers : \A m \in earlier[n.by] :
       m.key = n.key /\ m.era = n.era => m.n < n.n]_vars

(* A key that SetIfAbsent set with an expiration goes away, though its caller *)
(* does nothing more, unless a Set replaces it.                              *)
WonKeysGo ==
  Expirations = {"volatile"} => \A k \in Keys :
    (\E w \in wins : w.key = k /\ w.era = store[k].era)
      ~> (~There(store[k]) \/ \A w \in wins : w.key = k => w.era # store[k].era)
=============================================================================
