---------------------------- MODULE RedisProofs ----------------------------
(***************************************************************************)
(* Proofs about what src/redis does: about module RateLimiter for every    *)
(* rate and capacity that give the keys a ttl of at least a second, any    *)
(* amounts, clients and clock; about module RedisCommands for any callers, *)
(* keys, retries and number of calls, however late the copies of a command *)
(* arrive.                                                                 *)
(***************************************************************************)
EXTENDS RateLimiter, RedisCommands, TLAPS

-----------------------------------------------------------------------------
(* RateLimiter                                                             *)

(* A key that lives floor(2 * Capacity / Rate) >= 1 seconds outlives the   *)
(* time an empty bucket takes to fill.                                     *)
LEMMA TtlCoversFill ==
  ASSUME Ttl > 0
  PROVE  Ttl \in Nat /\ Ttl * Rate >= Capacity
<1> USE LimiterAssumption
<1>1. Ttl \in Nat
  BY DEF Ttl
<1> DEFINE t == Ttl
           p == t * Rate
<1>2. p \in Nat
  BY <1>1
<1>3. 2 * Capacity < p + Rate
  BY DEF Ttl
<1>4. Rate <= p
  <2>1. t = 1 + (t - 1) /\ t - 1 \in Nat
    BY <1>1
  <2>2. p = Rate + (t - 1) * Rate /\ (t - 1) * Rate \in Nat
    BY <2>1
  <2> QED BY <2>2
<1> HIDE DEF t, p
<1>5. p >= Capacity
  BY <1>2, <1>3, <1>4
<1> QED BY <1>1, <1>5 DEF p, t

(* Whole seconds never run backwards, and counting them from a tick is the *)
(* inverse of counting ticks.                                              *)
LEMMA Seconds ==
  /\ \A m, n \in Nat : m <= n => m \div TicksPerSecond <= n \div TicksPerSecond
  /\ \A m \in Nat : m \div TicksPerSecond \in Nat
  /\ \A m \in Nat : (m \div TicksPerSecond) * TicksPerSecond <= m
  /\ \A m, k \in Nat : k * TicksPerSecond <= m => k <= m \div TicksPerSecond
BY LimiterAssumption

LEMMA NowIsNat == ASSUME ticks \in Nat PROVE Now \in Nat
BY Seconds DEF Now

(* An expired key stands for a full bucket: the tokens the script computes  *)
(* are those of the bucket, expired keys or not.                            *)
LEMMA FilledIsLevel ==
  ASSUME Ttl > 0, LimiterTypeOK, KeysInv
  PROVE  /\ FilledTokens = Level
         /\ Level \in 0..Capacity
<1> USE LimiterAssumption, NowIsNat, TtlCoversFill DEF LimiterTypeOK, KeysInv
<1>1. Now \in Nat
  OBVIOUS
<1>2. CASE ~stored
  <2>1. Greater(0, Now - 0) * Rate \in Nat
    BY <1>1 DEF Greater
  <2> QED
    BY <1>2, <2>1 DEF FilledTokens, LastTokens, LastRefreshed, Present, Level, Lesser
<1>3. CASE stored
  <2> DEFINE gain == (Now - stamp) * Rate
  <2>1. Now - stamp \in Nat /\ gain \in Nat
    BY <1>1, <1>3
  <2>2. CASE ticks < expires
    <3>1. Greater(0, Now - stamp) = Now - stamp
      BY <2>1 DEF Greater
    <3> QED
      BY <1>3, <2>1, <2>2, <3>1
         DEF FilledTokens, LastTokens, LastRefreshed, Present, Level, Lesser
  <2>3. CASE ~(ticks < expires)
    <3>1. stamp + Ttl \in Nat
      OBVIOUS
    <3>2. (stamp + Ttl) * TicksPerSecond <= ticks
      <4>1. (stamp + Ttl) * TicksPerSecond \in Nat
        BY <3>1
      <4>2. (stamp + Ttl) * TicksPerSecond <= expires
        BY <1>3
      <4> HIDE TtlCoversFill, NowIsNat
      <4> QED BY <2>3, <4>1, <4>2
    <3>3. stamp + Ttl <= Now
      BY <3>1, <3>2, Seconds DEF Now
    <3> DEFINE k == Now - stamp - Ttl
    <3>4. k \in Nat /\ Now - stamp = Ttl + k
      BY <1>1, <3>3
    <3>5. gain >= Ttl * Rate
      <4> HIDE DEF k
      <4>1. gain = (Ttl + k) * Rate
        BY <3>4
      <4>2. (Ttl + k) * Rate = Ttl * Rate + k * Rate
            /\ k * Rate \in Nat /\ Ttl * Rate \in Nat
        BY <3>4
      <4> QED BY <4>1, <4>2
    <3>6. gain >= Capacity
      <4>1. Ttl * Rate \in Nat
        OBVIOUS
      <4> QED BY <2>1, <3>5, <4>1
    <3>7. Level = Capacity
      BY <1>3, <2>1, <3>6 DEF Level, Lesser
    <3>8. Greater(0, Now - 0) * Rate \in Nat
      BY <1>1 DEF Greater
    <3> QED
      BY <2>3, <3>7, <3>8
         DEF FilledTokens, LastTokens, LastRefreshed, Present, Lesser
  <2> QED BY <2>2, <2>3
<1> QED BY <1>2, <1>3

LEMMA LimiterStarts == LimiterInit => LimiterTypeOK /\ KeysInv
<1> SUFFICES ASSUME LimiterInit PROVE LimiterTypeOK /\ KeysInv
  OBVIOUS
<1>1. 0 \in 0..Capacity /\ 0 \in 0..Retries
  BY LimiterAssumption
<1>2. LimiterTypeOK
  BY <1>1 DEF LimiterInit, LimiterTypeOK
<1>3. KeysInv
  BY DEF LimiterInit, KeysInv
<1> QED BY <1>2, <1>3

LEMMA TickTime ==
  ASSUME ticks \in Nat, Tick
  PROVE  /\ ticks' \in Nat /\ Now \in Nat /\ Now' \in Nat
         /\ Now <= Now' /\ Now' <= Now + 1
<1>1. ticks' = ticks + 1 /\ ticks' \in Nat
  BY DEF Tick
<1>2. Now \in Nat
  BY NowIsNat
<1>3. Now' = (ticks + 1) \div TicksPerSecond
  BY <1>1 DEF Now
<1>4. (ticks + 1) \div TicksPerSecond \in Nat
  BY Seconds
<1>5. ticks \div TicksPerSecond <= (ticks + 1) \div TicksPerSecond
  BY Seconds
<1>6. (ticks + 1) \div TicksPerSecond <= (ticks \div TicksPerSecond) + 1
  BY LimiterAssumption
<1> QED BY <1>1, <1>2, <1>3, <1>4, <1>5, <1>6 DEF Now

(* Every step keeps the types and what is known of the keys.               *)
LEMMA LimiterStep ==
  ASSUME Ttl > 0, LimiterTypeOK, KeysInv, [LimiterNext]_limiterVars
  PROVE  LimiterTypeOK' /\ KeysInv'
<1>1. CASE Tick
  <2>1. LimiterTypeOK'
    BY <1>1 DEF Tick, LimiterTypeOK, bucketVars, clientVars
  <2>2. Now \in Nat /\ Now' \in Nat /\ Now <= Now'
    BY <1>1, TickTime DEF LimiterTypeOK
  <2>3. KeysInv'
    <3>1. stored => stamp <= Now'
      BY <2>2 DEF LimiterTypeOK, KeysInv
    <3> QED
      BY <1>1, <3>1 DEF Tick, KeysInv, bucketVars, clientVars, Ttl
  <2> QED BY <2>1, <2>3
<1>2. ASSUME NEW c \in Clients, NEW n \in Amounts, Request(c, n) PROVE LimiterTypeOK' /\ KeysInv'
  <2>1. n \in Nat /\ 0 \in 0..Retries
    BY LimiterAssumption
  <2>2. LimiterTypeOK'
    BY <1>2, <2>1 DEF Request, LimiterTypeOK, bucketVars
  <2>3. KeysInv'
    BY <1>2 DEF Request, LimiterTypeOK, KeysInv, bucketVars, Now, Ttl
  <2> QED BY <2>2, <2>3
<1>3. ASSUME NEW c \in Clients, RunScript(c) PROVE LimiterTypeOK' /\ KeysInv'
  <2>1. FilledTokens \in 0..Capacity
    BY FilledIsLevel
  <2>2. Now \in Nat /\ Now' = Now /\ Ttl' = Ttl /\ Ttl \in Nat
    BY <1>3, NowIsNat, TtlCoversFill DEF RunScript, LimiterTypeOK, Now, Ttl
  <2>3. requested[c] \in Nat
    BY DEF LimiterTypeOK
  <2>4. /\ tokens' \in 0..Capacity /\ charged' \in Nat
        /\ stamp' = Now /\ stored' = TRUE /\ ticks' = ticks
        /\ expires' = ticks + Ttl * TicksPerSecond
    BY <1>3, <2>1, <2>3, LimiterAssumption DEF RunScript, LimiterTypeOK
  <2>5. /\ Now * TicksPerSecond <= ticks
        /\ Now * TicksPerSecond \in Nat /\ Ttl * TicksPerSecond \in Nat
    BY <2>2, Seconds, LimiterAssumption DEF Now, LimiterTypeOK
  <2>6. (Now + Ttl) * TicksPerSecond = Now * TicksPerSecond + Ttl * TicksPerSecond
    BY <2>2, LimiterAssumption
  <2>7. expires' \in Nat /\ (stamp' + Ttl) * TicksPerSecond <= expires'
    BY <2>4, <2>5, <2>6 DEF LimiterTypeOK
  <2>8. LimiterTypeOK'
    BY <1>3, <2>2, <2>4, <2>7 DEF RunScript, LimiterTypeOK
  <2>9. KeysInv'
    BY <1>3, <2>2, <2>4, <2>7 DEF RunScript, LimiterTypeOK, KeysInv
  <2> QED BY <2>8, <2>9
<1>4. ASSUME NEW c \in Clients, Answer(c) \/ SendAgain(c) \/ Abandon(c)
      PROVE  LimiterTypeOK' /\ KeysInv'
  <2>1. resends[c] < Retries => resends[c] + 1 \in 0..Retries
    BY LimiterAssumption DEF LimiterTypeOK
  <2>2. LimiterTypeOK'
    BY <1>4, <2>1 DEF Answer, SendAgain, Abandon, LimiterTypeOK, bucketVars
  <2>3. KeysInv'
    BY <1>4 DEF Answer, SendAgain, Abandon, LimiterTypeOK, KeysInv, bucketVars, Now, Ttl
  <2> QED BY <2>2, <2>3
<1>5. CASE UNCHANGED limiterVars
  BY <1>5 DEF limiterVars, bucketVars, clientVars, LimiterTypeOK, KeysInv, Now, Ttl
<1> QED BY <1>1, <1>2, <1>3, <1>4, <1>5 DEF LimiterNext

-----------------------------------------------------------------------------
(* A step of the clock refills the bucket or leaves it; running the script  *)
(* takes the requested tokens or leaves it; nothing else touches it.        *)
LEMMA TickRefills ==
  ASSUME Ttl > 0, LimiterTypeOK, KeysInv, Tick
  PROVE  \/ Level' = Level /\ Now' = Now /\ charged' = charged
         \/ Bucket!Refill
<1>1. /\ Now \in Nat /\ Now' \in Nat
      /\ Now' = Now \/ Now' = Now + 1
  BY TickTime DEF LimiterTypeOK
<1>2. UNCHANGED <<stored, tokens, stamp, charged>>
  BY DEF Tick, bucketVars
<1>3. CASE Now' = Now
  BY <1>2, <1>3 DEF Level, Lesser
<1>4. CASE Now' = Now + 1
  <2>1. CASE ~stored
    BY <1>2, <1>4, <2>1, LimiterAssumption
       DEF Level, Lesser, Bucket!Refill, Bucket!AtMost
  <2>2. CASE stored
    <3> DEFINE gain == (Now - stamp) * Rate
    <3>1. Now - stamp \in Nat
      BY <1>1, <2>2 DEF LimiterTypeOK, KeysInv
    <3>2. gain \in Nat
      BY <3>1, LimiterAssumption
    <3>3. (Now' - stamp') * Rate = gain + Rate
      <4>1. Now' - stamp' = (Now - stamp) + 1
        BY <1>1, <1>2, <1>4 DEF LimiterTypeOK
      <4>2. ((Now - stamp) + 1) * Rate = (Now - stamp) * Rate + Rate
        BY <3>1, LimiterAssumption
      <4> QED BY <4>1, <4>2
    <3>4. /\ Level = Lesser(Capacity, tokens + gain)
          /\ Level' = Lesser(Capacity, tokens + (gain + Rate))
      BY <1>2, <2>2, <3>3 DEF Level, Lesser
    <3> HIDE DEF gain
    <3>5. Level' = Bucket!AtMost(Capacity, Level + Rate)
      BY <3>2, <3>4, LimiterAssumption DEF Lesser, Bucket!AtMost, LimiterTypeOK
    <3> QED BY <1>2, <1>4, <3>5 DEF Bucket!Refill
  <2> QED BY <2>1, <2>2
<1> QED BY <1>1, <1>3, <1>4

LEMMA ScriptTakes ==
  ASSUME Ttl > 0, LimiterTypeOK, KeysInv, NEW c \in Clients, RunScript(c)
  PROVE  \/ Level' = Level /\ Now' = Now /\ charged' = charged
         \/ requested[c] \in Amounts /\ Bucket!Take(requested[c])
<1>1. FilledTokens = Level /\ Level \in 0..Capacity
  BY FilledIsLevel
<1>2. Now' = Now /\ Now \in Nat
  BY NowIsNat DEF RunScript, LimiterTypeOK, Now
<1>3. requested[c] \in Amounts /\ requested[c] \in Nat
  BY DEF RunScript, KeysInv, LimiterTypeOK
<1>4. stored' = TRUE /\ stamp' = Now
  BY DEF RunScript
<1>5. Level' = Lesser(Capacity, tokens')
  <2>1. tokens' \in Int /\ (Now' - stamp') * Rate = 0
    BY <1>1, <1>2, <1>3, <1>4, LimiterAssumption DEF RunScript
  <2>2. Level' = Lesser(Capacity, tokens' + (Now' - stamp') * Rate)
    BY <1>4 DEF Level, Lesser
  <2> QED BY <2>1, <2>2
<1>6. CASE FilledTokens >= requested[c]
  <2>1. tokens' = Level - requested[c] /\ charged' = charged + requested[c]
    BY <1>1, <1>6 DEF RunScript
  <2>2. Level' = Level - requested[c] /\ requested[c] <= Level
    BY <1>1, <1>3, <1>5, <1>6, <2>1, LimiterAssumption DEF Lesser
  <2> QED BY <1>2, <1>3, <2>1, <2>2 DEF Bucket!Take
<1>7. CASE ~(FilledTokens >= requested[c])
  <2>1. tokens' = Level /\ charged' = charged
    BY <1>1, <1>7 DEF RunScript
  <2>2. Level' = Level
    BY <1>1, <1>5, <2>1, LimiterAssumption DEF Lesser
  <2> QED BY <1>2, <2>1, <2>2
<1> QED BY <1>6, <1>7

LEMMA OthersLeaveIt ==
  ASSUME \/ \E c \in Clients : \/ \E n \in Amounts : Request(c, n)
                              \/ Answer(c) \/ SendAgain(c) \/ Abandon(c)
         \/ UNCHANGED limiterVars
  PROVE  Level' = Level /\ Now' = Now /\ charged' = charged
<1>1. UNCHANGED <<ticks, stored, tokens, stamp, charged>>
  BY DEF Request, Answer, SendAgain, Abandon, limiterVars, bucketVars
<1> QED BY <1>1 DEF Level, Now, Lesser

(* Whatever is approved leaves the bucket, whatever enters it was generated.*)
LEMMA NextGrants ==
  ASSUME Ttl > 0, LimiterTypeOK, KeysInv, GrantsInv, [LimiterNext]_limiterVars
  PROVE  GrantsInv'
<1>1. /\ Now \in Nat /\ Level \in 0..Capacity /\ charged \in Nat
      /\ Now * Rate \in Nat
  <2>1. Now \in Nat
    BY NowIsNat DEF LimiterTypeOK
  <2> QED BY <2>1, FilledIsLevel, LimiterAssumption DEF LimiterTypeOK
<1>2. CASE Tick
  <2>1. charged' = charged
    BY <1>2 DEF Tick
  <2>2. (Now + 1) * Rate = Now * Rate + Rate
    BY <1>1, LimiterAssumption
  <2>3. CASE Level' = Level /\ Now' = Now
    BY <2>1, <2>3 DEF GrantsInv
  <2>4. CASE Bucket!Refill
    <3>1. Level' <= Level + Rate /\ Level' \in Int
      BY <1>1, <2>4, LimiterAssumption DEF Bucket!Refill, Bucket!AtMost
    <3>2. Now' * Rate = Now * Rate + Rate
      BY <2>2, <2>4 DEF Bucket!Refill
    <3> QED BY <1>1, <2>1, <3>1, <3>2, LimiterAssumption DEF GrantsInv
  <2> QED BY <1>2, <2>3, <2>4, TickRefills
<1>3. ASSUME NEW c \in Clients, RunScript(c) PROVE GrantsInv'
  <2>1. requested[c] \in Nat
    BY DEF LimiterTypeOK
  <2>2. CASE Level' = Level /\ Now' = Now /\ charged' = charged
    BY <2>2 DEF GrantsInv
  <2>3. CASE Bucket!Take(requested[c])
    <3>1. Level' + charged' = Level + charged
      BY <1>1, <2>1, <2>3 DEF Bucket!Take
    <3> QED BY <2>3, <3>1 DEF GrantsInv, Bucket!Take
  <2> QED BY <1>3, <2>2, <2>3, ScriptTakes
<1>4. CASE \/ \E c \in Clients : \/ \E n \in Amounts : Request(c, n)
                                \/ Answer(c) \/ SendAgain(c) \/ Abandon(c)
           \/ UNCHANGED limiterVars
  BY <1>4, OthersLeaveIt DEF GrantsInv
<1> QED BY <1>2, <1>3, <1>4 DEF LimiterNext

LEMMA InitGrants == LimiterInit => GrantsInv
<1> SUFFICES ASSUME LimiterInit PROVE GrantsInv
  OBVIOUS
<1>1. Level = Capacity /\ charged = 0 /\ Now \in Nat
  BY NowIsNat DEF LimiterInit, Level
<1>2. Now * Rate \in Nat
  BY <1>1, LimiterAssumption
<1> QED BY <1>1, <1>2, LimiterAssumption DEF GrantsInv

-----------------------------------------------------------------------------
(* The keys and the clients keep their types, and the keys' stamp and       *)
(* expiry stay related, for every interleaving of calls, resends and ticks. *)
THEOREM LimiterTypeCorrect ==
  ASSUME Ttl > 0
  PROVE  LimiterSpec => [](LimiterTypeOK /\ KeysInv)
<1>1. LimiterTypeOK /\ KeysInv /\ [LimiterNext]_limiterVars => LimiterTypeOK' /\ KeysInv'
  BY LimiterStep
<1> QED BY <1>1, LimiterStarts, PTL DEF LimiterSpec

(* The limiter implements the token bucket: with a ttl of at least a second *)
(* the expiry of the keys, the whole seconds of the clock and resent        *)
(* scripts cannot be seen in what it grants.                                *)
THEOREM LimiterIsTokenBucket ==
  ASSUME Ttl > 0
  PROVE  LimiterSpec => IsTokenBucket
<1>1. LimiterInit => Bucket!Init
  <2> SUFFICES ASSUME LimiterInit PROVE Bucket!Init
    OBVIOUS
  <2>1. Now = 0
    BY LimiterAssumption DEF LimiterInit, Now
  <2> QED BY <2>1 DEF LimiterInit, Level, Bucket!Init
<1>2. LimiterTypeOK /\ KeysInv /\ [LimiterNext]_limiterVars => [Bucket!Next]_(Bucket!vars)
  <2> SUFFICES ASSUME LimiterTypeOK, KeysInv, [LimiterNext]_limiterVars PROVE [Bucket!Next]_(Bucket!vars)
    OBVIOUS
  <2>1. CASE Tick
    BY <2>1, TickRefills DEF Bucket!Next, Bucket!vars
  <2>2. ASSUME NEW c \in Clients, RunScript(c) PROVE [Bucket!Next]_(Bucket!vars)
    BY <2>2, ScriptTakes DEF Bucket!Next, Bucket!vars
  <2>3. CASE \/ \E c \in Clients : \/ \E n \in Amounts : Request(c, n)
                                  \/ Answer(c) \/ SendAgain(c) \/ Abandon(c)
             \/ UNCHANGED limiterVars
    BY <2>3, OthersLeaveIt DEF Bucket!vars
  <2> QED BY <2>1, <2>2, <2>3 DEF LimiterNext
<1> QED BY <1>1, <1>2, LimiterTypeCorrect, PTL DEF LimiterSpec, IsTokenBucket, Bucket!Spec

(* What the script approves, lost replies included, never exceeds a full    *)
(* bucket and what the rate generated since the start.                      *)
THEOREM GrantsBounded ==
  ASSUME Ttl > 0
  PROVE  LimiterSpec => []GrantsWithinRate
<1>1. LimiterTypeOK /\ KeysInv /\ GrantsInv /\ [LimiterNext]_limiterVars => GrantsInv'
  BY NextGrants
<1>2. LimiterTypeOK /\ KeysInv /\ GrantsInv => GrantsWithinRate
  <2> SUFFICES ASSUME LimiterTypeOK, KeysInv, GrantsInv PROVE GrantsWithinRate
    OBVIOUS
  <2>1. Level \in Nat /\ charged \in Nat /\ Now \in Nat
    BY FilledIsLevel, NowIsNat DEF LimiterTypeOK
  <2>2. Now * Rate \in Nat
    BY <2>1, LimiterAssumption
  <2> QED BY <2>1, <2>2, LimiterAssumption DEF GrantsInv, GrantsWithinRate
<1> QED BY <1>1, <1>2, InitGrants, LimiterTypeCorrect, PTL DEF LimiterSpec

-----------------------------------------------------------------------------
(* RedisCommands                                                           *)

\* The commands the functions send.
Sendable(m) ==
  /\ m \in Command
  /\ m.fn = "SetIfAbsent" => m.op = "setnx"
  /\ m.fn = "Increment" => m.op = "incr"

(* Copies of a caller's present call carry its command; those of earlier     *)
(* calls cannot be taken for them, for the numbers of the calls grow.        *)
CopiesInv ==
  /\ \A c \in Callers : call[c] <= issued
  /\ \A f \in flying : /\ Sendable(f.cmd)
                       /\ f.of <= issued
                       /\ f.of = call[f.from] => f.cmd = cmd[f.from]
  /\ \A c \in Callers : pc[c] \in {"waiting", "replied"} => Sendable(cmd[c])

(* A SetIfAbsent, an Increment that is about to return true, a number.       *)
Winning(c) == pc[c] = "replied" /\ cmd[c].fn = "SetIfAbsent" /\ reply[c].kind = "value"
              /\ reply[c].value = 1
Counting(c) == pc[c] = "replied" /\ cmd[c].fn = "Increment" /\ reply[c].kind # "error"

(* No life that was won is still to come, and those that are won now differ. *)
WinsInv ==
  /\ \A w \in wins : w.life <= store[w.key].life
  /\ \A c \in Callers : Winning(c) =>
       /\ reply[c].life <= store[cmd[c].key].life
       /\ \A w \in wins : w.key = cmd[c].key => w.life # reply[c].life
       /\ \A d \in Callers : Winning(d) /\ cmd[d].key = cmd[c].key
                               /\ reply[d].life = reply[c].life => d = c
  /\ OneWinner

(* An entry of a counter has passed a number of an era.                         *)
Passed(e, era, n) == era <= e.era /\ (era = e.era => n <= e.value)

NumbersInv ==
  /\ \A m \in numbers : Passed(store[m.key], m.era, m.n)
  /\ \A c \in Callers : Counting(c) =>
       /\ reply[c].kind = "value"
       /\ Passed(store[cmd[c].key], reply[c].era, reply[c].value)
       /\ \A m \in numbers : m.key = cmd[c].key /\ m.era = reply[c].era
                               => m.n # reply[c].value
       /\ \A m \in earlier[c] : m.key = cmd[c].key /\ m.era = reply[c].era
                               => m.n < reply[c].value
       /\ \A d \in Callers : Counting(d) /\ cmd[d].key = cmd[c].key
                               /\ reply[d].era = reply[c].era
                               /\ reply[d].value = reply[c].value => d = c
  /\ NumbersDistinct

-----------------------------------------------------------------------------
(* Every function sends such a command.                                      *)
LEMMA FunctionsSend ==
  ASSUME NEW c \in Callers, NEW k \in Keys,
         \/ \E t \in Expirations : SetIfAbsent(c, k, t)
         \/ \E t \in Terms, v \in {Text, 0} : Set(c, k, v, t)
         \/ Get(c, k) \/ Del(c, k) \/ DelMulti(c, k) \/ Exists(c, k)
         \/ Expire(c, k) \/ GetExpire(c, k) \/ Increment(c, k)
  PROVE  \E m : Sendable(m) /\ Call(c, m)
<1> USE RedisAssumption DEF Sendable, Command, Functions, Ops, Send, Terms
<1>1. ASSUME NEW t \in Expirations, SetIfAbsent(c, k, t) PROVE \E m : Sendable(m) /\ Call(c, m)
  BY <1>1 DEF SetIfAbsent
<1>2. ASSUME NEW t \in Terms, NEW v \in {Text, 0}, Set(c, k, v, t)
      PROVE \E m : Sendable(m) /\ Call(c, m)
  BY <1>2 DEF Set
<1>3. CASE Get(c, k) \/ Del(c, k) \/ DelMulti(c, k) \/ Exists(c, k)
  BY <1>3 DEF Get, Del, DelMulti, Exists
<1>4. CASE Expire(c, k) \/ GetExpire(c, k) \/ Increment(c, k)
  BY <1>4 DEF Expire, GetExpire, Increment
<1> QED BY <1>1, <1>2, <1>3, <1>4

(* What a command makes of a key and what it replies.                        *)
LEMMA AfterType ==
  ASSUME NEW e \in Entry, NEW m \in Command, NEW id \in Nat
  PROVE  /\ After(e, m, id) \in Entry
         /\ ReplyTo(e, m, id) \in Reply
<1>1. After(e, m, id) \in Entry
  BY SMTT(60) DEF After, Fresh, Removed, There, Entry, Command, Terms, Text
<1>2. After(e, m, id).value \in Int /\ After(e, m, id).life \in Nat
      /\ After(e, m, id).era \in Nat /\ After(e, m, id).by \in Nat
  BY <1>1 DEF Entry
<1>3. ReplyTo(e, m, id).value \in Int
  BY <1>2 DEF ReplyTo, Flag
<1>4. ReplyTo(e, m, id).kind \in {"value", "nil", "error"}
  BY DEF ReplyTo
<1>5. ReplyTo(e, m, id) = [kind |-> ReplyTo(e, m, id).kind, value |-> ReplyTo(e, m, id).value,
                           life |-> After(e, m, id).life, era |-> After(e, m, id).era,
                           by |-> After(e, m, id).by]
  BY Zenon DEF ReplyTo
<1>6. \A k \in {"value", "nil", "error"}, v \in Int, l, n, b \in Nat :
        [kind |-> k, value |-> v, life |-> l, era |-> n, by |-> b] \in Reply
  BY DEF Reply
<1> DEFINE f == After(e, m, id)  r == ReplyTo(e, m, id)
<1>7. [kind |-> r.kind, value |-> r.value, life |-> f.life, era |-> f.era, by |-> f.by] \in Reply
  BY <1>2, <1>3, <1>4, <1>6
<1> QED BY Zenon, <1>1, <1>5, <1>7

LEMMA AfterGrows ==
  ASSUME NEW e \in Entry, NEW m \in Command, NEW id \in Nat
  PROVE  LET f == After(e, m, id) IN
         /\ f.life >= e.life /\ f.era >= e.era
         /\ f.era = e.era => f.value >= e.value
BY SMTT(60) DEF After, Fresh, Removed, There, Entry, Command

LEMMA WinBeginsLife ==
  ASSUME NEW e \in Entry, NEW m \in Command, NEW id \in Nat, m.op = "setnx",
         ReplyTo(e, m, id).value = 1
  PROVE  ReplyTo(e, m, id).life = After(e, m, id).life /\ After(e, m, id).life > e.life
BY SMTT(60) DEF After, ReplyTo, Fresh, Removed, There, Entry, Command, Flag

\* A counter that grows passes what it held.
LEMMA FurtherPassed ==
  ASSUME NEW e \in Entry, NEW g \in Entry,
         g.era >= e.era, g.era = e.era => g.value > e.value,
         NEW n \in Int, g.era <= e.era, g.era = e.era => n <= e.value
  PROVE  n < g.value
BY DEF Entry

LEMMA CountPasses ==
  ASSUME NEW e \in Entry, NEW m \in Command, NEW id \in Nat, m.op = "incr",
         ReplyTo(e, m, id).kind # "error"
  PROVE  LET f == After(e, m, id)  r == ReplyTo(e, m, id) IN
         /\ r.kind = "value" /\ r.era = f.era /\ r.value = f.value
         /\ f.era = e.era => f.value > e.value
BY SMTT(60) DEF After, ReplyTo, Fresh, Removed, There, Entry, Command, Flag

LEMMA OutcomeType ==
  ASSUME NEW m, m.fn \in Functions \union {"none"}, NEW r \in Reply
  PROVE  Outcome(m, r) \in Result
BY DEF Outcome, Result, Reply

-----------------------------------------------------------------------------
LEMMA InitTyped == Init => TypeOK /\ CopiesInv /\ WinsInv /\ NumbersInv
<1> SUFFICES ASSUME Init PROVE TypeOK /\ CopiesInv /\ WinsInv /\ NumbersInv
  OBVIOUS
<1> USE DEF Init
<1>1. Nil \in Reply
  BY DEF Nil, Reply, NoOne
<1>2. NoResult \in Result
  BY <1>1, OutcomeType DEF NoResult, NoCommand
<1>3. TypeOK
  BY <1>1, <1>2 DEF TypeOK, Entry, NoOne, NoCommand
<1>4. CopiesInv
  BY DEF CopiesInv
<1>5. WinsInv /\ NumbersInv
  BY DEF WinsInv, NumbersInv, Winning, Counting, OneWinner, NumbersDistinct
<1> QED BY <1>3, <1>4, <1>5

(* Every step keeps the types and the copies in line with the calls.         *)
LEMMA StepTyped ==
  ASSUME TypeOK, CopiesInv, [Next]_vars
  PROVE  TypeOK' /\ CopiesInv'
<1> USE RedisAssumption
<1>0. Nil \in Reply /\ NoResult \in Result /\ Error \in Reply
  <2>1. Nil \in Reply /\ Error \in Reply
    BY DEF Nil, Error, Reply, NoOne
  <2> QED BY <2>1, OutcomeType DEF NoResult, NoCommand
<1>1. ASSUME NEW c \in Callers, NEW m, Sendable(m), Call(c, m)
      PROVE  TypeOK' /\ CopiesInv'
  <2>1. m \in Command /\ Outcome(m, Error) \in Result
    BY <1>0, <1>1, OutcomeType DEF Sendable, Command
  <2>2. TypeOK'
    BY <1>0, <1>1, <2>1 DEF TypeOK, Call, Copy
  <2>3. CopiesInv'
    BY <1>1 DEF TypeOK, CopiesInv, Call, Copy
  <2> QED BY <2>2, <2>3
<1>2. ASSUME NEW f \in flying, Serve(f) PROVE TypeOK' /\ CopiesInv'
  <2>1. f \in Copy /\ f.cmd \in Command /\ f.of \in Nat /\ f.from \in Callers
    BY DEF TypeOK, Copy
  <2>2. \A k \in Keys : After(store[k], f.cmd, f.of) \in Entry
                       /\ ReplyTo(store[k], f.cmd, f.of) \in Reply
    BY <2>1, AfterType DEF TypeOK
  <2>3. f.cmd.key \in Keys
    BY <2>1 DEF Command
  <2>4. TypeOK'
    BY <1>2, <2>1, <2>2, <2>3 DEF TypeOK, Serve, callVars, histVars
  <2>5. CopiesInv'
    BY <1>2, <2>1 DEF TypeOK, CopiesInv, Serve, histVars
  <2> QED BY <2>4, <2>5
<1>3. ASSUME NEW k \in Keys, Expires(k) PROVE TypeOK' /\ CopiesInv'
  <2>1. Removed(store[k]) \in Entry
    BY DEF Removed, TypeOK, Entry
  <2>2. TypeOK'
    BY <1>3, <2>1 DEF TypeOK, Expires, callVars, histVars
  <2>3. CopiesInv'
    BY <1>3 DEF CopiesInv, Expires, callVars, histVars
  <2> QED BY <2>2, <2>3
<1>4. ASSUME NEW c \in Callers, Resend(c) PROVE TypeOK' /\ CopiesInv'
  <2>1. cmd[c] \in Command /\ Sendable(cmd[c])
    BY <1>4 DEF CopiesInv, Resend, Sendable
  <2>2. TypeOK'
    BY <1>0, <1>4, <2>1 DEF TypeOK, Resend, Copy, histVars
  <2>3. CopiesInv'
    BY <1>4, <2>1 DEF TypeOK, CopiesInv, Resend, histVars
  <2> QED BY <2>2, <2>3
<1>5. ASSUME NEW c \in Callers, GiveUp(c) PROVE TypeOK' /\ CopiesInv'
  <2>1. Outcome(cmd[c], Error) \in Result
    BY <1>0, OutcomeType DEF TypeOK, NoCommand, Command
  <2>2. TypeOK'
    BY <1>0, <1>5, <2>1 DEF TypeOK, GiveUp, serverVars
  <2>3. CopiesInv'
    BY <1>5 DEF TypeOK, CopiesInv, GiveUp, serverVars
  <2> QED BY <2>2, <2>3
<1>6. ASSUME NEW c \in Callers, Return(c) PROVE TypeOK' /\ CopiesInv'
  <2>1. Outcome(cmd[c], reply[c]) \in Result /\ cmd[c] \in Command
    BY <1>6, OutcomeType DEF TypeOK, NoCommand, Command, CopiesInv, Return, Sendable
  <2>2. wins' \subseteq [of : Nat, key : Keys, life : Nat, era : Nat]
    BY <1>6, <2>1 DEF TypeOK, Return, Result, Command
  <2>3. numbers' \subseteq [of : Nat, by : Callers, key : Keys, era : Nat, n : Int]
    BY <1>6, <2>1 DEF TypeOK, Return, Result, Command
  <2>4. earlier' \in [Callers -> SUBSET numbers']
    BY <1>6 DEF TypeOK, Return
  <2>5. TypeOK'
    BY <1>0, <1>6, <2>1, <2>2, <2>3, <2>4 DEF TypeOK, Return, serverVars
  <2>6. CopiesInv'
    BY <1>6 DEF TypeOK, CopiesInv, Return, serverVars
  <2> QED BY <2>5, <2>6
<1>7. CASE InitRedis \/ CloseRedis \/ UNCHANGED vars
  BY <1>7 DEF TypeOK, CopiesInv, InitRedis, CloseRedis, vars, serverVars, callVars, histVars
<1> QED
  BY <1>1, <1>2, <1>3, <1>4, <1>5, <1>6, <1>7, FunctionsSend DEF Next

-----------------------------------------------------------------------------
(* What Serve does to the store: lives and eras only begin, and within an era *)
(* a counter only grows.                                                     *)
LEMMA ServeGrows ==
  ASSUME TypeOK, NEW f \in flying, Serve(f), NEW k \in Keys
  PROVE  /\ store'[k].life >= store[k].life
         /\ store'[k].era >= store[k].era
         /\ store'[k].era = store[k].era => store'[k].value >= store[k].value
<1>1. f.cmd \in Command /\ f.of \in Nat /\ store[k] \in Entry
  BY DEF TypeOK, Copy
<1>2. CASE store'[k] = After(store[k], f.cmd, f.of)
  BY <1>1, <1>2, AfterGrows
<1>3. CASE store'[k] = store[k]
  BY <1>1, <1>3 DEF Entry
<1> QED BY <1>2, <1>3 DEF Serve

(* What it does to the caller that gets the reply.                           *)
LEMMA ServeReplies ==
  ASSUME TypeOK, CopiesInv, NEW f \in flying, Serve(f),
         NEW c \in Callers, pc'[c] = "replied",
         ~(pc[c] = "replied" /\ reply'[c] = reply[c])
  PROVE  LET k == cmd[c].key  e == store[k] IN
         /\ c = f.from
         /\ cmd[c] \in Command /\ k \in Keys /\ Sendable(cmd[c])
         /\ reply'[c] = ReplyTo(e, cmd[c], f.of)
         /\ store'[k] = After(e, cmd[c], f.of)
<1>1. f \in Copy /\ f.cmd \in Command /\ f.of \in Nat /\ f.from \in Callers
  BY DEF TypeOK, Copy
<1>2. c = f.from /\ f.of = call[c] /\ reply'[c] = ReplyTo(store[f.cmd.key], f.cmd, f.of)
  BY <1>1 DEF Serve, TypeOK
<1>3. f.cmd = cmd[c] /\ Sendable(cmd[c])
  BY <1>2 DEF CopiesInv
<1>4. cmd[c].key \in Keys
  BY <1>1, <1>3 DEF Command
<1> QED BY <1>1, <1>2, <1>3, <1>4 DEF Serve

(* The store keeps its lives and eras when a key expires.                    *)
LEMMA ExpiresKey ==
  ASSUME TypeOK, NEW j \in Keys, Expires(j)
  PROVE  \A k \in Keys : /\ store'[k].life = store[k].life
                         /\ store'[k].era = store[k].era
                         /\ store'[k].value = store[k].value
<1>1. \A k \in Keys : store[k] \in Entry
  BY DEF TypeOK
<1> QED BY <1>1 DEF Expires, Removed, TypeOK, Entry

-----------------------------------------------------------------------------
\* A win, and a caller's reply, of some call before the step.
LEMMA StepWins ==
  ASSUME TypeOK, CopiesInv, WinsInv, [Next]_vars
  PROVE  WinsInv'
<1> USE RedisAssumption
<1>t. TypeOK' /\ CopiesInv'
  BY StepTyped
<1>k. \A k \in Keys : store[k] \in Entry /\ store[k].life \in Nat
  BY DEF TypeOK, Entry
<1>w. \A w \in wins : w.key \in Keys /\ w.life \in Nat
  BY DEF TypeOK
<1>r. \A c \in Callers : reply[c].life \in Nat
  BY DEF TypeOK, Reply
<1>c. \A c \in Callers : Winning(c) => cmd[c].key \in Keys
  BY DEF Winning, CopiesInv, Sendable, Command
<1>1. ASSUME NEW c \in Callers, NEW m, Sendable(m), Call(c, m) PROVE WinsInv'
  <2>1. \A d \in Callers : Winning(d)' => Winning(d) /\ d # c
    BY <1>1 DEF Call, Winning, TypeOK
  <2>2. \A d \in Callers : d # c => cmd'[d] = cmd[d]
    BY <1>1 DEF Call, TypeOK
  <2> QED BY <1>1, <2>1, <2>2 DEF Call, WinsInv, OneWinner
<1>2. ASSUME NEW f \in flying, Serve(f) PROVE WinsInv'
  <2>1. \A k \in Keys : store'[k].life >= store[k].life /\ store'[k].life \in Nat
    <3>1. \A k \in Keys : store'[k].life >= store[k].life
      BY <1>2, ServeGrows
    <3> QED BY <1>t, <3>1 DEF TypeOK, Entry
  <2>2. cmd' = cmd /\ wins' = wins
    BY <1>2 DEF Serve, histVars
  <2>3. ASSUME NEW d \in Callers, Winning(d)'
        PROVE \/ Winning(d) /\ reply'[d] = reply[d]
              \/ /\ d = f.from /\ cmd[d].key \in Keys
                 /\ reply'[d].life = store'[cmd[d].key].life
                 /\ store'[cmd[d].key].life > store[cmd[d].key].life
    <3>1. CASE pc[d] = "replied" /\ reply'[d] = reply[d]
      BY <2>2, <2>3, <3>1 DEF Winning
    <3>2. CASE ~(pc[d] = "replied" /\ reply'[d] = reply[d])
      <4> DEFINE e == store[cmd[d].key]
      <4>1. /\ d = f.from /\ cmd[d] \in Command /\ cmd[d].key \in Keys /\ Sendable(cmd[d])
            /\ reply'[d] = ReplyTo(e, cmd[d], f.of)
            /\ store'[cmd[d].key] = After(e, cmd[d], f.of)
        BY <1>2, <2>3, <3>2, ServeReplies DEF Winning
      <4>2. e \in Entry /\ f.of \in Nat
        BY <1>k, <4>1 DEF TypeOK, Copy
      <4>3. cmd[d].op = "setnx" /\ ReplyTo(e, cmd[d], f.of).value = 1
        BY <2>2, <2>3, <4>1 DEF Winning, Sendable
      <4> QED BY <4>1, <4>2, <4>3, WinBeginsLife
    <3> QED BY <3>1, <3>2
  <2> QED BY <1>w, <1>r, <1>k, <1>c, <2>1, <2>2, <2>3 DEF WinsInv, OneWinner
<1>3. ASSUME NEW j \in Keys, Expires(j) PROVE WinsInv'
  <2>1. \A k \in Keys : store'[k].life = store[k].life
    BY <1>3, ExpiresKey
  <2>2. \A c \in Callers : Winning(c)' <=> Winning(c)
    BY <1>3 DEF Expires, callVars, Winning
  <2> QED BY <1>3, <1>c, <1>w, <2>1, <2>2 DEF Expires, callVars, histVars, WinsInv, OneWinner
<1>4. ASSUME NEW c \in Callers, Resend(c) \/ GiveUp(c) PROVE WinsInv'
  <2>1. \A d \in Callers : Winning(d)' => Winning(d) /\ reply'[d] = reply[d]
    BY <1>4 DEF Resend, GiveUp, Winning, TypeOK
  <2> QED BY <1>4, <2>1 DEF Resend, GiveUp, serverVars, histVars, WinsInv, OneWinner
<1>5. ASSUME NEW c \in Callers, Return(c) PROVE WinsInv'
  <2>1. \A d \in Callers : Winning(d)' => Winning(d) /\ reply'[d] = reply[d] /\ d # c
    BY <1>5 DEF Return, Winning, TypeOK
  <2>2. cmd' = cmd /\ store' = store
    BY <1>5 DEF Return, serverVars
  <2>3. CASE wins' = wins
    BY <2>1, <2>2, <2>3 DEF WinsInv, OneWinner
  <2>4. CASE wins' # wins
    <3>1. Winning(c)
      BY <1>5, <2>4 DEF Return, Winning, Outcome
    <3>2. PICK x : /\ wins' = wins \union {x} /\ x.key = cmd[c].key /\ x.life = reply[c].life
      BY <1>5, <2>4, <3>1 DEF Return, Outcome
    <3> QED BY <1>c, <1>w, <1>r, <2>1, <2>2, <3>1, <3>2 DEF WinsInv, OneWinner
  <2> QED BY <2>3, <2>4
<1>6. CASE InitRedis \/ CloseRedis \/ UNCHANGED vars
  BY <1>6 DEF InitRedis, CloseRedis, vars, serverVars, callVars, histVars,
              WinsInv, OneWinner, Winning
<1> QED
  BY <1>1, <1>2, <1>3, <1>4, <1>5, <1>6, FunctionsSend DEF Next

(* The same for the numbers of the counters, with eras and values.           *)
LEMMA StepNumbers ==
  ASSUME TypeOK, CopiesInv, NumbersInv, [Next]_vars
  PROVE  /\ NumbersInv'
         /\ \A n \in numbers' \ numbers : \A m \in earlier[n.by] :
              m.key = n.key /\ m.era = n.era => m.n < n.n
<1> USE RedisAssumption
<1> DEFINE NewInOrder == \A n \in numbers' \ numbers : \A m \in earlier[n.by] :
                           m.key = n.key /\ m.era = n.era => m.n < n.n
<1>t. TypeOK' /\ CopiesInv'
  BY StepTyped
<1>k. \A k \in Keys : store[k] \in Entry /\ store[k].era \in Nat /\ store[k].value \in Int
  BY DEF TypeOK, Entry
<1>w. \A m \in numbers : m.key \in Keys /\ m.era \in Nat /\ m.n \in Int
  BY DEF TypeOK
<1>e. \A c \in Callers : earlier[c] \subseteq numbers
  BY DEF TypeOK
<1>r. \A c \in Callers : reply[c].era \in Nat /\ reply[c].value \in Int
  BY DEF TypeOK, Reply
<1>c. \A c \in Callers : Counting(c) => cmd[c].key \in Keys
  BY DEF Counting, CopiesInv, Sendable, Command
<1>1. ASSUME NEW c \in Callers, NEW m, Sendable(m), Call(c, m)
      PROVE  NumbersInv' /\ numbers' = numbers
  <2>1. \A d \in Callers : Counting(d)' => Counting(d) /\ d # c
    BY <1>1 DEF Call, Counting, TypeOK
  <2>2. \A d \in Callers : d # c => cmd'[d] = cmd[d] /\ earlier'[d] = earlier[d]
    BY <1>1 DEF Call, TypeOK
  <2> QED BY <1>1, <2>1, <2>2 DEF Call, NumbersInv, NumbersDistinct, Passed
<1>2. ASSUME NEW f \in flying, Serve(f) PROVE NumbersInv' /\ numbers' = numbers
  <2>1. \A k \in Keys : /\ store'[k].era >= store[k].era
                        /\ store'[k].era = store[k].era => store'[k].value >= store[k].value
    BY <1>2, ServeGrows
  <2>2. \A k \in Keys : /\ store'[k] \in Entry
                        /\ store'[k].era \in Nat /\ store'[k].value \in Int
    BY <1>t DEF TypeOK, Entry
  <2>3. cmd' = cmd /\ numbers' = numbers /\ earlier' = earlier
    BY <1>2 DEF Serve, histVars
  <2>4. ASSUME NEW d \in Callers, Counting(d)'
        PROVE \/ Counting(d) /\ reply'[d] = reply[d]
              \/ /\ d = f.from /\ cmd[d].key \in Keys
                 /\ reply'[d].kind = "value" /\ reply'[d].era = store'[cmd[d].key].era
                 /\ reply'[d].value = store'[cmd[d].key].value
                 /\ store'[cmd[d].key].era = store[cmd[d].key].era
                      => store'[cmd[d].key].value > store[cmd[d].key].value
    <3>1. CASE pc[d] = "replied" /\ reply'[d] = reply[d]
      BY <2>3, <2>4, <3>1 DEF Counting
    <3>2. CASE ~(pc[d] = "replied" /\ reply'[d] = reply[d])
      <4> DEFINE e == store[cmd[d].key]
      <4>1. /\ d = f.from /\ cmd[d] \in Command /\ cmd[d].key \in Keys /\ Sendable(cmd[d])
            /\ reply'[d] = ReplyTo(e, cmd[d], f.of)
            /\ store'[cmd[d].key] = After(e, cmd[d], f.of)
        BY <1>2, <2>4, <3>2, ServeReplies DEF Counting
      <4>2. e \in Entry /\ f.of \in Nat
        BY <1>k, <4>1 DEF TypeOK, Copy
      <4>3. cmd[d].op = "incr" /\ ReplyTo(e, cmd[d], f.of).kind # "error"
        BY <2>3, <2>4, <4>1 DEF Counting, Sendable
      <4> QED BY <4>1, <4>2, <4>3, CountPasses
    <3> QED BY <3>1, <3>2
  <2>5. ASSUME NEW k \in Keys, NEW era \in Nat, NEW n \in Int, Passed(store[k], era, n)
        PROVE  Passed(store'[k], era, n)
    <3>1. /\ store[k].era \in Nat /\ store'[k].era \in Nat
          /\ store[k].value \in Int /\ store'[k].value \in Int
      BY <1>k, <2>2
    <3>2. /\ store'[k].era >= store[k].era
          /\ store'[k].era = store[k].era => store'[k].value >= store[k].value
      BY <2>1
    <3> QED BY <2>5, <3>1, <3>2 DEF Passed
  <2>6. \A m \in numbers' : Passed(store'[m.key], m.era, m.n)
    BY <1>w, <2>3, <2>5 DEF NumbersInv
  <2>7. ASSUME NEW d \in Callers, Counting(d)'
        PROVE  /\ reply'[d].kind = "value"
               /\ Passed(store'[cmd[d].key], reply'[d].era, reply'[d].value)
               /\ \A m \in numbers : m.key = cmd[d].key /\ m.era = reply'[d].era
                                        => m.n # reply'[d].value
               /\ \A m \in earlier[d] : m.key = cmd[d].key /\ m.era = reply'[d].era
                                        => m.n < reply'[d].value
    <3>1. CASE Counting(d) /\ reply'[d] = reply[d]
      BY <1>r, <1>c, <2>5, <3>1 DEF NumbersInv
    <3>2. CASE ~(Counting(d) /\ reply'[d] = reply[d])
      <4>1. /\ cmd[d].key \in Keys
            /\ reply'[d].kind = "value" /\ reply'[d].era = store'[cmd[d].key].era
            /\ reply'[d].value = store'[cmd[d].key].value
            /\ store'[cmd[d].key].era = store[cmd[d].key].era
                 => store'[cmd[d].key].value > store[cmd[d].key].value
        BY <2>4, <2>7, <3>2
      <4>2. Passed(store'[cmd[d].key], reply'[d].era, reply'[d].value)
        BY <2>2, <2>3, <4>1 DEF Passed
      <4>3. \A m \in numbers : m.key = cmd[d].key /\ m.era = reply'[d].era
                                        => m.n < reply'[d].value
        <5> SUFFICES ASSUME NEW m \in numbers, m.key = cmd[d].key, m.era = reply'[d].era
                     PROVE  m.n < reply'[d].value
          OBVIOUS
        <5>1. Passed(store[cmd[d].key], m.era, m.n)
          BY DEF NumbersInv
        <5> DEFINE e == store[cmd[d].key]  g == store'[cmd[d].key]
        <5>2. /\ e \in Entry /\ g \in Entry
              /\ g.era >= e.era /\ (g.era = e.era => g.value > e.value)
              /\ m.n \in Int /\ m.era = g.era /\ reply'[d].value = g.value
          BY <1>k, <1>w, <2>1, <2>2, <4>1
        <5> QED BY <5>1, <5>2, FurtherPassed DEF Passed
      <4>4. reply'[d].value \in Int
        BY <2>2, <4>1
      <4>5. \A m \in numbers : m.key = cmd[d].key /\ m.era = reply'[d].era
                                => m.n # reply'[d].value
        BY <1>w, <4>3, <4>4
      <4> QED BY <1>e, <4>1, <4>2, <4>3, <4>5
    <3> QED BY <3>1, <3>2
  <2>8. ASSUME NEW c \in Callers, NEW d \in Callers, Counting(c)', Counting(d)',
               cmd[d].key = cmd[c].key, reply'[d].era = reply'[c].era,
               reply'[d].value = reply'[c].value
        PROVE  d = c
    <3> DEFINE Old(x) == Counting(x) /\ reply'[x] = reply[x]
    <3>1. CASE Old(c) /\ Old(d)
      BY <2>8, <3>1 DEF NumbersInv
    <3>2. CASE ~Old(c) /\ ~Old(d)
      BY <2>4, <2>8, <3>2
    <3>3. ASSUME NEW x \in Callers, NEW y \in Callers, Counting(x)', Counting(y)',
                 Old(x), ~Old(y), cmd[x].key = cmd[y].key,
                 reply'[x].era = reply'[y].era, reply'[x].value = reply'[y].value
          PROVE  FALSE
      <4>1. /\ cmd[y].key \in Keys
            /\ reply'[y].era = store'[cmd[y].key].era
            /\ reply'[y].value = store'[cmd[y].key].value
            /\ store'[cmd[y].key].era = store[cmd[y].key].era
                 => store'[cmd[y].key].value > store[cmd[y].key].value
        BY <2>4, <3>3
      <4>2. Passed(store[cmd[x].key], reply[x].era, reply[x].value)
        BY <3>3 DEF NumbersInv
      <4>3. reply[x].value < store'[cmd[y].key].value
        <5> DEFINE e == store[cmd[y].key]  g == store'[cmd[y].key]
        <5>1. /\ e \in Entry /\ g \in Entry
              /\ g.era >= e.era /\ (g.era = e.era => g.value > e.value)
              /\ reply[x].value \in Int /\ reply[x].era = g.era
          BY <1>k, <1>r, <2>1, <2>2, <3>3, <4>1
        <5> QED BY <3>3, <4>2, <5>1, FurtherPassed DEF Passed
      <4> QED BY <1>r, <2>2, <3>3, <4>1, <4>3
    <3> QED BY <2>8, <3>1, <3>2, <3>3
  <2> QED BY <2>3, <2>6, <2>7, <2>8 DEF NumbersInv, NumbersDistinct
<1>3. ASSUME NEW j \in Keys, Expires(j) PROVE NumbersInv' /\ numbers' = numbers
  <2>1. \A k \in Keys : store'[k].era = store[k].era /\ store'[k].value = store[k].value
    BY <1>3, ExpiresKey
  <2>2. \A c \in Callers : Counting(c)' <=> Counting(c)
    BY <1>3 DEF Expires, callVars, Counting
  <2> QED BY <1>3, <1>c, <1>w, <2>1, <2>2
          DEF Expires, callVars, histVars, NumbersInv, NumbersDistinct, Passed
<1>4. ASSUME NEW c \in Callers, Resend(c) \/ GiveUp(c) PROVE NumbersInv' /\ numbers' = numbers
  <2>1. \A d \in Callers : Counting(d)' => /\ Counting(d) /\ reply'[d] = reply[d]
                                           /\ earlier'[d] = earlier[d]
    BY <1>4 DEF Resend, GiveUp, Counting, TypeOK, histVars
  <2> QED BY <1>4, <2>1
          DEF Resend, GiveUp, serverVars, histVars, NumbersInv, NumbersDistinct, Passed
<1>5. ASSUME NEW c \in Callers, Return(c) PROVE NumbersInv' /\ NewInOrder
  <2>1. \A d \in Callers : Counting(d)' => /\ Counting(d) /\ reply'[d] = reply[d] /\ d # c
                                           /\ earlier'[d] = earlier[d]
    BY <1>5 DEF Return, Counting, TypeOK
  <2>2. cmd' = cmd /\ store' = store
    BY <1>5 DEF Return, serverVars
  <2>3. CASE numbers' = numbers
    BY <2>1, <2>2, <2>3 DEF NumbersInv, NumbersDistinct, Passed
  <2>4. CASE numbers' # numbers
    <3>1. Counting(c)
      <4>1. pc[c] = "replied" /\ cmd[c].fn = "Increment"
            /\ Outcome(cmd[c], reply[c]).kind = "value"
        BY <1>5, <2>4 DEF Return
      <4> QED BY <4>1 DEF Outcome, Counting
    <3>2. PICK x : /\ numbers' = numbers \union {x} /\ x.key = cmd[c].key /\ x.by = c
                   /\ x.era = reply[c].era /\ x.n = reply[c].value
      BY <1>5, <2>4, <3>1 DEF Return, Outcome, NumbersInv
    <3>3. NewInOrder
      BY <3>1, <3>2 DEF NumbersInv
    <3>4. /\ \A m \in numbers' : Passed(store'[m.key], m.era, m.n)
          /\ NumbersDistinct'
      BY <1>w, <1>r, <2>2, <3>1, <3>2 DEF NumbersInv, NumbersDistinct, Passed
    <3>5. \A d \in Callers : Counting(d)' =>
            \A m \in numbers' : m.key = cmd'[d].key /\ m.era = reply'[d].era
                                  => m.n # reply'[d].value
      BY <2>1, <2>2, <3>1, <3>2 DEF NumbersInv
    <3> QED BY <2>1, <2>2, <3>3, <3>4, <3>5 DEF NumbersInv, Passed
  <2> QED BY <2>3, <2>4
<1>6. CASE InitRedis \/ CloseRedis \/ UNCHANGED vars
  BY <1>6 DEF InitRedis, CloseRedis, vars, serverVars, callVars, histVars,
              NumbersInv, NumbersDistinct, Counting, Passed
<1> QED
  BY <1>1, <1>2, <1>3, <1>4, <1>5, <1>6, FunctionsSend DEF Next

-----------------------------------------------------------------------------
Invariant == TypeOK /\ CopiesInv /\ WinsInv /\ NumbersInv

LEMMA Invariance == Spec => []Invariant
<1>1. Init => Invariant
  BY InitTyped DEF Invariant
<1>2. Invariant /\ [Next]_vars => Invariant'
  BY StepTyped, StepWins, StepNumbers DEF Invariant
<1> QED BY <1>1, <1>2, PTL DEF Spec

(* The variables of every state of the program's calls have their types.     *)
THEOREM TypeCorrect == Spec => []TypeOK
<1>1. Invariant => TypeOK
  BY DEF Invariant
<1> QED BY <1>1, Invariance, PTL

(* SetIfAbsent excludes: however often go-redis sends a command, and however *)
(* late a copy of it is run, no two calls are told that they set one key.    *)
THEOREM MutualExclusion == Spec => []OneWinner
<1>1. Invariant => OneWinner
  BY DEF Invariant, WinsInv
<1> QED BY <1>1, Invariance, PTL

(* Increment numbers its callers apart ...                                   *)
THEOREM DistinctNumbers == Spec => []NumbersDistinct
<1>1. Invariant => NumbersDistinct
  BY DEF Invariant, NumbersInv
<1> QED BY <1>1, Invariance, PTL

(* ... and in the order in which calls follow each other.                    *)
THEOREM OrderedNumbers == Spec => NumbersInOrder
<1>1. Invariant /\ [Next]_vars =>
        [\A n \in numbers' \ numbers : \A m \in earlier[n.by] :
           m.key = n.key /\ m.era = n.era => m.n < n.n]_vars
  BY StepNumbers DEF Invariant
<1> QED BY <1>1, Invariance, PTL DEF Spec, NumbersInOrder
=============================================================================
