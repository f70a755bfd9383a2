---------------------------- MODULE RateLimiter ----------------------------
(***************************************************************************)
(* The rate limiter of redis/redis.go: one script that reads, refills and  *)
(* writes back a bucket kept in two Redis keys that expire together.       *)
(* Redis runs a script as one step.  Clients call it over a network that   *)
(* may lose a reply, and go-redis then sends the script again.             *)
(*                                                                         *)
(* Redis's clock ticks several times a second: keys expire at a tick, the  *)
(* script only sees whole seconds.  Tokens are integers (a fractional rate *)
(* is one of a smaller unit of tokens).                                    *)
(***************************************************************************)
EXTENDS Integers

CONSTANTS
  Rate, Capacity,  \* the arguments every caller of one business key passes
  Amounts,         \* the numbers of tokens requested
  Clients,
  Retries,         \* go-redis MaxRetries
  TicksPerSecond,
  MaxTicks         \* bound on the clock, for TLC

ASSUME LimiterAssumption ==
  /\ Rate \in Nat \ {0} /\ Capacity \in Nat \ {0}
  /\ Amounts \subseteq Nat
  /\ Retries \in Nat
  /\ TicksPerSecond \in Nat \ {0}
  /\ MaxTicks \in Nat

VARIABLES
  ticks,          \* Redis's clock
  stored,         \* the two keys have been written
  tokens, stamp,  \* their values
  expires,        \* the tick they expire at
  limiterPc,      \* of a client: idle, script sent, script run
  requested,      \* by the client's call
  allowed,        \* the verdict in the reply
  resends,        \* of the client's call
  charged         \* history: tokens the script approved, lost replies included

bucketVars == <<stored, tokens, stamp, expires>>
clientVars == <<limiterPc, requested, allowed, resends>>
limiterVars == <<ticks, bucketVars, clientVars, charged>>

-----------------------------------------------------------------------------
Now == ticks \div TicksPerSecond
Lesser(a, b) == IF a <= b THEN a ELSE b
Greater(a, b) == IF a >= b THEN a ELSE b

\* Mutant: the fill time is not doubled.
Ttl_Short == Capacity \div Rate

\* floor(fill_time * 2), in seconds
Ttl == (2 * Capacity) \div Rate

Present == stored /\ ticks < expires
LastTokens == IF Present THEN tokens ELSE Capacity
LastRefreshed == IF Present THEN stamp ELSE 0

FilledTokens ==
  Lesser(Capacity, LastTokens + Greater(0, Now - LastRefreshed) * Rate)

LimiterTypeOK ==
  /\ ticks \in Nat
  /\ stored \in BOOLEAN
  /\ tokens \in 0..Capacity
  /\ stamp \in Nat
  /\ expires \in Nat
  /\ limiterPc \in [Clients -> {"idle", "sent", "run"}]
  /\ requested \in [Clients -> Nat]
  /\ allowed \in [Clients -> BOOLEAN]
  /\ resends \in [Clients -> 0..Retries]
  /\ charged \in Nat

LimiterInit ==
  /\ ticks = 0
  /\ stored = FALSE /\ tokens = 0 /\ stamp = 0 /\ expires = 0
  /\ limiterPc = [c \in Clients |-> "idle"]
  /\ requested = [c \in Clients |-> 0]
  /\ allowed = [c \in Clients |-> FALSE]
  /\ resends = [c \in Clients |-> 0]
  /\ charged = 0

-----------------------------------------------------------------------------
Tick ==
  /\ ticks < MaxTicks
  /\ ticks' = ticks + 1
  /\ UNCHANGED <<bucketVars, clientVars, charged>>

\* RequestRateLimiter sends the script.
Request(c, n) ==
  /\ limiterPc[c] = "idle"
  /\ limiterPc' = [limiterPc EXCEPT ![c] = "sent"]
  /\ requested' = [requested EXCEPT ![c] = n]
  /\ resends' = [resends EXCEPT ![c] = 0]
  /\ UNCHANGED <<ticks, bucketVars, allowed, charged>>

\* Mutant: the refill is always written, the stamp only when it grants.
RunScript_OldStamp(c) ==
  /\ limiterPc[c] = "sent"
  /\ limiterPc' = [limiterPc EXCEPT ![c] = "run"]
  /\ LET ok == FilledTokens >= requested[c] IN
     /\ allowed' = [allowed EXCEPT ![c] = ok]
     /\ charged' = IF ok THEN charged + requested[c] ELSE charged
     /\ tokens' = IF ok THEN FilledTokens - requested[c] ELSE FilledTokens
     /\ stamp' = IF ok THEN Now ELSE LastRefreshed
     /\ expires' = ticks + Ttl * TicksPerSecond
     /\ stored' = TRUE
  /\ UNCHANGED <<ticks, requested, resends>>

\* requestRateLimiterScript.  With a ttl of 0 nothing is written.
RunScript(c) ==
  /\ limiterPc[c] = "sent"
  /\ limiterPc' = [limiterPc EXCEPT ![c] = "run"]
  /\ LET ok == FilledTokens >= requested[c] IN
     /\ allowed' = [allowed EXCEPT ![c] = ok]
     /\ charged' = IF ok THEN charged + requested[c] ELSE charged
     /\ IF Ttl > 0
        THEN /\ tokens' = IF ok THEN FilledTokens - requested[c] ELSE FilledTokens
             /\ stamp' = Now
             /\ expires' = ticks + Ttl * TicksPerSecond
             /\ stored' = TRUE
        ELSE UNCHANGED bucketVars
  /\ UNCHANGED <<ticks, requested, resends>>

\* The reply arrives and the call returns it.
Answer(c) ==
  /\ limiterPc[c] = "run"
  /\ limiterPc' = [limiterPc EXCEPT ![c] = "idle"]
  /\ UNCHANGED <<ticks, bucketVars, requested, allowed, resends, charged>>

\* The script or its reply is lost; go-redis sends the script again ...
SendAgain(c) ==
  /\ limiterPc[c] \in {"sent", "run"}
  /\ resends[c] < Retries
  /\ limiterPc' = [limiterPc EXCEPT ![c] = "sent"]
  /\ resends' = [resends EXCEPT ![c] = @ + 1]
  /\ UNCHANGED <<ticks, bucketVars, requested, allowed, charged>>

\* ... or gives up, and the call returns an error.
Abandon(c) ==
  /\ limiterPc[c] \in {"sent", "run"}
  /\ resends[c] = Retries
  /\ limiterPc' = [limiterPc EXCEPT ![c] = "idle"]
  /\ UNCHANGED <<ticks, bucketVars, requested, allowed, resends, charged>>

LimiterNext ==
  \/ Tick
  \/ \E c \in Clients :
       \/ \E n \in Amounts : Request(c, n)
       \/ RunScript(c) \/ Answer(c) \/ SendAgain(c) \/ Abandon(c)

LimiterSpec == LimiterInit /\ [][LimiterNext]_limiterVars

-----------------------------------------------------------------------------
(* The tokens the bucket holds now, whether or not its keys have expired.   *)
Level == IF stored
         THEN Lesser(Capacity, tokens + (Now - stamp) * Rate)
         ELSE Capacity

(* What the writes guarantee of the keys: their stamp is in the past and    *)
(* they live Ttl whole seconds after it, and a call asks for an amount.      *)
KeysInv ==
  /\ stored => /\ stamp <= Now
               /\ (stamp + Ttl) * TicksPerSecond <= expires
  /\ \A c \in Clients : limiterPc[c] # "idle" => requested[c] \in Amounts

(* The keys expire and the script refills in whole seconds, but nobody can  *)
(* tell: the limiter is the token bucket its parameters describe.           *)
Bucket == INSTANCE TokenBucket WITH level <- Level, second <- Now
IsTokenBucket == Bucket!Spec

(* The tokens in the bucket and those approved were all there at the start   *)
(* or generated since.                                                       *)
GrantsInv == Level + charged <= Capacity + Now * Rate

(* "rate: tokens generated per second", "capacity: of the bucket": what the  *)
(* script approves never exceeds a full bucket and what was generated since, *)
(* whatever is lost and sent again.                                          *)
GrantsWithinRate == charged <= Capacity + Now * Rate

=============================================================================
