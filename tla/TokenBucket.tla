---------------------------- MODULE TokenBucket ----------------------------
(***************************************************************************)
(* What a rate limiter promises (redis/redis.go, RequestRateLimiter): a    *)
(* bucket of Capacity tokens that gains Rate tokens a second, from which a *)
(* request takes the tokens it asks for or nothing.                        *)
(***************************************************************************)
EXTENDS Integers

CONSTANTS Rate, Capacity, Amounts

VARIABLES
  level,    \* tokens in the bucket
  second,   \* the time
  charged   \* tokens granted so far

vars == <<level, second, charged>>

AtMost(a, b) == IF a <= b THEN a ELSE b

Init == level = Capacity /\ second = 0 /\ charged = 0

\* A second passes.
Refill ==
  /\ second' = second + 1
  /\ level' = AtMost(Capacity, level + Rate)
  /\ UNCHANGED charged

\* A request for n tokens that finds them is granted, any other changes nothing.
Take(n) ==
  /\ n <= level
  /\ level' = level - n
  /\ charged' = charged + n
  /\ UNCHANGED second

Next == Refill \/ \E n \in Amounts : Take(n)

Spec == Init /\ [][Next]_vars
=============================================================================
