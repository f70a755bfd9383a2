------------------------------- MODULE MCRedis -------------------------------
(***************************************************************************)
(* Small instances, for TLC, of the two parts that work on Redis: the      *)
(* commands, with every function of redis.go, and the rate limiter.  They  *)
(* share no key, so a behaviour is one of one of them, and the other is at *)
(* rest.                                                                   *)
(***************************************************************************)
EXTENDS RedisCommands, RateLimiter

VARIABLE part   \* "commands" or "limiter"

AllFunctions == Functions

-----------------------------------------------------------------------------
RedisInit == part \in {"commands", "limiter"} /\ Init /\ LimiterInit

RedisNext ==
  /\ UNCHANGED part
  /\ \/ part = "commands" /\ Next /\ UNCHANGED limiterVars
     \/ part = "limiter" /\ LimiterNext /\ UNCHANGED vars

all == <<part, vars, limiterVars>>

(* A key's lifetime passes.                                                 *)
RedisSpec ==
  /\ RedisInit /\ [][RedisNext]_all
  /\ \A k \in Keys : WF_all(part = "commands" /\ Expires(k) /\ UNCHANGED <<part, limiterVars>>)
=============================================================================
