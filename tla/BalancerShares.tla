--------------------------- MODULE BalancerShares ---------------------------
(***************************************************************************)
(* What the strategies of module Balancer promise, over the picks made     *)
(* since the last reset of a service: a history variable counts them.      *)
(***************************************************************************)
EXTENDS Balancer

CONSTANTS
  Offers,    \* sets of lists the callers of a service may bring between resets:
             \* one list when no call filters, several when calls filter
  MaxPicks   \* bound on the picks counted, for TLC

ASSUME SharesAssumption ==
  /\ Offers \subseteq (SUBSET Lists) \ {{}}
  /\ MaxPicks \in Nat

VARIABLES
  offered,  \* the lists that calls bring now
  served,   \* picks of each host, by list, since the service's last reset
  serial,   \* since then, and when it came, no two selections were under way
  mixed     \* when it came, one from another list was under way

sharesVars == <<balancerVars, offered, served, serial, mixed>>

SharesTypeOK ==
  /\ BalancerTypeOK
  /\ offered \in [Services -> (SUBSET Lists) \ {{}}]
  /\ DOMAIN served = Services
  /\ \A s \in Services : served[s] \in [offered[s] -> [Hosts -> Nat]]
  /\ serial \in [Services -> BOOLEAN]
  /\ mixed \in [Services -> BOOLEAN]

NoneServed(lists) == [l \in lists |-> [h \in Hosts |-> 0]]
PicksOf(s, l) == SumFunction(served[s][l])
Picks(s) == SumFunction([l \in offered[s] |-> PicksOf(s, l)])

SharesInit ==
  /\ BalancerInit
  /\ offered \in [Services -> Offers]
  /\ served = [s \in Services |-> NoneServed(offered[s])]
  /\ serial = [s \in Services |-> TRUE]
  /\ mixed = [s \in Services |-> FALSE]

Quiet == \A g \in Goroutines : at[g] = "idle"

\* A pick from an orphaned counter, or from a list read before the last
\* reset, is not one of the service's rotation.
Account(g, s, l, h) ==
  /\ served' = IF orphan[g] \/ l \notin offered[s] THEN served
               ELSE [served EXCEPT ![s][l][h] = @ + 1]
  /\ UNCHANGED <<offered, serial, mixed>>

\* A selection begins, alone or beside others.
Enter(g, s, l) ==
  /\ Begin(g, s, l)
  /\ serial' = [t \in Services |-> serial[t] /\ Quiet]
  /\ UNCHANGED <<offered, served, mixed>>

Reset(s) ==
  /\ Discover(s)
  /\ \E lists \in Offers :
       /\ offered' = [offered EXCEPT ![s] = lists]
       /\ served' = [served EXCEPT ![s] = NoneServed(lists)]
       /\ mixed' = [mixed EXCEPT ![s] =
            \E g \in Goroutines : at[g] # "idle" /\ service[g] = s /\ list[g] \notin lists]
  /\ serial' = [serial EXCEPT ![s] = Quiet]

SharesNext ==
  \/ \E s \in Services : Reset(s)
  \/ \E g \in Goroutines, s \in Services : \E l \in offered[s] :
       /\ Picks(s) < MaxPicks
       /\ \/ Enter(g, s, l)
          \/ \E h \in Hosts : Random(g, s, l, h) /\ Account(g, s, l, h)
  \/ \E g \in Goroutines, h \in Hosts :
       Pick(g, h) /\ Account(g, service[g], list[g], h)

SharesSpec == SharesInit /\ [][SharesNext]_sharesVars

-----------------------------------------------------------------------------
(* Smooth weighted round robin over one list: when the selections since the *)
(* last reset came one after the other, whatever raced before it, each      *)
(* host's current weight is exactly its claim on the picks made minus what  *)
(* it was charged for those it got; no host ever gets a full round more     *)
(* than its claim, and so none falls further behind than the others         *)
(* together can have got ahead.                                             *)
ProportionalShare ==
  \A s \in Services : \A l \in Lists : \A h \in HostsOf(l) :
    /\ loadBalanceType = "weighted_round_robin"
    /\ offered[s] = {l} /\ serial[s] /\ Quiet
    => LET total == TotalWeight(l)
           claim == PicksOf(s, l) * WeightIn(l, h) - total * served[s][l][h] IN
       /\ currentWeights[s][h] = claim
       /\ total > 0 => -total < claim /\ claim <= total * (Len(l) - 1)

(* Its inductive form: a selection that began since the reset is alone and  *)
(* has a copy of the current weights, and hosts off the list weigh nothing. *)
ShareInv ==
  loadBalanceType = "weighted_round_robin" =>
    \A s \in Services : \A l \in Lists : offered[s] = {l} /\ serial[s] =>
      /\ \A h \in HostsOf(l) :
           /\ currentWeights[s][h] =
                PicksOf(s, l) * WeightIn(l, h) - TotalWeight(l) * served[s][l][h]
           /\ TotalWeight(l) > 0 => -TotalWeight(l) < currentWeights[s][h]
      /\ \A h \in Hosts \ HostsOf(l) : currentWeights[s][h] = 0
      /\ \A g \in Goroutines : at[g] # "idle" =>
           /\ \A k \in Goroutines : at[k] # "idle" => k = g
           /\ service[g] = s => list[g] = l /\ localWeights[g] = currentWeights[s]

(* Round robin over one list: however many callers race, and whatever       *)
(* resets happen, no host is ever two picks ahead of another; only a caller *)
(* that still had another list when the last reset came uses up turns.      *)
EvenRotation ==
  \A s \in Services : \A l \in Lists : \A h, k \in HostsOf(l) :
    /\ loadBalanceType = "round_robin"
    /\ offered[s] = {l} /\ ~mixed[s]
    => served[s][l][h] <= served[s][l][k] + 1

(* Its inductive form: up to the ones that the current round has reached,   *)
(* which the counter tells, all hosts have been picked as often; callers    *)
(* that still have the service's counter hold the list.                     *)
Count(s) == IF roundRobinCounters[s] = NoCounter THEN 0 ELSE roundRobinCounters[s]
Reached(i, turn) == IF 2 <= i /\ i <= turn + 1 THEN 1 ELSE 0
FullRounds(s, l, i) == served[s][l][l[i].host] - Reached(i, Count(s) % Len(l))

RotationInv ==
  /\ \A s \in Services : Count(s) < Period
  /\ \A g \in Goroutines :
       /\ at[g] = "weigh" => loadBalanceType = "weighted_round_robin"
       /\ at[g] = "add" => loadBalanceType = "round_robin"
       /\ orphan[g] => at[g] = "add"
       /\ at[g] = "add" /\ ~orphan[g] => roundRobinCounters[service[g]] # NoCounter
  /\ loadBalanceType = "round_robin" =>
       \A s \in Services : \A l \in Lists : offered[s] = {l} /\ ~mixed[s] =>
         /\ \A g \in Goroutines :
              at[g] = "add" /\ service[g] = s /\ ~orphan[g] => list[g] = l
         /\ \A i, j \in DOMAIN l : FullRounds(s, l, i) = FullRounds(s, l, j)
=============================================================================
