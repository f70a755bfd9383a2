------------------------------ MODULE Balancer ------------------------------
(***************************************************************************)
(* Load balancing of nacos/client.go: the strategies that pick one of the  *)
(* instances left by the filters, the state per service they share (smooth *)
(* weights, round-robin counters) and the discovery steps that reset or    *)
(* delete it.  One action per locked region or atomic operation.           *)
(*                                                                         *)
(* A missing weight reads as 0 and a published map is never changed, so a  *)
(* weights map is a total function and a goroutine's reference to it is    *)
(* its value.  Weights are integers, in units of which Unit make the       *)
(* code's 1.0.  A counter that the service's entry no longer points to is  *)
(* an orphan: its value is left open.  The int64 overflow of a counter,     *)
(* 2^63 selections away, is left out.                                      *)
(***************************************************************************)
EXTENDS NacosBase, Integers, Sequences, FiniteSets, Functions

CONSTANTS
  Unit,             \* the code's 1.0
  Lists,            \* the filtered lists that calls bring, in list order
  Strategies,       \* values the configuration may give loadBalanceType
  Changes,          \* the discovery steps that may happen (Discover)
  Period            \* counters are kept modulo this multiple of the lists' lengths

ASSUME BalancerAssumption ==
  /\ IsFiniteSet(Hosts)
  /\ Unit \in Nat \ {0}
  /\ Lists # {}
  /\ \A l \in Lists :
       /\ l \in Seq([host : Hosts, weight : Nat]) /\ l # <<>>
       /\ \A i, j \in DOMAIN l : l[i].host = l[j].host => i = j
  /\ Strategies \subseteq {"weighted_round_robin", "round_robin", "random"}
  /\ Changes \subseteq {"notified", "subscribed", "dropped"}
  /\ Period \in Nat \ {0}
  /\ \A l \in Lists : Period % Len(l) = 0

VARIABLES
  loadBalanceType,     \* set before the first selection, never changed after
  currentWeights,
  roundRobinCounters,  \* NoCounter where the service has no entry
  at,                  \* where a goroutine is in a selection
  service, list,       \* what it selects for, and from
  localWeights,        \* its copy of the weights
  orphan               \* its counter is no longer the service's

sharedVars == <<loadBalanceType, currentWeights, roundRobinCounters>>
localVars == <<at, service, list, localWeights, orphan>>
balancerVars == <<sharedVars, localVars>>

-----------------------------------------------------------------------------
NoCounter == -1
NoWeights == [h \in Hosts |-> 0]
HostsOf(l) == {l[i].host : i \in DOMAIN l}
WeightIn(l, h) == l[CHOOSE i \in DOMAIN l : l[i].host = h].weight
TotalWeight(l) == SumFunction([i \in DOMAIN l |-> l[i].weight])

BalancerTypeOK ==
  /\ loadBalanceType \in Strategies
  /\ currentWeights \in [Services -> [Hosts -> Int]]
  /\ roundRobinCounters \in [Services -> Nat \cup {NoCounter}]
  /\ at \in [Goroutines -> {"idle", "weigh", "add"}]
  /\ service \in [Goroutines -> Services]
  /\ list \in [Goroutines -> Lists]
  /\ localWeights \in [Goroutines -> [Hosts -> Int]]
  /\ orphan \in [Goroutines -> BOOLEAN]

BalancerInit ==
  /\ loadBalanceType \in Strategies
  /\ currentWeights = [s \in Services |-> NoWeights]
  /\ roundRobinCounters = [s \in Services |-> NoCounter]
  /\ at = [g \in Goroutines |-> "idle"]
  /\ service \in [Goroutines -> Services]
  /\ list = [g \in Goroutines |-> CHOOSE l \in Lists : TRUE]
  /\ localWeights = [g \in Goroutines |-> NoWeights]
  /\ orphan = [g \in Goroutines |-> FALSE]

-----------------------------------------------------------------------------
(* The parts of the discovery's locked regions that touch this state.      *)

\* The notification callback: empty weights, the counter's value back to 0.
ResetBalance(s) ==
  /\ currentWeights' = [currentWeights EXCEPT ![s] = NoWeights]
  /\ roundRobinCounters' = [roundRobinCounters EXCEPT
                              ![s] = IF @ = NoCounter THEN NoCounter ELSE 0]
  /\ UNCHANGED <<loadBalanceType, localVars>>

\* The end of ensureServiceSubscribed: empty weights, a new counter.
StartBalance(s) ==
  /\ currentWeights' = [currentWeights EXCEPT ![s] = NoWeights]
  /\ roundRobinCounters' = [roundRobinCounters EXCEPT ![s] = 0]
  /\ orphan' = [g \in Goroutines |->
                  orphan[g] \/ (at[g] = "add" /\ service[g] = s)]
  /\ UNCHANGED <<loadBalanceType, at, service, list, localWeights>>

\* UnsubscribeService: both entries are deleted.
DropBalance(s) ==
  /\ currentWeights' = [currentWeights EXCEPT ![s] = NoWeights]
  /\ roundRobinCounters' = [roundRobinCounters EXCEPT ![s] = NoCounter]
  /\ orphan' = [g \in Goroutines |->
                  orphan[g] \/ (at[g] = "add" /\ service[g] = s)]
  /\ UNCHANGED <<loadBalanceType, at, service, list, localWeights>>

Discover(s) ==
  \/ "notified" \in Changes /\ ResetBalance(s)
  \/ "subscribed" \in Changes /\ StartBalance(s)
  \/ "dropped" \in Changes /\ DropBalance(s)

-----------------------------------------------------------------------------
(* selectInstanceByLoadBalanceTypeOptimized *)

\* The shared state is read: a copy of the weights, or the counter, created
\* at 0 where the service has none.
Begin(g, s, l) ==
  /\ at[g] = "idle"
  /\ service' = [service EXCEPT ![g] = s]
  /\ list' = [list EXCEPT ![g] = l]
  /\ \/ /\ loadBalanceType = "weighted_round_robin"
        /\ at' = [at EXCEPT ![g] = "weigh"]
        /\ localWeights' = [localWeights EXCEPT ![g] = currentWeights[s]]
        /\ UNCHANGED <<roundRobinCounters, orphan>>
     \/ /\ loadBalanceType = "round_robin"
        /\ at' = [at EXCEPT ![g] = "add"]
        /\ roundRobinCounters' = [roundRobinCounters EXCEPT
                                    ![s] = IF @ = NoCounter THEN 0 ELSE @]
        /\ orphan' = [orphan EXCEPT ![g] = FALSE]
        /\ UNCHANGED localWeights
  /\ UNCHANGED <<loadBalanceType, currentWeights>>

Finish(g) ==
  /\ at' = [at EXCEPT ![g] = "idle"]
  /\ localWeights' = [localWeights EXCEPT ![g] = NoWeights]
  /\ orphan' = [orphan EXCEPT ![g] = FALSE]
  /\ UNCHANGED <<service, list>>

\* Every host of the list gains its weight ...
Raised(g) ==
  [h \in Hosts |-> localWeights[g][h]
                     + IF h \in HostsOf(list[g]) THEN WeightIn(list[g], h) ELSE 0]

\* ... and the scan keeps the first of the heaviest ones, if any is above the
\* -1 it starts from.
Selected(w, l) ==
  {l[i].host : i \in {k \in DOMAIN l :
     /\ w[l[k].host] > -Unit
     /\ \A j \in DOMAIN l : w[l[j].host] <= w[l[k].host]
     /\ \A j \in 1..(k - 1) : w[l[j].host] < w[l[k].host]}}

\* Mutant: the host picked pays its own weight only.
Weigh_PaysOwn(g, h) ==
  /\ at[g] = "weigh"
  /\ LET w == Raised(g)
         l == list[g] IN
     \/ /\ h \in Selected(w, l)
        /\ currentWeights' = [currentWeights EXCEPT
             ![service[g]] = [w EXCEPT ![h] = @ - WeightIn(l, h)]]
     \/ /\ Selected(w, l) = {} /\ h = l[1].host
        /\ UNCHANGED currentWeights
  /\ Finish(g)
  /\ UNCHANGED <<loadBalanceType, roundRobinCounters>>

\* selectWeightedRoundRobinOptimized: the host picked pays the total weight
\* and the copy replaces the shared map.  When the scan selects nothing, the
\* first host is returned and the weights are not written.
Weigh(g, h) ==
  /\ at[g] = "weigh"
  /\ LET w == Raised(g)
         l == list[g] IN
     \/ /\ h \in Selected(w, l)
        /\ currentWeights' = [currentWeights EXCEPT
             ![service[g]] = [w EXCEPT ![h] = @ - TotalWeight(l)]]
     \/ /\ Selected(w, l) = {} /\ h = l[1].host
        /\ UNCHANGED currentWeights
  /\ Finish(g)
  /\ UNCHANGED <<loadBalanceType, roundRobinCounters>>

\* Mutant: the index never reaches the last host.
Add_ShortIndex(g, h) ==
  /\ at[g] = "add"
  /\ IF orphan[g]
     THEN h \in HostsOf(list[g]) /\ UNCHANGED roundRobinCounters
     ELSE LET count == (roundRobinCounters[service[g]] + 1) % Period IN
          /\ roundRobinCounters' = [roundRobinCounters EXCEPT ![service[g]] = count]
          /\ h = list[g][(count % (Len(list[g]) - 1)) + 1].host
  /\ Finish(g)
  /\ UNCHANGED <<loadBalanceType, currentWeights>>

\* selectRoundRobinOptimized: one atomic add, and the index it gives.
Add(g, h) ==
  /\ at[g] = "add"
  /\ IF orphan[g]
     THEN h \in HostsOf(list[g]) /\ UNCHANGED roundRobinCounters
     ELSE LET count == (roundRobinCounters[service[g]] + 1) % Period IN
          /\ roundRobinCounters' = [roundRobinCounters EXCEPT ![service[g]] = count]
          /\ h = list[g][(count % Len(list[g])) + 1].host
  /\ Finish(g)
  /\ UNCHANGED <<loadBalanceType, currentWeights>>

\* selectRandomOptimized touches none of the shared state.
Random(g, s, l, h) ==
  /\ loadBalanceType = "random"
  /\ at[g] = "idle" /\ h \in HostsOf(l)
  /\ service' = [service EXCEPT ![g] = s]
  /\ list' = [list EXCEPT ![g] = l]
  /\ UNCHANGED <<sharedVars, at, localWeights, orphan>>

Pick(g, h) == Weigh(g, h) \/ Add(g, h)

(* Callers that race overwrite each other's weights, and may write back     *)
(* those of a list replaced meanwhile; but each write is balanced, so the   *)
(* weights of a service always add up to zero and cannot drift away.        *)
WeightsBalanced ==
  \A s \in Services : SumFunction(currentWeights[s]) = 0

(* Its inductive form: so are the copies that callers are about to write    *)
(* back.                                                                    *)
BalancedInv ==
  /\ BalancerTypeOK
  /\ WeightsBalanced
  /\ \A g \in Goroutines : at[g] = "weigh" => SumFunction(localWeights[g]) = 0

(* The code says of the branch that returns the first host because none     *)
(* was selected: "in theory this does not happen".                          *)
AlwaysSelects ==
  \A g \in Goroutines : at[g] = "weigh" => Selected(Raised(g), list[g]) # {}
=============================================================================
