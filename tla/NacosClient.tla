---------------------------- MODULE NacosClient ----------------------------
(***************************************************************************)
(* nacos/client.go as a whole: the discovery cache and the load balancer   *)
(* over the one mutex.  A locked region that touches both is one step of   *)
(* both; a call that found instances selects one of them step by step.     *)
(***************************************************************************)
EXTENDS Discovery, Balancer, SequencesExt

CONSTANT Weight  \* of each instance, in the balancer's units

\* The instances of a filtered list, in the server's order.
ListOf(hosts) ==
  LET order == SetToSortSeq(hosts, <) IN
  [i \in DOMAIN order |-> [host |-> order[i], weight |-> Weight[order[i]]]]

ASSUME ClientAssumption ==
  \A hosts \in (SUBSET Hosts) \ {{}} : ListOf(hosts) \in Lists

discoveryVars == <<sdkVars, cacheVars, callVars, unsubscribed>>
clientVars == <<discoveryVars, balancerVars>>

ClientInit == Init /\ BalancerInit

-----------------------------------------------------------------------------
(* The locked regions that touch both states.                              *)
RunCallbackOfBoth(s) == RunCallback(s) /\ ResetBalance(s)

\* Mutant: the subscription resets a counter but does not create one.
PublishBoth_NoCounter(g) == Publish(g) /\ ResetBalance(svc[g])

PublishBoth(g) == Publish(g) /\ StartBalance(svc[g])
UnsubscribeCleanBoth(g) == UnsubscribeClean(g) /\ DropBalance(svc[g])

(* tryGetHealthyInstance hands the filtered list to the balancer, and       *)
(* returns what the balancer picks.                                         *)
Offered(g) == ListOf(instances[g].up \cup instances[g].down)

BeginSelection(g) ==
  /\ pc[g] = "choose"
  /\ Begin(g, svc[g], Offered(g))
  /\ UNCHANGED discoveryVars

Select(g) ==
  \E h \in Hosts :
    /\ Choose(g, h)
    /\ Pick(g, h) \/ Random(g, svc[g], Offered(g), h)

DiscoveryOnly(g) ==
  /\ \/ \E s \in Services, o \in Ops : Call(g, s, o)
     \/ CheckSubscribed(g) \/ SelectInstances(g)
     \/ StoreCallback(g) \/ Subscribe(g)
     \/ SdkError(g) \/ ReadInstances(g)
     \/ UnsubscribeCheck(g) \/ UnsubscribeCall(g)
  /\ UNCHANGED balancerVars

ClientNext ==
  \/ \E s \in Services :
       \/ RunCallbackOfBoth(s)
       \/ /\ RegistryChange(s) \/ Notify(s)
          /\ UNCHANGED balancerVars
  \/ \E g \in Goroutines :
       \/ DiscoveryOnly(g) \/ PublishBoth(g) \/ UnsubscribeCleanBoth(g)
       \/ BeginSelection(g) \/ Select(g)

ClientSpec == ClientInit /\ [][ClientNext]_clientVars

-----------------------------------------------------------------------------
(* The counter of a service is there for whoever ensureServiceSubscribed    *)
(* let through: a selection creates one only after UnsubscribeService has   *)
(* dropped the service under it.                                            *)
SelectorsFindCounter ==
  \A g \in Goroutines :
    pc[g] \in {"read", "choose"} /\ ~dropped[g]
      => roundRobinCounters[svc[g]] # NoCounter

(* Its inductive form: a service marked subscribed has a counter, which the *)
(* same locked region created, and whoever was let through finds the mark   *)
(* until the service is dropped.                                            *)
CounterInv ==
  /\ \A s \in Services : subscribedServices[s] => roundRobinCounters[s] # NoCounter
  /\ \A g \in Goroutines :
       pc[g] \in {"read", "choose"} /\ ~dropped[g] => subscribedServices[svc[g]]
=============================================================================
