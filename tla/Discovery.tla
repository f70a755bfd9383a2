----------------------------- MODULE Discovery -----------------------------
(***************************************************************************)
(* The service discovery cache of nacos/client.go: goroutines that ask for *)
(* instances subscribe a service on first use, fill a cache that the Nacos *)
(* SDK's notifications keep up to date, and may drop it again.             *)
(*                                                                         *)
(* The package-level mutex is only held over short regions with no call    *)
(* that blocks, so each locked region is one action; everything between    *)
(* two regions interleaves.  The balancing state that some of the regions  *)
(* also touch (currentWeights, roundRobinCounters) is in module Balancer,  *)
(* and module NacosClient runs both in the same steps.                     *)
(***************************************************************************)
EXTENDS NacosBase, Naturals

CONSTANTS
  Unsubscribers,  \* the goroutines that may call UnsubscribeService
  Filters,        \* sets of hosts a metadata or gray-version filter lets through
  MaxVersion      \* bound on the changes of the registry, for TLC

ASSUME DiscoveryAssumption ==
  /\ Unsubscribers \subseteq Goroutines
  /\ Filters \subseteq SUBSET Hosts
  /\ MaxVersion \in Nat

VARIABLES
  registry,            \* external: the instance list the Nacos server holds
  listening,           \* external: the SDK holds a SubscribeCallback
  pushed,              \* external: version last handed to that callback
  notifier,            \* the SDK's goroutine inside SubscribeCallback
  subscribedServices,
  serviceInstances,
  serviceCallbacks,
  pc, svc, op,         \* where a goroutine is, and the call it runs
  instances,           \* its local list: SelectInstances' result, then the cached one
  answer,              \* what its last call returned
  dropped,             \* history: its service was dropped after it was ensured
  unsubscribed         \* history: the SDK was told to unsubscribe a service

sdkVars == <<registry, listening, pushed, notifier>>
cacheVars == <<subscribedServices, serviceInstances, serviceCallbacks>>
callVars == <<pc, svc, op, instances, answer, dropped>>
vars == <<sdkVars, cacheVars, callVars, unsubscribed>>

-----------------------------------------------------------------------------
(* A list of instances: the registry version it shows, its hosts that are  *)
(* healthy and those that are not.  A missing map entry reads as a nil     *)
(* slice; the registry's versions start at 1.                              *)
List == [ver : Nat, up : SUBSET Hosts, down : SUBSET Hosts]
NilList == [ver |-> 0, up |-> {}, down |-> {}]
HealthyOnly(list) == [ver |-> list.ver, up |-> list.up, down |-> {}]
Passing(list, filter) ==
  [ver |-> list.ver, up |-> list.up \cap filter, down |-> list.down \cap filter]

Ops == {"get", "getAll", "unsubscribe"}
Ensuring == {"check", "recheck", "select", "store", "subscribe", "publish"}
PCs == {"idle", "read", "choose", "unsubCheck", "unsubCall", "unsubClean"}
         \cup Ensuring

NoAnswer == [kind |-> "none", up |-> {}, down |-> {}]
Failed == [kind |-> "error", up |-> {}, down |-> {}]
Found(up, down) == [kind |-> "ok", up |-> up, down |-> down]
Answer == [kind : {"none", "error", "ok"}, up : SUBSET Hosts, down : SUBSET Hosts]

TypeOK ==
  /\ registry \in [Services -> List]
  /\ listening \in [Services -> BOOLEAN]
  /\ pushed \in [Services -> Nat]
  /\ notifier \in [Services -> [busy : BOOLEAN, list : List]]
  /\ subscribedServices \in [Services -> BOOLEAN]
  /\ serviceInstances \in [Services -> List]
  /\ serviceCallbacks \in [Services -> BOOLEAN]
  /\ pc \in [Goroutines -> PCs]
  /\ svc \in [Goroutines -> Services]
  /\ op \in [Goroutines -> Ops]
  /\ instances \in [Goroutines -> List]
  /\ answer \in [Goroutines -> Answer]
  /\ dropped \in [Goroutines -> BOOLEAN]
  /\ unsubscribed \in [Services -> BOOLEAN]

Init ==
  /\ registry = [s \in Services |-> [ver |-> 1, up |-> Hosts, down |-> {}]]
  /\ listening = [s \in Services |-> FALSE]
  /\ pushed = [s \in Services |-> 0]
  /\ notifier = [s \in Services |-> [busy |-> FALSE, list |-> NilList]]
  /\ subscribedServices = [s \in Services |-> FALSE]
  /\ serviceInstances = [s \in Services |-> NilList]
  /\ serviceCallbacks = [s \in Services |-> FALSE]
  /\ pc = [g \in Goroutines |-> "idle"]
  /\ svc \in [Goroutines -> Services]
  /\ op = [g \in Goroutines |-> "get"]
  /\ instances = [g \in Goroutines |-> NilList]
  /\ answer = [g \in Goroutines |-> NoAnswer]
  /\ dropped = [g \in Goroutines |-> FALSE]
  /\ unsubscribed = [s \in Services |-> FALSE]

-----------------------------------------------------------------------------
(* The Nacos server and the SDK (external).  Subscribe registers the       *)
(* callback, which is handed the current list and then every later one, in *)
(* order, one call at a time: the strongest behaviour the code could rely  *)
(* on.  A pushed list holds all the instances, the unhealthy ones too.     *)

\* Instances come, go, or change their health on the server.
RegistryChange(s) ==
  /\ registry[s].ver < MaxVersion
  /\ \E up, down \in SUBSET Hosts :
       /\ up \cap down = {}
       /\ registry' = [registry EXCEPT
            ![s] = [ver |-> registry[s].ver + 1, up |-> up, down |-> down]]
  /\ UNCHANGED <<listening, pushed, notifier, cacheVars, callVars, unsubscribed>>

\* SubscribeCallback looks the service's callback up under the read lock; it
\* does nothing when the callback has been deleted.  A notification with an
\* error is only logged: it is no step, and is taken to use up no change.
Notify(s) ==
  /\ listening[s] /\ ~notifier[s].busy
  /\ pushed[s] < registry[s].ver
  /\ pushed' = [pushed EXCEPT ![s] = registry[s].ver]
  /\ notifier' = [notifier EXCEPT ![s] =
       IF serviceCallbacks[s] THEN [busy |-> TRUE, list |-> registry[s]] ELSE @]
  /\ UNCHANGED <<registry, listening, cacheVars, callVars, unsubscribed>>

\* Mutant: the callback only fills a cache that is still empty.
RunCallback_FillsOnce(s) ==
  /\ notifier[s].busy
  /\ serviceInstances' = [serviceInstances EXCEPT
       ![s] = IF @ = NilList THEN notifier[s].list ELSE @]
  /\ notifier' = [notifier EXCEPT ![s] = [busy |-> FALSE, list |-> NilList]]
  /\ UNCHANGED <<registry, listening, pushed, subscribedServices,
                 serviceCallbacks, callVars, unsubscribed>>

\* The callback found then replaces the cached list, whatever happened since.
RunCallback(s) ==
  /\ notifier[s].busy
  /\ serviceInstances' = [serviceInstances EXCEPT ![s] = notifier[s].list]
  /\ notifier' = [notifier EXCEPT ![s] = [busy |-> FALSE, list |-> NilList]]
  /\ UNCHANGED <<registry, listening, pushed, subscribedServices,
                 serviceCallbacks, callVars, unsubscribed>>

-----------------------------------------------------------------------------
(* Helpers: a goroutine moves on, or returns to its caller.                *)
Goto(g, from, to) ==
  /\ pc[g] = from
  /\ pc' = [pc EXCEPT ![g] = to]
  /\ UNCHANGED <<svc, op>>

Return(g, a) ==
  /\ pc' = [pc EXCEPT ![g] = "idle"]
  /\ answer' = [answer EXCEPT ![g] = a]
  /\ instances' = [instances EXCEPT ![g] = NilList]
  /\ dropped' = [dropped EXCEPT ![g] = FALSE]
  /\ UNCHANGED <<svc, op>>

\* One of the exported functions is called (the client is initialised).
Call(g, s, o) ==
  /\ pc[g] = "idle"
  /\ o = "unsubscribe" => g \in Unsubscribers
  /\ pc' = [pc EXCEPT ![g] = IF o = "unsubscribe" THEN "unsubCheck" ELSE "check"]
  /\ svc' = [svc EXCEPT ![g] = s]
  /\ op' = [op EXCEPT ![g] = o]
  /\ answer' = [answer EXCEPT ![g] = NoAnswer]
  /\ UNCHANGED <<sdkVars, cacheVars, instances, dropped, unsubscribed>>

-----------------------------------------------------------------------------
(* ensureServiceSubscribed *)

\* The check under the read lock, and the second one under the write lock.
CheckSubscribed(g) ==
  /\ \/ Goto(g, "check", IF subscribedServices[svc[g]] THEN "read" ELSE "recheck")
     \/ Goto(g, "recheck", IF subscribedServices[svc[g]] THEN "read" ELSE "select")
  /\ UNCHANGED <<sdkVars, cacheVars, instances, answer, dropped, unsubscribed>>

\* The first list is fetched with no lock held: healthy instances only.
SelectInstances(g) ==
  /\ Goto(g, "select", "store")
  /\ instances' = [instances EXCEPT ![g] = HealthyOnly(registry[svc[g]])]
  /\ UNCHANGED <<sdkVars, cacheVars, answer, dropped, unsubscribed>>

\* Mutant: the service is marked here, so that nobody else subscribes it.
StoreCallback_MarksEarly(g) ==
  /\ IF subscribedServices[svc[g]]
     THEN Goto(g, "store", "read") /\ UNCHANGED <<subscribedServices, serviceCallbacks>>
     ELSE /\ Goto(g, "store", "subscribe")
          /\ subscribedServices' = [subscribedServices EXCEPT ![svc[g]] = TRUE]
          /\ serviceCallbacks' = [serviceCallbacks EXCEPT ![svc[g]] = TRUE]
  /\ UNCHANGED <<sdkVars, serviceInstances, instances, answer, dropped, unsubscribed>>

\* The third check, then the callback is stored.
StoreCallback(g) ==
  /\ IF subscribedServices[svc[g]]
     THEN Goto(g, "store", "read") /\ UNCHANGED serviceCallbacks
     ELSE /\ Goto(g, "store", "subscribe")
          /\ serviceCallbacks' = [serviceCallbacks EXCEPT ![svc[g]] = TRUE]
  /\ UNCHANGED <<sdkVars, subscribedServices, serviceInstances,
                 instances, answer, dropped, unsubscribed>>

\* Mutant: an error of the SDK's Subscribe is not looked at.
Subscribe_ErrorIgnored(g) ==
  /\ Goto(g, "subscribe", "publish")
  /\ \E ok \in BOOLEAN :
       listening' = [listening EXCEPT ![svc[g]] = @ \/ ok]
  /\ pushed' = [pushed EXCEPT ![svc[g]] = 0]
  /\ UNCHANGED <<registry, notifier, cacheVars, instances, answer, dropped, unsubscribed>>

\* The SDK registers the callback and owes it the current list.
Subscribe(g) ==
  /\ Goto(g, "subscribe", "publish")
  /\ listening' = [listening EXCEPT ![svc[g]] = TRUE]
  /\ pushed' = [pushed EXCEPT ![svc[g]] = 0]
  /\ UNCHANGED <<registry, notifier, cacheVars, instances, answer, dropped, unsubscribed>>

\* The service is marked subscribed and the list fetched earlier is cached,
\* with no further check.
Publish(g) ==
  /\ Goto(g, "publish", "read")
  /\ subscribedServices' = [subscribedServices EXCEPT ![svc[g]] = TRUE]
  /\ serviceInstances' = [serviceInstances EXCEPT ![svc[g]] = instances[g]]
  /\ UNCHANGED <<sdkVars, serviceCallbacks, instances, answer, dropped, unsubscribed>>

\* A call into the SDK may fail: the error is returned, nothing is undone.
SdkError(g) ==
  /\ pc[g] \in {"select", "subscribe", "unsubCall"}
  /\ Return(g, Failed)
  /\ UNCHANGED <<sdkVars, cacheVars, unsubscribed>>

-----------------------------------------------------------------------------
(* tryGetHealthyInstance and GetAllHealthyInstances once subscribed *)

\* The cached list is read under the read lock; a published slice is never
\* changed, so the filters may as well run here.
ReadInstances(g) ==
  /\ pc[g] = "read"
  /\ LET list == serviceInstances[svc[g]] IN
       IF op[g] = "getAll"
       THEN Return(g, Found(list.up, list.down))
       ELSE \E filter \in Filters :
              LET passing == Passing(list, filter) IN
              IF passing.up \cup passing.down = {}
              THEN Return(g, Failed)
              ELSE /\ Goto(g, "read", "choose")
                   /\ instances' = [instances EXCEPT ![g] = passing]
                   /\ UNCHANGED <<answer, dropped>>
  /\ UNCHANGED <<sdkVars, cacheVars, unsubscribed>>

\* The load balancer picks one of the hosts left (which one: module Balancer).
Choose(g, h) ==
  /\ pc[g] = "choose"
  /\ h \in instances[g].up \cup instances[g].down
  /\ Return(g, Found(instances[g].up \cap {h}, instances[g].down \cap {h}))
  /\ UNCHANGED <<sdkVars, cacheVars, unsubscribed>>

-----------------------------------------------------------------------------
(* UnsubscribeService *)

UnsubscribeCheck(g) ==
  /\ pc[g] = "unsubCheck"
  /\ IF subscribedServices[svc[g]]
     THEN Goto(g, "unsubCheck", "unsubCall") /\ UNCHANGED <<instances, answer, dropped>>
     ELSE Return(g, Found({}, {}))
  /\ UNCHANGED <<sdkVars, cacheVars, unsubscribed>>

\* The SDK is given neither the callback nor the clusters it was registered
\* with, so it may or may not find it.
UnsubscribeCall(g) ==
  /\ Goto(g, "unsubCall", "unsubClean")
  /\ \E still \in {FALSE, listening[svc[g]]} :
       listening' = [listening EXCEPT ![svc[g]] = still]
  /\ unsubscribed' = [unsubscribed EXCEPT ![svc[g]] = TRUE]
  /\ UNCHANGED <<registry, pushed, notifier, cacheVars, instances, answer, dropped>>

\* All the entries of the service are deleted in one locked region.  The
\* history variable tells the goroutines that were past ensureServiceSubscribed.
UnsubscribeClean(g) ==
  /\ pc[g] = "unsubClean"
  /\ pc' = [pc EXCEPT ![g] = "idle"]
  /\ subscribedServices' = [subscribedServices EXCEPT ![svc[g]] = FALSE]
  /\ serviceInstances' = [serviceInstances EXCEPT ![svc[g]] = NilList]
  /\ serviceCallbacks' = [serviceCallbacks EXCEPT ![svc[g]] = FALSE]
  /\ dropped' = [h \in Goroutines |->
                   dropped[h] \/ (pc[h] \in {"read", "choose"} /\ svc[h] = svc[g])]
  /\ answer' = [answer EXCEPT ![g] = Found({}, {})]
  /\ UNCHANGED <<sdkVars, svc, op, instances, unsubscribed>>

-----------------------------------------------------------------------------
Step(g) ==
  \/ CheckSubscribed(g) \/ SelectInstances(g) \/ StoreCallback(g)
  \/ Subscribe(g) \/ Publish(g) \/ SdkError(g)
  \/ ReadInstances(g) \/ (\E h \in Hosts : Choose(g, h))
  \/ UnsubscribeCheck(g) \/ UnsubscribeCall(g) \/ UnsubscribeClean(g)

Next ==
  \/ \E s \in Services : RegistryChange(s) \/ Notify(s) \/ RunCallback(s)
  \/ \E g \in Goroutines :
       \/ \E s \in Services, o \in Ops : Call(g, s, o)
       \/ Step(g)

Spec == Init /\ [][Next]_vars

(* A goroutine that is in a call keeps running and the SDK's notifier keeps *)
(* delivering; nothing makes callers call or the registry change.           *)
FairSpec ==
  /\ Spec
  /\ \A g \in Goroutines : WF_vars(Step(g))
  /\ \A s \in Services : WF_vars(Notify(s)) /\ WF_vars(RunCallback(s))

-----------------------------------------------------------------------------
(* The registry's list reaches the cache of a subscribed service before    *)
(* anyone can read it: a goroutine that ensureServiceSubscribed let through *)
(* reads a missing entry (and so reports "no healthy instance" for a        *)
(* service that has some) only if UnsubscribeService dropped it in between. *)
ReadersFindList ==
  \A g \in Goroutines :
    pc[g] = "read" /\ ~dropped[g] => serviceInstances[svc[g]].ver >= 1

(* Its inductive form: every list on its way to the cache came from the    *)
(* registry, a subscribed service has one, and a goroutine that was let     *)
(* through finds its service subscribed until it is dropped.                *)
ListsInv ==
  /\ \A s \in Services :
       /\ registry[s].ver >= 1
       /\ notifier[s].busy => notifier[s].list.ver >= 1
       /\ subscribedServices[s] => serviceInstances[s].ver >= 1
  /\ \A g \in Goroutines :
       /\ pc[g] \in {"store", "subscribe", "publish"} => instances[g].ver >= 1
       /\ pc[g] \in {"read", "choose"} /\ ~dropped[g] => subscribedServices[svc[g]]

(* The comment of ensureServiceSubscribed, "make sure the service is        *)
(* subscribed": a service marked subscribed has a callback stored and the   *)
(* SDK calling it, as long as nobody ever unsubscribed it.                  *)
SubscribedIsConnected ==
  \A s \in Services :
    subscribedServices[s] /\ ~unsubscribed[s] => listening[s] /\ serviceCallbacks[s]

(* Its inductive form: a subscription under way has its callback stored     *)
(* before the SDK is asked, and the SDK's consent before it is published.   *)
ConnectedInv ==
  /\ SubscribedIsConnected
  /\ \A g \in Goroutines :
       LET s == svc[g] IN
       /\ pc[g] = "unsubClean" => unsubscribed[s]
       /\ pc[g] \in {"subscribe", "publish"} /\ ~unsubscribed[s] => serviceCallbacks[s]
       /\ pc[g] = "publish" /\ ~unsubscribed[s] => listening[s]

(* "Subscribe to changes of the service": once nobody is inside a call and  *)
(* the SDK has nothing left to deliver, the cached list of a subscribed     *)
(* service is the registry's current one.                                   *)
QuietCacheIsCurrent ==
  \A s \in Services :
    /\ subscribedServices[s]
    /\ \A g \in Goroutines : pc[g] = "idle"
    /\ ~notifier[s].busy
    /\ ~(listening[s] /\ pushed[s] < registry[s].ver)
    => serviceInstances[s].ver = registry[s].ver

(* A service that is subscribed with no subscription of it still under way. *)
Settled(s) ==
  /\ subscribedServices[s]
  /\ \A g \in Goroutines :
       svc[g] = s => pc[g] \notin {"select", "store", "subscribe", "publish"}

(* A change of the registry that the SDK has not pushed yet when the        *)
(* service is settled reaches the cache, unless somebody unsubscribes it.   *)
ChangeReachesCache ==
  \A s \in Services : \A v \in 1..MaxVersion :
    Settled(s) /\ registry[s].ver = v /\ pushed[s] < v
      ~> serviceInstances[s].ver >= v \/ unsubscribed[s]
=============================================================================
