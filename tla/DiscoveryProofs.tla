-------------------------- MODULE DiscoveryProofs --------------------------
(***************************************************************************)
(* Proofs about module Discovery for any number of goroutines, services,   *)
(* hosts and registry versions.                                            *)
(***************************************************************************)
EXTENDS Discovery, TLAPS

USE DEF List, NilList, Ops, Ensuring, PCs, Answer, NoAnswer, Failed, Found

(* What every action of a goroutine leaves in its two helpers.             *)
LEMMA GotoType ==
  ASSUME TypeOK, NEW g \in Goroutines, NEW from, NEW to \in PCs, Goto(g, from, to)
  PROVE  /\ pc' \in [Goroutines -> PCs]
         /\ svc' \in [Goroutines -> Services]
         /\ op' \in [Goroutines -> Ops]
BY DEF Goto, TypeOK

LEMMA ReturnType ==
  ASSUME TypeOK, NEW g \in Goroutines, NEW a \in Answer, Return(g, a)
  PROVE  /\ pc' \in [Goroutines -> PCs]
         /\ svc' \in [Goroutines -> Services]
         /\ op' \in [Goroutines -> Ops]
         /\ answer' \in [Goroutines -> Answer]
         /\ instances' \in [Goroutines -> List]
         /\ dropped' \in [Goroutines -> BOOLEAN]
BY DEF Return, TypeOK

(* A step of a goroutine keeps every variable in its type.                 *)
LEMMA StepType ==
  ASSUME TypeOK, NEW g \in Goroutines, Step(g)
  PROVE  TypeOK'
<1> USE DEF TypeOK, vars, sdkVars, cacheVars, callVars
<1>1. CASE CheckSubscribed(g)
  <2>1. \E from \in PCs, to \in PCs : Goto(g, from, to)
    BY <1>1 DEF CheckSubscribed
  <2> QED BY <1>1, <2>1, GotoType DEF CheckSubscribed
<1>2. CASE SelectInstances(g)
  <2>1. HealthyOnly(registry[svc[g]]) \in List
    BY DEF HealthyOnly
  <2>2. instances' \in [Goroutines -> List]
    BY <1>2, <2>1 DEF SelectInstances
  <2> QED BY <1>2, <2>2, GotoType DEF SelectInstances
<1>3. CASE StoreCallback(g)
  <2>1. \E to \in PCs : Goto(g, "store", to)
    BY <1>3 DEF StoreCallback
  <2>2. serviceCallbacks' \in [Services -> BOOLEAN]
    BY <1>3 DEF StoreCallback
  <2> QED BY <1>3, <2>1, <2>2, GotoType DEF StoreCallback
<1>4. CASE Subscribe(g)
  BY <1>4, GotoType DEF Subscribe
<1>5. CASE Publish(g)
  BY <1>5, GotoType DEF Publish
<1>6. CASE SdkError(g)
  BY <1>6, ReturnType DEF SdkError
<1>7. CASE ReadInstances(g)
  <2> DEFINE list == serviceInstances[svc[g]]
  <2>1. /\ Found(list.up, list.down) \in Answer
        /\ \A filter \in Filters : Passing(list, filter) \in List
    BY DiscoveryAssumption DEF Passing
  <2>2. CASE \E a \in Answer : Return(g, a)
    BY <1>7, <2>2, ReturnType DEF ReadInstances
  <2>3. CASE /\ Goto(g, "read", "choose")
             /\ \E filter \in Filters :
                  instances' = [instances EXCEPT ![g] = Passing(list, filter)]
             /\ UNCHANGED <<answer, dropped>>
    BY <1>7, <2>1, <2>3, GotoType DEF ReadInstances
  <2> QED BY <1>7, <2>1, <2>2, <2>3 DEF ReadInstances
<1>8. CASE \E h \in Hosts : Choose(g, h)
  BY <1>8, ReturnType DEF Choose
<1>9. CASE UnsubscribeCheck(g)
  BY <1>9, GotoType, ReturnType DEF UnsubscribeCheck
<1>10. CASE UnsubscribeCall(g)
  <2>1. listening' \in [Services -> BOOLEAN]
    BY <1>10 DEF UnsubscribeCall
  <2> QED BY <1>10, <2>1, GotoType DEF UnsubscribeCall
<1>11. CASE UnsubscribeClean(g)
  BY <1>11 DEF UnsubscribeClean
<1> QED
  BY <1>1, <1>2, <1>3, <1>4, <1>5, <1>6, <1>7, <1>8, <1>9, <1>10, <1>11 DEF Step

(* Every variable of the discovery cache keeps its type.                   *)
THEOREM TypeCorrect == Spec => []TypeOK
<1>1. Init => TypeOK
  BY DEF Init, TypeOK
<1>2. TypeOK /\ [Next]_vars => TypeOK'
  <2> SUFFICES ASSUME TypeOK, [Next]_vars PROVE TypeOK'
    OBVIOUS
  <2>1. ASSUME NEW s \in Services, RegistryChange(s) PROVE TypeOK'
    BY <2>1 DEF RegistryChange, TypeOK, cacheVars, callVars
  <2>2. ASSUME NEW s \in Services, Notify(s) PROVE TypeOK'
    BY <2>2 DEF Notify, TypeOK, cacheVars, callVars
  <2>3. ASSUME NEW s \in Services, RunCallback(s) PROVE TypeOK'
    BY <2>3 DEF RunCallback, TypeOK, callVars
  <2>4. ASSUME NEW g \in Goroutines, NEW s \in Services, NEW o \in Ops, Call(g, s, o)
        PROVE  TypeOK'
    BY <2>4 DEF Call, TypeOK, sdkVars, cacheVars
  <2>5. ASSUME NEW g \in Goroutines, Step(g) PROVE TypeOK'
    BY <2>5, StepType
  <2>6. CASE UNCHANGED vars
    BY <2>6 DEF vars, sdkVars, cacheVars, callVars, TypeOK
  <2> QED BY <2>1, <2>2, <2>3, <2>4, <2>5, <2>6 DEF Next
<1> QED BY <1>1, <1>2, PTL DEF Spec

-----------------------------------------------------------------------------
(* A step of a goroutine preserves the inductive form of ReadersFindList.   *)
(* Only UnsubscribeClean takes a subscription away, and it is the step that *)
(* tells the readers of the service.                                        *)
LEMMA StepLists ==
  ASSUME TypeOK, ListsInv, NEW g \in Goroutines, Step(g)
  PROVE  ListsInv'
<1> USE DEF TypeOK, ListsInv, sdkVars, cacheVars
<1>1. CASE CheckSubscribed(g)
  BY <1>1 DEF CheckSubscribed, Goto
<1>2. CASE SelectInstances(g)
  BY <1>2 DEF SelectInstances, HealthyOnly, Goto
<1>3. CASE StoreCallback(g)
  BY <1>3 DEF StoreCallback, Goto
<1>4. CASE Subscribe(g)
  BY <1>4 DEF Subscribe, Goto
<1>5. CASE Publish(g)
  BY <1>5 DEF Publish, Goto
<1>6. CASE SdkError(g)
  BY <1>6 DEF SdkError, Return
<1>7. CASE ReadInstances(g)
  <2>0. pc[g] = "read" /\ UNCHANGED <<sdkVars, cacheVars>>
    BY <1>7 DEF ReadInstances
  <2>1. CASE \E a : Return(g, a)
    BY <2>0, <2>1 DEF Return
  <2>2. CASE Goto(g, "read", "choose") /\ UNCHANGED dropped
    <3>1. \A h \in Goroutines : pc'[h] = IF h = g THEN "choose" ELSE pc[h]
      BY <2>2 DEF Goto
    <3>2. \A h \in Goroutines \ {g} : instances'[h] = instances[h]
      BY <1>7 DEF ReadInstances, Return
    <3> QED BY <2>0, <2>2, <3>1, <3>2 DEF Goto
  <2> QED BY <1>7, <2>1, <2>2 DEF ReadInstances
<1>8. CASE \E h \in Hosts : Choose(g, h)
  BY <1>8 DEF Choose, Return
<1>9. CASE UnsubscribeCheck(g)
  BY <1>9 DEF UnsubscribeCheck, Goto, Return
<1>10. CASE UnsubscribeCall(g)
  BY <1>10 DEF UnsubscribeCall, Goto
<1>11. CASE UnsubscribeClean(g)
  BY <1>11 DEF UnsubscribeClean
<1> QED
  BY <1>1, <1>2, <1>3, <1>4, <1>5, <1>6, <1>7, <1>8, <1>9, <1>10, <1>11 DEF Step

LEMMA ListsHold == Spec => []ListsInv
<1>1. Init => ListsInv
  BY DEF Init, ListsInv
<1>2. TypeOK /\ ListsInv /\ [Next]_vars => ListsInv'
  <2> SUFFICES ASSUME TypeOK, ListsInv, [Next]_vars PROVE ListsInv'
    OBVIOUS
  <2>1. ASSUME NEW s \in Services, RegistryChange(s) PROVE ListsInv'
    BY <2>1 DEF RegistryChange, TypeOK, ListsInv, cacheVars, callVars
  <2>2. ASSUME NEW s \in Services, Notify(s) PROVE ListsInv'
    BY <2>2 DEF Notify, TypeOK, ListsInv, cacheVars, callVars
  <2>3. ASSUME NEW s \in Services, RunCallback(s) PROVE ListsInv'
    BY <2>3 DEF RunCallback, TypeOK, ListsInv, callVars
  <2>4. ASSUME NEW g \in Goroutines, NEW s \in Services, NEW o \in Ops, Call(g, s, o)
        PROVE  ListsInv'
    BY <2>4 DEF Call, TypeOK, ListsInv, sdkVars, cacheVars
  <2>5. ASSUME NEW g \in Goroutines, Step(g) PROVE ListsInv'
    BY <2>5, StepLists
  <2>6. CASE UNCHANGED vars
    BY <2>6 DEF vars, sdkVars, cacheVars, callVars, ListsInv
  <2> QED BY <2>1, <2>2, <2>3, <2>4, <2>5, <2>6 DEF Next
<1> QED BY <1>1, <1>2, TypeCorrect, PTL DEF Spec

(* The double-checked subscription is sound for readers: whoever            *)
(* ensureServiceSubscribed lets through finds a list the registry published,*)
(* unless UnsubscribeService dropped the service in between.                *)
THEOREM ReadersFindListHolds == Spec => []ReadersFindList
<1>1. TypeOK /\ ListsInv => ReadersFindList
  BY DEF TypeOK, ListsInv, ReadersFindList
<1> QED BY <1>1, ListsHold, TypeCorrect, PTL

-----------------------------------------------------------------------------
(* A subscribed service stays connected, callback stored and SDK calling    *)
(* it, until somebody unsubscribes it: however many goroutines subscribe it *)
(* at once, and whichever of their calls to the SDK fail.  (After an        *)
(* unsubscription it may be left marked and disconnected.)                  *)
THEOREM StaysConnected == Spec => []SubscribedIsConnected
<1>1. Init => ConnectedInv
  BY DEF Init, ConnectedInv, SubscribedIsConnected
<1>2. TypeOK /\ ConnectedInv /\ [Next]_vars => ConnectedInv'
  <2> SUFFICES ASSUME TypeOK, ConnectedInv, [Next]_vars PROVE ConnectedInv'
    OBVIOUS
  <2> USE DEF TypeOK, ConnectedInv, SubscribedIsConnected, sdkVars, cacheVars, callVars
  <2>1. ASSUME NEW s \in Services, RegistryChange(s) \/ Notify(s) \/ RunCallback(s)
        PROVE  ConnectedInv'
    BY <2>1 DEF RegistryChange, Notify, RunCallback
  <2>2. ASSUME NEW g \in Goroutines, NEW s \in Services, NEW o \in Ops, Call(g, s, o)
        PROVE  ConnectedInv'
    BY <2>2 DEF Call
  <2>3. ASSUME NEW g \in Goroutines, Step(g) PROVE ConnectedInv'
    <3>1. CASE CheckSubscribed(g)
      BY <3>1 DEF CheckSubscribed, Goto
    <3>2. CASE SelectInstances(g)
      BY <3>2 DEF SelectInstances, Goto
    <3>3. CASE StoreCallback(g)
      <4>1. CASE subscribedServices[svc[g]]
        BY <3>3, <4>1 DEF StoreCallback, Goto
      <4>2. CASE ~subscribedServices[svc[g]]
        BY <3>3, <4>2 DEF StoreCallback, Goto
      <4> QED BY <4>1, <4>2
    <3>4. CASE Subscribe(g)
      BY <3>4 DEF Subscribe, Goto
    <3>5. CASE Publish(g)
      BY <3>5 DEF Publish, Goto
    <3>6. CASE SdkError(g)
      BY <3>6 DEF SdkError, Return
    <3>7. CASE ReadInstances(g)
      BY <3>7 DEF ReadInstances, Goto, Return
    <3>8. CASE \E h \in Hosts : Choose(g, h)
      BY <3>8 DEF Choose, Return
    <3>9. CASE UnsubscribeCheck(g)
      BY <3>9 DEF UnsubscribeCheck, Goto, Return
    <3>10. CASE UnsubscribeCall(g)
      BY <3>10 DEF UnsubscribeCall, Goto
    <3>11. CASE UnsubscribeClean(g)
      BY <3>11 DEF UnsubscribeClean
    <3> QED
      BY <2>3, <3>1, <3>2, <3>3, <3>4, <3>5, <3>6, <3>7, <3>8, <3>9, <3>10,
         <3>11 DEF Step
  <2>4. CASE UNCHANGED vars
    BY <2>4 DEF vars
  <2> QED BY <2>1, <2>2, <2>3, <2>4 DEF Next
<1>3. ConnectedInv => SubscribedIsConnected
  BY DEF ConnectedInv
<1> QED BY <1>1, <1>2, <1>3, TypeCorrect, PTL DEF Spec
=============================================================================
