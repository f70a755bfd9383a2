---------------------------- MODULE Registration ----------------------------
(***************************************************************************)
(* The life of the naming client of nacos/client.go: RegisterNacos puts a  *)
(* new client into the package's variable, without closing the old one,    *)
(* and CloseClient closes the one it finds there.  The cache of one        *)
(* service, its callback and its mark outlive every client.                *)
(*                                                                         *)
(* The variable is not locked: a program may only register and close while *)
(* nobody is in a call, so that each call is one step here, and what       *)
(* interleaves is the SDK's notifications.  Calls that overlap each other  *)
(* are in module Discovery, for one client.                                *)
(***************************************************************************)
EXTENDS Naturals

CONSTANTS
  MaxClients,   \* bound on the clients made
  MaxVersion,   \* bound on the changes of the registry
  Strategies    \* what a configuration may ask for in LoadBalanceType

ASSUME RegistrationAssumption == MaxClients \in Nat /\ MaxVersion \in Nat

VARIABLES
  client,           \* the client in use, by the order of their making; 0 is nil
  made,             \* clients made so far
  loadBalanceType,
  ended,            \* history: CloseClient has closed a client
  subscribed,       \* subscribedServices of the service
  cached,           \* version of the list in serviceInstances, 0 for none
  callback,         \* serviceCallbacks has its callback
  closed,           \* external: clients that CloseClient closed
  listening,        \* external: clients with a SubscribeCallback for it
  registry,         \* external: version of the list the Nacos server holds
  pushed,           \* external: version last taken for a client's callback
  flying            \* external: version a client's notifier is delivering, or 0

cacheVars == <<subscribed, cached, callback>>
clientVars == <<client, made, loadBalanceType, ended>>
sdkVars == <<closed, listening, registry, pushed, flying>>
vars == <<clientVars, cacheVars, sdkVars>>

Default == "weighted_round_robin"
Clients == 1..MaxClients
Live == Clients \ closed

Init ==
  /\ client = 0 /\ made = 0
  /\ loadBalanceType = Default /\ ended = FALSE
  /\ subscribed = FALSE /\ cached = 0 /\ callback = FALSE
  /\ closed = {} /\ listening = {}
  /\ registry = 1
  /\ pushed = [c \in Clients |-> 0]
  /\ flying = [c \in Clients |-> 0]

-----------------------------------------------------------------------------
(* The registry, and a client's notifier: it looks the callback up and runs *)
(* it later.  A closed client is told nothing more.  What the SDK hands over *)
(* with an error is only logged: it changes nothing, and is taken to use up *)
(* no change of the registry.                                              *)

RegistryChange ==
  /\ registry < MaxVersion
  /\ registry' = registry + 1
  /\ UNCHANGED <<clientVars, cacheVars, closed, listening, pushed, flying>>

Notify(c) ==
  /\ c \in listening \cap Live
  /\ flying[c] = 0 /\ pushed[c] < registry
  /\ pushed' = [pushed EXCEPT ![c] = registry]
  /\ flying' = [flying EXCEPT ![c] = IF callback THEN registry ELSE 0]
  /\ UNCHANGED <<clientVars, cacheVars, closed, listening, registry>>

RunCallback(c) ==
  /\ flying[c] > 0
  /\ cached' = flying[c]
  /\ flying' = [flying EXCEPT ![c] = 0]
  /\ UNCHANGED <<clientVars, subscribed, callback, closed, listening, registry, pushed>>

-----------------------------------------------------------------------------
(* RegisterNacos.  A registration that is disabled, has no usable address, *)
(* or panics in NewNamingClient changes nothing.                           *)

\* NewNamingClient's results are assigned before its error is looked at.
CreateFails ==
  /\ client' = 0
  /\ UNCHANGED <<made, loadBalanceType, ended, cacheVars, sdkVars>>

\* Mutant: the client that is replaced is closed.
NewClient_ClosesOld ==
  /\ made < MaxClients
  /\ made' = made + 1 /\ client' = made + 1
  /\ closed' = closed \cup ({client} \ {0})
  /\ UNCHANGED <<ended, cacheVars, listening, registry, pushed, flying>>

\* The new client takes the old one's place, which is left to itself.
NewClient ==
  /\ made < MaxClients
  /\ made' = made + 1 /\ client' = made + 1
  /\ UNCHANGED <<ended, cacheVars, sdkVars>>

\* A bad port, or RegisterInstance fails: the client stays, the strategy too.
RegisterFails == NewClient /\ UNCHANGED loadBalanceType

\* No LoadBalanceType given leaves the strategy as it is.
RegisterSucceeds == NewClient /\ loadBalanceType' \in Strategies \cup {loadBalanceType}

\* The variable keeps the closed client, and the cache what it has.
CloseClient ==
  /\ client # 0
  /\ closed' = closed \cup {client}
  /\ ended' = TRUE
  /\ UNCHANGED <<client, made, loadBalanceType, cacheVars, listening, registry, pushed, flying>>

-----------------------------------------------------------------------------
(* A call that needs the service, and one that drops it.  Both return an   *)
(* error when the client is nil, and a call into the SDK fails at will, and *)
(* always on a closed client; a call that changes nothing is not a step.   *)

\* ensureServiceSubscribed: the list is fetched, the callback is stored and
\* handed to the SDK; if the SDK refuses it the callback stays stored.
Subscribe ==
  /\ client \in Live /\ ~subscribed
  /\ callback' = TRUE
  /\ \/ UNCHANGED <<subscribed, cached, listening, pushed>>
     \/ /\ subscribed' = TRUE
        /\ cached' = registry
        /\ listening' = listening \cup {client}
        /\ pushed' = [pushed EXCEPT ![client] = 0]
  /\ UNCHANGED <<clientVars, closed, registry, flying>>

\* UnsubscribeService: the client in use is told, which need not be the one
\* that was asked to subscribe; it may not find the callback either.
Unsubscribe ==
  /\ client \in Live /\ subscribed
  /\ listening' \in {listening, listening \ {client}}
  /\ subscribed' = FALSE /\ cached' = 0 /\ callback' = FALSE
  /\ UNCHANGED <<clientVars, closed, registry, pushed, flying>>

Next ==
  \/ RegistryChange
  \/ \E c \in Clients : Notify(c) \/ RunCallback(c)
  \/ CreateFails \/ RegisterFails \/ RegisterSucceeds \/ CloseClient
  \/ Subscribe \/ Unsubscribe

Spec == Init /\ [][Next]_vars

\* The notifiers of the SDK run; nobody has to call or to change anything.
Fairness == \A c \in Clients : WF_vars(Notify(c)) /\ WF_vars(RunCallback(c))

-----------------------------------------------------------------------------
(* "Make sure the service is subscribed" (ensureServiceSubscribed): a        *)
(* service it lets through without asking has a client that is still told  *)
(* of its changes, and the stored callback they are handed to.             *)
SubscribedIsServed == subscribed => callback /\ listening \cap Live # {}

(* It is so through any number of registrations, failed ones too, whichever *)
(* client is in use by now, as long as CloseClient is not called ...       *)
ServedUntilClosed == ~ended => SubscribedIsServed

(* Its inductive form: a client is only ever closed by CloseClient.        *)
LifeInv == ServedUntilClosed /\ (closed # {} => ended)

(* ... and then a change of the registry that a client has still to be told *)
(* of reaches the cache, unless the service is dropped first.              *)
ChangeReachesCache ==
  \A v \in 1..MaxVersion :
    /\ subscribed /\ registry = v
    /\ \E c \in listening : pushed[c] < v
    ~> cached >= v \/ ~subscribed \/ ended
=============================================================================
