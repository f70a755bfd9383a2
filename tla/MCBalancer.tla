----------------------------- MODULE MCBalancer -----------------------------
(***************************************************************************)
(* Small instances of BalancerShares and of NacosClient for TLC; hosts are *)
(* numbers, in list order.  A behaviour is one of either: of callers that  *)
(* share the balancing state and bring what lists they like, or of ones    *)
(* that get their lists from the discovery, which resets that state too.   *)
(***************************************************************************)
EXTENDS BalancerShares, NacosClient, TLC

VARIABLE part  \* "shares" or "client"

shareVars == <<offered, served, serial, mixed>>
all == <<part, sharesVars, discoveryVars>>

-----------------------------------------------------------------------------
\* The list of the given hosts with the given weights.
Listed(hosts, weight) ==
  [i \in 1..Len(hosts) |-> [host |-> hosts[i], weight |-> weight[hosts[i]]]]
Plain(hosts) == Listed(hosts, [h \in Hosts |-> Unit])

\* Lists whose hosts differ in weight, all or in part, and one host has none.
Weighting == <<1, 1, 2>>
Weightings == {Listed(<<1, 2, 3>>, w) : w \in {Weighting, <<0, 3, 1>>}}
EachWeighting == {{l} : l \in Weightings}
AllLists ==
  Weightings \cup
    {Listed(SetToSortSeq(hosts, <), Weighting) : hosts \in (SUBSET Hosts) \ {{}}}

\* Calls with a metadata filter besides calls without one.
Overlapping == {Plain(<<1, 2, 3>>), Plain(<<1>>)}
OverlappingOffers == {Overlapping}
PlainLists == {Plain(SetToSortSeq(hosts, <)) : hosts \in (SUBSET Hosts) \ {{}}}
PlainWeight == <<Unit, Unit, Unit>>

\* The filters of the calls for an instance.
Metadata == {{1, 2}, {2}}
Symmetry == Permutations(Goroutines)

-----------------------------------------------------------------------------
\* The part that a behaviour is not of: no call, and no list to count.
NoShares ==
  /\ offered = [s \in Services |-> {}] /\ served = [s \in Services |-> <<>>]
  /\ serial = [s \in Services |-> TRUE] /\ mixed = [s \in Services |-> FALSE]

SharesPart == part = "shares" /\ SharesInit /\ Init
ClientPart == part = "client" /\ ClientInit /\ NoShares

RaceNext ==
  /\ UNCHANGED part
  /\ \/ part = "shares" /\ SharesNext /\ UNCHANGED discoveryVars
     \/ part = "client" /\ ClientNext /\ UNCHANGED shareVars

RaceSpec == (SharesPart \/ ClientPart) /\ [][RaceNext]_all
TheorySpec == SharesPart /\ [][RaceNext]_all
=============================================================================
