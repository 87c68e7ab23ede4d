------------------------------ MODULE MCFeeds ------------------------------
(* The discovery of markets, the two market-data streams, the gate that    *)
(* admits their events and the counts kept of them, each on its own        *)
(* instance: a behaviour is one of its subject, and the others stay in     *)
(* their initial states.                                                   *)
EXTENDS MarketStream, EventGate, CexIngest, MarketDiscovery, EventCounts

CONSTANTS a, b, s1, s2, p1, p2, p3, m1, m2, m3

VARIABLE subject

\* The window changes from token a to token b.
MCWindowTokens == (1 :> {a}) @@ (2 :> {b})

\* p2 and p3 follow p1, p3 with another price.
MCProviderTs == (p1 :> 1) @@ (p2 :> 2) @@ (p3 :> 2)
MCPrice == (p1 :> 1) @@ (p2 :> 1) @@ (p3 :> 2)

MCAssetSets == {{}, {a}}

\* m1 and m2 claim the first window, m3 the second.
MCWindowListed == (m1 :> 1) @@ (m2 :> 1) @@ (m3 :> 2)

\* Two streams of one kind and one of another
MCSources == ("c1" :> "s") @@ ("c2" :> "s") @@ ("c3" :> "s")
MCKinds == ("c1" :> "k") @@ ("c2" :> "k") @@ ("c3" :> "j")

feedsVars == <<streamVars, gateVars, cexVars, discoveryVars, countVars, subject>>

MCInit ==
  /\ StreamInit /\ GateInit /\ CexInit /\ DiscoveryInit /\ CountsInit
  /\ subject \in {"stream", "gate", "cex", "discovery", "counts"}
  /\ subject # "cex" => assets = {}

OfStream(A) ==
  /\ subject = "stream" /\ A
  /\ UNCHANGED <<gateVars, cexVars, discoveryVars, countVars, subject>>
OfGate(A) ==
  /\ subject = "gate" /\ A
  /\ UNCHANGED <<streamVars, cexVars, discoveryVars, countVars, subject>>
OfCex(A) ==
  /\ subject = "cex" /\ A
  /\ UNCHANGED <<streamVars, gateVars, discoveryVars, countVars, subject>>
OfDiscovery(A) ==
  /\ subject = "discovery" /\ A
  /\ UNCHANGED <<streamVars, gateVars, cexVars, countVars, subject>>
OfCounts(A) ==
  /\ subject = "counts" /\ A
  /\ UNCHANGED <<streamVars, gateVars, cexVars, discoveryVars, subject>>

MCNext ==
  \/ OfStream(StreamNext) \/ OfGate(GateNext) \/ OfCex(CexNext)
  \/ OfDiscovery(DiscoveryNext) \/ OfCounts(CountsNext)

\* The fairness of the market stream (StreamFairness), of the subject
MCSpec ==
  /\ MCInit /\ [][MCNext]_feedsVars
  /\ \A r \in Rotators : WF_feedsVars(OfStream(
       Rotate(r) \/ Unsubscribed(r) \/ SubscriptionSent(r) \/ Gathered(r)))
  /\ WF_feedsVars(OfStream(InitialSent \/ StartReading))
  /\ \A token \in Tokens : SF_feedsVars(OfStream(Recover(token)))
  /\ WF_feedsVars(OfStream(Resubscribed))
=============================================================================
