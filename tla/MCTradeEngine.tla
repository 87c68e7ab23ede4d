--------------------------- MODULE MCTradeEngine ---------------------------
(* Up to two windows of one asset, in two runs of the program.  The second *)
(* window's resolution is tried once at most, so it meets no pending one.  *)
EXTENDS TradeEngine, TLC

CONSTANTS btc1, btc2, s1, s2

MCWindows == {btc1, btc2}
MCAssets == {"BTC"}
MCAssetOf == [w \in Windows |-> "BTC"]
MCSessions == {s1, s2}
OneWindow == {btc1}
MCEvidence == {"silent", "says_yes"}
MCVerdictOf == [e \in Evidence |-> IF e = "says_yes" THEN "YES" ELSE "PENDING"]

TriedOnce(A) == A /\ tried'[btc2] <= 1

MCSpec ==
  /\ EngineInit /\ [][TriedOnce(EngineNext)]_allVars
  /\ WF_allVars(Deliver) /\ \A w \in Windows : WF_allVars(Writer(w))
  /\ WF_allVars(QueryDue) /\ SF_allVars(TriedOnce(SubmitResolve))
  /\ WF_allVars(EndRows)
=============================================================================
