---------------------------- MODULE MCTradeStore ----------------------------
(* Two BTC windows and one of ETH: the first alone with long histories, or *)
(* all three with short ones.                                              *)
EXTENDS TradeStore, TLC

CONSTANTS btc1, btc2, eth, s1, s2

OneWindow == {btc1}
ThreeWindows == {btc1, btc2, eth}
MCAssets == {"BTC", "ETH"}
MCAssetOf == [w \in Windows |-> IF w = eth THEN "ETH" ELSE "BTC"]
OneSession == {s1}
TwoSessions == {s1, s2}
MCEvidence == {"silent", "says_yes", "says_no"}
MCVerdictOf == [e \in Evidence |->
  CASE e = "says_yes" -> "YES" [] e = "says_no" -> "NO" [] OTHER -> "PENDING"]
=============================================================================
