--------------------------- MODULE MCStoreLedger ---------------------------
(* The rows of a trade against the ledger they stand for, and the flow     *)
(* from an evaluation to an entry, each on its own instance.               *)
EXTENDS MCTradeStore, EntryFlow

VARIABLE subject

ledgerRunVars == <<storeVars, flowVars, subject>>

MCInit == StoreInit /\ FlowInit /\ subject \in {"store", "flow"}

MCNext ==
  \/ subject = "store" /\ StoreNext /\ UNCHANGED <<flowVars, subject>>
  \/ subject = "flow" /\ FlowNext /\ UNCHANGED <<storeVars, subject>>

MCSpec == MCInit /\ [][MCNext]_ledgerRunVars
=============================================================================
