----------------------------- MODULE MCTxQueue -----------------------------
(* TxQueue for TLC: three intents, timeouts on, one foreign write allowed.  *)
EXTENDS TxQueue, TLC
=============================================================================
