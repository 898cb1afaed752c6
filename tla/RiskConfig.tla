----------------------------- MODULE RiskConfig -----------------------------
(***************************************************************************)
(* The markets and the limits an agent is run with                          *)
(* (packages/shared/src/types.ts, RiskConfig).                              *)
(***************************************************************************)
EXTENDS Integers

CONSTANTS
  Markets,
  MaxNet,      \* maxNetContractsPerMarket
  MaxGross,    \* maxGrossContracts
  MaxOrders,   \* maxOrdersPerMinute
  Window,      \* the minute of the rate limit (ROLLING_WINDOW_MS)
  Cooldown     \* cooldownMs

ASSUME RiskConfigAssumption == /\ MaxNet \in Nat /\ MaxGross \in Nat
                               /\ MaxOrders \in Nat \ {0}
                               /\ Window \in Nat \ {0}
                               /\ Cooldown \in Nat
=============================================================================
