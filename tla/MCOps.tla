------------------------------- MODULE MCOps -------------------------------
(***************************************************************************)
(* MIRA, critical, and ECHO, not; two deaths, which is one child's limit;  *)
(* two underlyings; batches of two, of which one may fail.                 *)
(***************************************************************************)
EXTENDS Ops

TwoSymbols == <<"BTC", "ETH">>
=============================================================================
