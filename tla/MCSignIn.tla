------------------------------ MODULE MCSignIn ------------------------------
(***************************************************************************)
(* Two wallets in two tabs that share the browser's storage, so that one   *)
(* tab's session can meet the other's wallet.                              *)
(***************************************************************************)
EXTENDS SignIn, TLC

Symmetry == Permutations(Tabs) \cup Permutations(Addresses)
=============================================================================
