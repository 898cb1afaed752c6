------------------------------- MODULE MCSim -------------------------------
(***************************************************************************)
(* A market that trades for four seconds, a book of two synthetic levels *)
(* that hold two contracts and one, and orders small enough to sweep them  *)
(* and to meet each other.                                                 *)
(***************************************************************************)
EXTENDS Scenario

request(kind, type, price, size, ttl) ==
  [kind |-> kind, type |-> type, price |-> price, size |-> size, ttl |-> ttl]

MCRequests ==
  {request("BUY_YES", "LIMIT", 500, 1, 4000),
   request("BUY_YES", "FILL_OR_KILL", 900, 2, 4000),
   request("SELL_YES", "LIMIT", 499, 1, 2500),
   request("BUY_NO", "LIMIT", 500, 3, 4000),
   request("SELL_NO", "POST_ONLY", 496, 1, 4000)}

MCNoise == [bid |-> [i \in 0..1 |-> -10 + 20 * i], ask |-> [i \in 0..1 |-> 20 - 30 * i]]
MCStops == {3000, 14000}
MCLatencies == {0, 2000}
=============================================================================
