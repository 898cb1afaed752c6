------------------------------- MODULE MCFeed -------------------------------
(***************************************************************************)
(* One page with two sockets: one that is lost, with the network or with  *)
(* the agent, and one that recovers.  Enough events for a round that is    *)
(* settled after the next one opened, with a snapshot anywhere in it.  Two *)
(* markets and a list of one show what the page cuts off.                  *)
(***************************************************************************)
EXTENDS Feed
=============================================================================
