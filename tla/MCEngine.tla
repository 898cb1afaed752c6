------------------------------ MODULE MCEngine ------------------------------
(***************************************************************************)
(* Engine with the sizer of Decision at work on the positions its guard      *)
(* comes to, on whatever the markets, the books, the beliefs and the bankroll *)
(* are by then; and both for TLC: three overlapping ticks over one market,   *)
(* starting flat or already at the position cap.                            *)
(***************************************************************************)
EXTENDS Engine, Decision

CONSTANTS
  MarketViews, Quotes, Beliefs, Bankrolls,
  Risks        \* the limits the agent may be run with, caps included

ASSUME SizingAssumption ==
  /\ IsFiniteSet(Markets)
  /\ MarketViews \subseteq MarketView /\ Quotes \subseteq Quote
  /\ Beliefs \subseteq Belief /\ Bankrolls \subseteq Nat
  /\ \A r \in Risks : r \in Risk /\ r.net = MaxNet /\ r.gross = MaxGross

Gross == SumFunction([m \in Markets |-> Abs(net[m])])

(* In every position the guard comes to, by partial, late and twice-reported *)
(* fills, an order the sizer makes of it either way passes the guard's caps: *)
(* the two measure the room that is left alike (core/sizer.ts:92-101,        *)
(* core/risk.ts:150-169).                                                   *)
SizerAgreesWithGuard ==
  \A m \in Markets, mk \in MarketViews, q \in Quotes, b \in Beliefs, r \in Risks, money \in Bankrolls :
    \A o \in Decisions(mk, q, b, r, net[m], Gross, money, now) :
      ~OverCaps(m, Contracts(o.side, o.size))

-----------------------------------------------------------------------------
MCHeld == {0, 1}

(* A book with edge on both sides, and a belief for either. *)
MCMarketViews == {[status |-> "Trading", expiry |-> MaxTime + 1, boundary |-> TRUE, lot |-> 1]}
MCQuotes == {[bid |-> 4, ask |-> 6, mid |-> 5, depthBid |-> 3, depthAsk |-> 3, ts |-> 0, stale |-> FALSE]}
MCBeliefs == {[p |-> p, explained |-> TRUE] : p \in {0, Unit}}
MCBankrolls == {30}
MCRisks == {[kelly |-> 1, per |-> 1, notional |-> 30, net |-> MaxNet, gross |-> MaxGross,
             quoteAge |-> MaxTime, ttl |-> 1]}
=============================================================================
