------------------------------ MODULE Decision ------------------------------
(***************************************************************************)
(* From a quote to an order: the pure part of Engine.evaluateMarket        *)
(* (priceMarket in core/pricer.ts, sideOf in core/signal.ts, sizeOrder in  *)
(* core/sizer.ts, buildOrder in core/engine.ts), the size rules of the     *)
(* guard that has the last word (core/risk.ts), and the order a spectator  *)
(* is offered to sign (api/mirror.ts).                                     *)
(*                                                                         *)
(* Prices and money are in ticks of which a contract pays Unit, sizes in   *)
(* the smallest size; the code computes with doubles and a tolerance of    *)
(* 1e-9.  What the formulas answer is an input: the probability of YES,    *)
(* and whether some volatility explains the quote.                         *)
(***************************************************************************)
EXTENDS Integers

CONSTANTS
  Unit,        \* the pay-out of a contract, in price units
  Grid         \* tickRaw: the price grid of an order

ASSUME DecisionAssumption == Unit \in Nat \ {0} /\ Grid \in Nat \ {0}

Side == {"YES", "NO"}
Statuses == {"Listed", "Trading", "Locked", "Settling", "Resolved", "Voided"}
MarketView == [status : Statuses, expiry : Nat, boundary : BOOLEAN, lot : Nat \ {0}]
Quote == [bid : 0 .. Unit, ask : 0 .. Unit, mid : 0 .. Unit, depthBid : Nat, depthAsk : Nat,
          ts : Nat, stale : BOOLEAN]
Belief == [p : 0 .. Unit, explained : BOOLEAN]
Risk == [kelly : Nat, per : Nat \ {0},      \* the fraction of Kelly, kelly / per
         notional : Nat, net : Nat, gross : Nat, quoteAge : Nat, ttl : Nat \ {0}]

Magnitude(n) == IF n < 0 THEN -n ELSE n
Least(S) == CHOOSE x \in S : \A y \in S : x <= y
FloorTo(n, step) == (n \div step) * step
AtLeastZero(n) == IF n > 0 THEN n ELSE 0

(* priceMarket() comes to a valuation that is not skipped. *)
Priced(mk, q, b, r, ts) ==
  /\ mk.status = "Trading"
  /\ mk.expiry > ts
  /\ mk.boundary
  /\ ~q.stale /\ ts - q.ts <= r.quoteAge
  /\ q.depthBid > 0 /\ q.depthAsk > 0
  /\ b.explained /\ 0 < q.mid /\ q.mid < Unit

(* sideOf(): by the probabilities; none if they agree. *)
Sides(q, b) == {s \in Side : IF s = "YES" THEN b.p > q.mid ELSE b.p < q.mid}

(* What the side bought costs now, how much of it there is, and how likely   *)
(* it is to pay.                                                            *)
Price(q, side) == IF side = "YES" THEN q.ask ELSE Unit - q.bid
Depth(q, side) == IF side = "YES" THEN q.depthAsk ELSE q.depthBid
Chance(b, side) == IF side = "YES" THEN b.p ELSE Unit - b.p

Contracts(side, n) == IF side = "YES" THEN n ELSE -n

(* The contracts a fraction of Kelly buys with this bankroll. *)
KellyStake(p, price, r, bankroll) ==
  ((p - price) * r.kelly * bankroll) \div ((Unit - price) * r.per * price)

(* Mutant of NetRoom: a position is exposure whichever way the order goes. *)
NetRoomOneWay(r, side, held) == AtLeastZero(r.net - held)

(* Room under the cap of the market: an opposing position makes more of it. *)
NetRoom(r, side, held) == AtLeastZero(r.net - Contracts(side, held))

(* sizeOrder(): the least of its limits, on the lot grid; 0 for no order. *)
SizeOrder(mk, q, b, r, side, held, gross, bankroll) ==
  LET price == Price(q, side)
      p == Chance(b, side)
      limits == {KellyStake(p, price, r, bankroll), r.notional \div price,
                 NetRoom(r, side, held), AtLeastZero(r.gross - gross), Depth(q, side)}
  IN IF p > price /\ bankroll > 0 /\ 0 < price /\ price < Unit
     THEN FloorTo(Least(limits), mk.lot) ELSE 0

(* buildOrder(): the limit is on the grid and not above the price seen, and  *)
(* the order ends with the market at the latest.                            *)
BuildOrder(mk, q, r, side, size, ts) ==
  [side |-> side, size |-> size, limit |-> FloorTo(Price(q, side), Grid),
   expires |-> Least({mk.expiry, ts + r.ttl})]

(* The orders an entry may come to: one or none. *)
Decisions(mk, q, b, r, held, gross, bankroll, ts) ==
  {BuildOrder(mk, q, r, side, SizeOrder(mk, q, b, r, side, held, gross, bankroll), ts) :
     side \in {s \in Sides(q, b) : /\ Priced(mk, q, b, r, ts)
                                   /\ SizeOrder(mk, q, b, r, s, held, gross, bankroll) > 0}}

(* check(), the rules about size: others is what is held in other markets. *)
SizeAllowed(o, r, held, others) ==
  LET after == held + Contracts(o.side, o.size)
  IN /\ o.size * o.limit <= r.notional
     /\ \/ Magnitude(after) < Magnitude(held)
        \/ Magnitude(after) <= r.net /\ others + Magnitude(after) <= r.gross

-----------------------------------------------------------------------------
(* The order offered for signing. *)
Offer == [maxAge : Nat, ttl : Nat, share : Nat, of : Nat \ {0}]   \* share / of the balance

(* buildMirror() and build(): a fill of a listed market, fresh enough, and a *)
(* balance to spend; the quote's own age is not looked at.                  *)
Mirrorable(mk, q, f, offer, balance, ts) ==
  /\ mk.status = "Trading" /\ mk.expiry > ts
  /\ ts - f.ts <= offer.maxAge
  /\ 0 < offer.share /\ offer.share <= offer.of
  /\ balance > 0
  /\ 0 < Price(q, f.side) /\ Price(q, f.side) < Unit

Budget(offer, balance) == (balance * offer.share) \div offer.of

MirrorSize(mk, q, f, offer, balance) ==
  Least({FloorTo(Budget(offer, balance) \div Price(q, f.side), mk.lot),
         FloorTo(Depth(q, f.side), mk.lot)})

(* The intents a request may come to: one or none. *)
Intents(mk, q, f, offer, balance, ts) ==
  LET n == MirrorSize(mk, q, f, offer, balance)
  IN IF Mirrorable(mk, q, f, offer, balance, ts) /\ n >= mk.lot
     THEN {[side |-> f.side, size |-> n, limit |-> Price(q, f.side), expires |-> ts + offer.ttl]}
     ELSE {}

-----------------------------------------------------------------------------
(* What an order owes the market it is for: it is on the grids, the book has *)
(* what it asks, and it lives a while and not past the market               *)
(* (core/sizer.ts:13-14, core/engine.ts:44).                                *)
Tradable(o, mk, q, ts) ==
  /\ o.size >= mk.lot /\ o.size % mk.lot = 0 /\ o.size <= Depth(q, o.side)
  /\ o.limit % Grid = 0 /\ o.limit <= Price(q, o.side)
  /\ ts < o.expires /\ o.expires <= mk.expiry

(* What an offer owes the spectator who signs it: it asks for no more than   *)
(* the share of the balance named, and the book has it (api/mirror.ts:129). *)
Affordable(i, mk, q, offer, balance) ==
  /\ i.size * i.limit * offer.of <= balance * offer.share
  /\ i.size % mk.lot = 0 /\ i.size <= Depth(q, i.side)
=============================================================================
