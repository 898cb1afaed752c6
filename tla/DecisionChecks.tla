--------------------------- MODULE DecisionChecks ---------------------------
(***************************************************************************)
(* Decision on bounded inputs, which TLC evaluates once: the sizes against *)
(* a definition by what they are for, and what EngineProofs proves for     *)
(* all inputs.                                                             *)
(***************************************************************************)
EXTENDS Decision

MCMarkets == [status : {"Trading", "Locked"}, expiry : {4}, boundary : {TRUE}, lot : {1, 2}]
MCQuotes == {[bid |-> bid, ask |-> bid + spread, mid |-> bid + spread \div 2, depthBid |-> deep,
              depthAsk |-> 3, ts |-> 1, stale |-> FALSE] :
               bid \in {3, 6}, spread \in {0, 2}, deep \in {0, 5}}
MCBeliefs == [p : {0, 4, 9}, explained : BOOLEAN]
MCRisks == [kelly : {1}, per : {1, 4}, notional : {9, 30}, net : {2, 4}, gross : {3, 6},
            quoteAge : {1}, ttl : {1, 9}]
MCOffers == [maxAge : {1}, ttl : {9}, share : {0, 1, 3}, of : {3}]

(* The same size, by what it is for: the most lots that no limit forbids. *)
MostLots(mk, q, b, r, side, held, gross, bankroll) ==
  LET price == Price(q, side)
      p == Chance(b, side)
      fits(n) == /\ n % mk.lot = 0
                 /\ n * (Unit - price) * r.per * price <= (p - price) * r.kelly * bankroll
                 /\ n * price <= r.notional
                 /\ n > 0 => /\ Contracts(side, held) + n <= r.net
                             /\ gross + n <= r.gross
                 /\ n <= Depth(q, side)
  IN CHOOSE n \in 0 .. 5 : fits(n) /\ \A k \in n + 1 .. 5 : ~fits(k)

ASSUME SizeOrderIsMostLots ==
  \A mk \in MCMarkets, q \in MCQuotes, b \in MCBeliefs, r \in MCRisks, side \in Side,
     held \in -3 .. 3, bankroll \in {20, 60} :
       Chance(b, side) > Price(q, side) =>
         SizeOrder(mk, q, b, r, side, held, 1 + Magnitude(held), bankroll)
           = MostLots(mk, q, b, r, side, held, 1 + Magnitude(held), bankroll)

ASSUME DecisionsAreAllowed ==
  \A mk \in MCMarkets, q \in MCQuotes, b \in MCBeliefs, r \in MCRisks, held \in -3 .. 3, ts \in {2, 3} :
    \A o \in Decisions(mk, q, b, r, held, 1 + Magnitude(held), 60, ts) :
      SizeAllowed(o, r, held, 1) /\ Tradable(o, mk, q, ts)

ASSUME OffersAreAffordable ==
  \A mk \in MCMarkets, q \in MCQuotes, side \in Side, offer \in MCOffers, balance \in {0, 7, 60} :
    \A i \in Intents(mk, q, [side |-> side, ts |-> 1], offer, balance, 2) :
      Affordable(i, mk, q, offer, balance)
=============================================================================
