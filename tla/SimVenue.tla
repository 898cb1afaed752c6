------------------------------ MODULE SimVenue ------------------------------
(***************************************************************************)
(* The simulated venue (SimulatedVenue in simulated.ts), for one market    *)
(* and one agent.  All four order kinds meet in one book priced in YES     *)
(* terms: a bid is BUY_YES or SELL_NO, an ask SELL_YES or BUY_NO.  The     *)
(* book is made of synthetic levels around the fair price, a pure function *)
(* of the state that trading never depletes, and of the agent's own        *)
(* resting orders.  An order is checked when it is placed and matched when *)
(* its latency has passed, without a second look at the checks.            *)
(*                                                                         *)
(* Prices are in ticks of the default grid, a thousandth of a contract's   *)
(* pay-out, and so is money; the fair price and the spread are in the raw  *)
(* units the code rounds them from.  The noise of a synthetic level is a   *)
(* hash of its position, here a constant.  Averages are exact fractions    *)
(* where the code has doubles.  No fee is charged: none of the program's   *)
(* venues sets feeBps.                                                     *)
(***************************************************************************)
EXTENDS VirtualClock, SequencesExt

CONSTANTS
  Requests,         \* the orders asked for: [kind, type, price, size, ttl]
  MaxOrders,        \* bound: how many of them are placed
  Latencies,        \* the latencies a run of the venue may be configured with
  Expiry, LockMs, SettlingMs,
  Depth, Levels,    \* synthetic contracts at the top level, levels per side
  Noise,            \* Noise[side][level], in thousandths of the spread
  InitialCash,
  Mints             \* the sizes mintPair is called with

Sides == {"bid", "ask"}
Kinds == {"BUY_YES", "BUY_NO", "SELL_YES", "SELL_NO"}
OrderTypes == {"LIMIT", "MARKET", "POST_ONLY", "FILL_OR_KILL"}

\* A smaller size than the market's minimum never gets past placeOrder; the
\* price of a market order is not looked at.
ASSUME VenueAssumption ==
  /\ Requests \subseteq [kind : Kinds, type : OrderTypes, price : Int, size : Nat \ {0}, ttl : Int]
  /\ Latencies \subseteq Nat /\ Mints \subseteq Nat
  /\ Levels \in Nat /\ Noise \in [Sides -> [0 .. Levels - 1 -> Int]]
  /\ Depth \in Int /\ Expiry \in Int /\ InitialCash \in Int

VARIABLES
  latency, fair, spread, depthOverride, spot, outcome,
  acks,             \* seenOrders: the status answered to each order, by number
  book,             \* the resting orders, oldest first
  hold,             \* the holding: yes, no, net, basis, realized
  cash, claimed

venueVars == <<latency, fair, spread, depthOverride, spot, outcome, acks,
               book, hold, cash, claimed>>
venueConfig == <<latency, fair, spread, depthOverride, spot>>

Payout == 1000      \* what a winning contract pays, in ticks
TickRaw == 1000
Statuses == {"Trading", "Locked", "Settling", "Resolved"}

(***************************************************************************)
(* Exact averages: <<n, d>> stands for n / d.                              *)
(***************************************************************************)
Reduced(n, d) ==
  LET g == CHOOSE k \in 1..d : /\ n % k = 0 /\ d % k = 0
                               /\ \A j \in (k + 1)..d : n % j # 0 \/ d % j # 0
  IN  <<n \div g, d \div g>>
Over(n, d) == IF d < 0 THEN Reduced(-n, -d) ELSE Reduced(n, d)
Plus(a, b) == Over(a[1] * b[2] + b[1] * a[2], a[2] * b[2])
Times(a, k) == Over(a[1] * k, a[2])
Whole(k) == <<k, 1>>
Sign(k) == IF k > 0 THEN 1 ELSE IF k < 0 THEN -1 ELSE 0
Abs(k) == IF k < 0 THEN -k ELSE k
Smaller(a, b) == IF a < b THEN a ELSE b
Larger(a, b) == IF a > b THEN a ELSE b

NoHolding == [yes |-> 0, no |-> 0, net |-> 0, basis |-> Whole(0), realized |-> Whole(0)]

VenueInit ==
  /\ latency \in Latencies
  /\ fair = 500000 /\ spread = 20000 /\ depthOverride = Unset
  /\ spot = "above"       \* the constructor puts it on the strike
  /\ outcome = "none" /\ acks = <<>> /\ book = <<>>
  /\ hold = NoHolding /\ cash = InitialCash /\ claimed = FALSE

Status == CASE now < Expiry                        -> "Trading"
            [] now >= Expiry /\ now < Expiry + LockMs -> "Locked"
            [] now >= Expiry + LockMs /\ now < Expiry + LockMs + SettlingMs -> "Settling"
            [] OTHER                               -> "Resolved"

(***************************************************************************)
(* The book.  levelsFor: the synthetic levels first, then what rests, best *)
(* price first; the sort is stable, so a synthetic level goes before a     *)
(* resting order at its price.                                             *)
(***************************************************************************)
SideOf(kind) == IF kind \in {"BUY_YES", "SELL_NO"} THEN "bid" ELSE "ask"
Opposite(side) == CHOOSE s \in Sides : s # side
YesPrice(kind, price) == IF kind \in {"BUY_NO", "SELL_NO"} THEN Payout - price ELSE price

Rests(r, side, t) == r.side = side /\ r.remaining > 0 /\ r.expires > t

SyntheticPrice(side, i) ==
  LET off == spread \div 2 + i * spread
      noise == (Noise[side][i] * spread) \div 1000
  IN  (fair + noise + IF side = "bid" THEN -off ELSE off) \div TickRaw

DepthNow == IF depthOverride = Unset THEN Depth ELSE depthOverride

SyntheticSize(i) == Larger(1, (2 * DepthNow + i + 1) \div (2 * (i + 1)))

\* The levels by number, in the order they are gathered: the synthetic ones
\* below zero, then the places in the book.
SyntheticKeys(side) ==
  {k \in -Levels .. -1 : /\ DepthNow > 0
                        /\ SyntheticPrice(side, k + Levels) > 0
                        /\ SyntheticPrice(side, k + Levels) < Payout}

LevelKeys(side, t) == SyntheticKeys(side) \cup {k \in DOMAIN book : Rests(book[k], side, t)}

Level(side, k) ==
  IF k < 0 THEN [price |-> SyntheticPrice(side, k + Levels), size |-> SyntheticSize(k + Levels)]
  ELSE [price |-> book[k].price, size |-> book[k].remaining]

Better(side, j, k) ==
  LET a == Level(side, j).price
      b == Level(side, k).price
  IN  IF a = b THEN j < k ELSE (a > b) = (side = "bid")

\* The members of S, each at one more than the number of those before it.
InOrder(S, before) ==
  [k \in 1..Cardinality(S) |->
     CHOOSE i \in S : Cardinality({j \in S : <<j, i>> \in before}) = k - 1]

LevelOrder(side, t) ==
  LET keys == LevelKeys(side, t)
  IN  InOrder(keys, {p \in keys \X keys : Better(side, p[1], p[2])})

LevelsFor(side, t) ==
  LET at == LevelOrder(side, t) IN [k \in DOMAIN at |-> Level(side, at[k])]

\* Mutant of Consume: the trade is made and the resting orders stay as they were.
ConsumeNothing(rest, side, price, size, t) == rest

\* consume: what a trade of `size` at this price takes off the resting orders
\* there, the oldest first, whether the level traded was theirs or a synthetic
\* one.  An order that is emptied goes when the walk is over.
Consume(rest, side, price, size, t) ==
  LET here == {k \in DOMAIN rest : Rests(rest[k], side, t) /\ rest[k].price = price}
      ahead(k) == SumFunctionOnSet([j \in DOMAIN rest |-> rest[j].remaining], {j \in here : j < k})
      taken(k) == IF k \in here THEN Larger(0, Smaller(rest[k].remaining, size - ahead(k))) ELSE 0
  IN  [k \in DOMAIN rest |-> [rest[k] EXCEPT !.remaining = @ - taken(k)]]

(***************************************************************************)
(* A trade.  Selling an outcome is journaled as buying its complement, so  *)
(* in net terms every kind buys YES (delta > 0) or sells it (delta < 0).   *)
(***************************************************************************)
Delta(kind, size) == IF SideOf(kind) = "bid" THEN size ELSE -size

\* The holding after a trade of `delta` contracts at this YES price.
Netted(h, delta, price) ==
  LET extends == h.net = 0 \/ Sign(delta) = Sign(h.net)
      closing == Smaller(Abs(delta), Abs(h.net))
      net == h.net + delta
      weighted == Plus(Times(h.basis, h.net), Whole(price * delta))
      gain == Times(Plus(Whole(price), Times(h.basis, -1)), Sign(h.net) * closing)
  IN  IF extends
      THEN [h EXCEPT !.net = net, !.basis = Over(weighted[1], weighted[2] * net)]
      ELSE [h EXCEPT !.net = net,
                     !.realized = Plus(@, gain),
                     !.basis = IF Abs(delta) > closing THEN Whole(price)
                               ELSE IF net = 0 THEN Whole(0) ELSE @]

\* Mutant of Tokens: a sale takes the tokens of the outcome it is journaled as.
TokensOfComplement(h, kind, size) ==
  CASE kind = "BUY_YES"  -> [h EXCEPT !.yes = @ + size]
    [] kind = "BUY_NO"   -> [h EXCEPT !.no = @ + size]
    [] kind = "SELL_YES" -> [h EXCEPT !.no = @ - size]
    [] kind = "SELL_NO"  -> [h EXCEPT !.yes = @ - size]

\* What a trade moves in the tokens held.
Tokens(h, kind, size) ==
  CASE kind = "BUY_YES"  -> [h EXCEPT !.yes = @ + size]
    [] kind = "BUY_NO"   -> [h EXCEPT !.no = @ + size]
    [] kind = "SELL_YES" -> [h EXCEPT !.yes = @ - size]
    [] kind = "SELL_NO"  -> [h EXCEPT !.no = @ - size]

\* What the trade pays (> 0) or costs (< 0), in the price of its own outcome.
Proceeds(kind, size, price) ==
  CASE kind = "BUY_YES"  -> -(size * price)
    [] kind = "BUY_NO"   -> -(size * (Payout - price))
    [] kind = "SELL_YES" -> size * price
    [] kind = "SELL_NO"  -> size * (Payout - price)

(***************************************************************************)
(* match: walk the opposite levels from the best, take what crosses, and   *)
(* rest what is left of a limit order.                                     *)
(***************************************************************************)
Crosses(side, price, limit) == IF side = "bid" THEN price <= limit ELSE price >= limit

\* What is left of the order and what its trades have done, after one more level.
Trade(o, t, w, l) ==
  LET side == SideOf(o.kind)
      n == Smaller(w.left, l.size)
  IN  IF n = 0 \/ ~Crosses(side, l.price, o.limit) THEN w
      ELSE [left |-> w.left - n,
            book |-> Consume(w.book, Opposite(side), l.price, n, t),
            hold |-> Netted(Tokens(w.hold, o.kind, n), Delta(o.kind, n), l.price),
            cash |-> w.cash + Proceeds(o.kind, n, l.price)]

Walk(o, t) ==
  FoldLeft(LAMBDA w, l : Trade(o, t, w, l),
           [left |-> o.size, book |-> book, hold |-> hold, cash |-> cash],
           LevelsFor(Opposite(SideOf(o.kind)), t))

\* The elements of s at these places, in their order.
Chosen(s, places) ==
  LET at == InOrder(places, {p \in places \X places : p[1] < p[2]})
  IN  [k \in DOMAIN at |-> s[at[k]]]

Alive(rest) == Chosen(rest, {k \in DOMAIN rest : rest[k].remaining > 0})

Resting(o, left) == [id |-> o.id, side |-> SideOf(o.kind), price |-> o.limit,
                     remaining |-> left, expires |-> o.expires]

Matched(o, t) ==
  LET w == Walk(o, t)
      rests == w.left > 0 /\ o.type \notin {"MARKET", "FILL_OR_KILL"}
  IN  /\ book' = IF rests THEN Append(Alive(w.book), Resting(o, w.left)) ELSE Alive(w.book)
      /\ hold' = w.hold
      /\ cash' = w.cash

(***************************************************************************)
(* placeOrder.  The checks look at the market, the order and the inventory *)
(* of the moment it is placed; nothing is reserved for it.  An order seen  *)
(* before is answered from the memo and changes nothing.                   *)
(***************************************************************************)
Acceptable(q) ==
  /\ Status = "Trading"
  /\ q.ttl > 0
  /\ q.type = "MARKET" \/ (q.price > 0 /\ q.price < Payout)
  /\ q.kind = "SELL_YES" => hold.yes >= q.size
  /\ q.kind = "SELL_NO" => hold.no >= q.size

Limit(q) == IF q.type = "MARKET" THEN IF SideOf(q.kind) = "bid" THEN Payout ELSE 0
            ELSE YesPrice(q.kind, q.price)

Order(q) == [id |-> Len(acks) + 1, kind |-> q.kind, type |-> q.type, size |-> q.size,
             limit |-> Limit(q), expires |-> Smaller(now + q.ttl, Expiry)]

PlaceRejected(q) ==
  /\ Still /\ Len(acks) < MaxOrders
  /\ ~Acceptable(q)
  /\ acks' = Append(acks, "REJECTED")
  /\ UNCHANGED <<clockVars, venueConfig, outcome, book, hold, cash, claimed>>

PlaceQueued(q) ==
  /\ Still /\ Len(acks) < MaxOrders
  /\ Acceptable(q) /\ latency > 0
  /\ acks' = Append(acks, "QUEUED")
  /\ timers' = Armed(timers, latency, Order(q))
  /\ UNCHANGED <<now, target, venueConfig, outcome, book, hold, cash, claimed>>

PlaceInline(q) ==
  /\ Still /\ Len(acks) < MaxOrders
  /\ Acceptable(q) /\ latency = 0
  /\ acks' = Append(acks, "ACCEPTED")
  /\ Matched(Order(q), now)
  /\ UNCHANGED <<clockVars, venueConfig, outcome, claimed>>

\* The latency of a queued order has passed: it is matched at that instant.
IsOrder(job) == "limit" \in DOMAIN job

FireOrder(i) ==
  /\ ~Still /\ Due(i) /\ IsOrder(timers[i].job)
  /\ now' = timers[i].due
  /\ timers' = Without(i)
  /\ Matched(timers[i].job, now')
  /\ UNCHANGED <<target, venueConfig, outcome, acks, claimed>>

(***************************************************************************)
(* The other calls.                                                        *)
(***************************************************************************)
\* cancel: an order that rests is taken out; any other answers
\* ALREADY_FILLED or NOT_FOUND and changes nothing.
Cancel(id) ==
  /\ Still
  /\ \E k \in DOMAIN book : book[k].id = id /\ book' = RemoveAt(book, k)
  /\ UNCHANGED <<clockVars, venueConfig, outcome, acks, hold, cash, claimed>>

CancelAll ==
  /\ Still /\ book # <<>>
  /\ book' = <<>>
  /\ UNCHANGED <<clockVars, venueConfig, outcome, acks, hold, cash, claimed>>

\* mintPair: one YES and one NO for the pay-out of one contract.
Mint(n) ==
  /\ Still
  /\ n \in Mints /\ hold.no + n <= MaxOrders       \* bound
  /\ Status = "Trading" /\ cash >= n * Payout
  /\ cash' = cash - n * Payout
  /\ hold' = [hold EXCEPT !.yes = @ + n, !.no = @ + n]
  /\ UNCHANGED <<clockVars, venueConfig, outcome, acks, book, claimed>>

\* settleDue, run by whichever of getMarkets, settledMarkets, claimable and
\* claim is called first once the market is Resolved: the spot of that call
\* decides.
Settled == IF outcome = "none" /\ Status = "Resolved"
           THEN IF spot = "above" THEN "yes" ELSE "no"
           ELSE outcome

Look ==
  /\ Still /\ Settled # outcome
  /\ outcome' = Settled
  /\ UNCHANGED <<clockVars, venueConfig, acks, book, hold, cash, claimed>>

Winning(h, o) == IF o = "yes" THEN h.yes ELSE h.no

\* claim: the winning tokens are paid, and the whole holding is cleared.
Claim ==
  LET n == Winning(hold, Settled)
      paid == Times(Plus(Whole(Payout),
                         IF Settled = "yes" THEN Times(hold.basis, -1)
                         ELSE Plus(hold.basis, Whole(-Payout))), n)
  IN  /\ Still
      /\ Settled # "none" /\ ~claimed /\ n > 0
      /\ outcome' = Settled /\ claimed' = TRUE
      /\ cash' = cash + n * Payout
      /\ hold' = [NoHolding EXCEPT !.realized = Plus(hold.realized, paid)]
      /\ UNCHANGED <<clockVars, venueConfig, acks, book>>

VenueCall ==
  \/ \E q \in Requests : PlaceRejected(q) \/ PlaceQueued(q) \/ PlaceInline(q)
  \/ \E id \in DOMAIN acks : Cancel(id)
  \/ \E n \in Mints : Mint(n)
  \/ CancelAll \/ Look \/ Claim
=============================================================================
