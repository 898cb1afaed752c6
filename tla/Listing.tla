------------------------------- MODULE Listing -------------------------------
(***************************************************************************)
(* What the venue answers from its caches: getMarkets, getQuote, the       *)
(* on-chain status and the settled markets of DreamDEXVenue                *)
(* (venue/src/dreamdex.ts), the opening prices of reference markets        *)
(* (venue/src/boundary.ts) and the reads of sdkClient.ts, behind the       *)
(* indexer's lane (ConcurrentGate).                                        *)
(*                                                                         *)
(* A call asks for one thing: [kind, market].  A value is the moment it    *)
(* was read, and for a listing the markets it holds and those of them that *)
(* are priced.  A cached value carries the moment its call was MADE.  No   *)
(* two calls share a read: each that misses the cache makes its own.       *)
(* The other lane, of four, is wider than the calls modelled.              *)
(***************************************************************************)
EXTENDS ConcurrentGate

CONSTANTS
  Markets,       \* reference markets: their rows have no strike
  NoMarket,      \* the market of a call about all of them
  Nothing,       \* no value
  Expiry,        \* market -> the moment it expires
  MinTte,        \* minTteMs
  Ttl,           \* kind -> how long its cached value serves
  MaxNow         \* bound of the clock

ASSUME ListingAssumption ==
  /\ NoMarket \notin Markets
  /\ Expiry \in [Markets -> Nat] /\ MinTte \in Nat
  /\ Ttl \in [{"list", "quote", "status", "settled"} -> Nat] /\ Ttl["list"] > 0

VARIABLES
  now,
  call,          \* call -> [what, asked, step, since, priced, left, answer]
  cache,         \* what -> [value, at], or Nothing
  knownAt        \* boundary.ts's cache: market -> when it was found, or Nothing

vars == <<gateVars, now, call, cache, knownAt>>

What == [kind : {"quote", "status"}, market : Markets]
          \cup [kind : {"list", "settled"}, market : {NoMarket}]
List == [kind |-> "list", market |-> NoMarket]

Unmade == [what |-> List, asked |-> 0, step |-> "unmade", since |-> 0,
           priced |-> {}, left |-> {}, answer |-> Nothing]

Init ==
  /\ GateInit
  /\ now = 0
  /\ call = [c \in Calls |-> Unmade]
  /\ cache = [w \in What |-> Nothing]
  /\ knownAt = [m \in Markets |-> Nothing]

Known == {m \in Markets : knownAt[m] # Nothing}
Fresh(w) == cache[w] # Nothing /\ now - cache[w].at < Ttl[w.kind]

-----------------------------------------------------------------------------
\* A step of a call; what it reads is as of the moment the read began.
At(call0, c, step) ==
  [call0 EXCEPT ![c] = [@ EXCEPT !.step = step, !.since = now, !.priced = {}, !.left = {}]]

\* Mutant of Stamp: a value is dated when it is complete.
StampEnd(c) == now

\* The date of what a call brings home: `now` as its first line read it.
Stamp(c) == call[c].asked

\* A call that is over keeps what it asked for, when, and its answer; one that
\* failed keeps nothing.
Answered(call0, c, value) ==
  [call0 EXCEPT ![c] = [Unmade EXCEPT !.what = call0[c].what, !.asked = call0[c].asked,
                                      !.step = "answered", !.answer = value]]
Failed(call0, c) == [call0 EXCEPT ![c] = [Unmade EXCEPT !.step = "failed"]]
Keep(w, c, value) == [cache EXCEPT ![w] = [value |-> value, at |-> Stamp(c)]]

Read(t) == [read |-> t, listed |-> {}, priced |-> {}]

\* tradableByTime: a market too near its expiry to be traded is left out; a
\* minimum of zero leaves none out.
Tradable(c) == {m \in Markets : MinTte > 0 => Expiry[m] - call[c].asked >= MinTte}

\* The listing is there for whoever asked for it; a quote goes on to its book,
\* unless its market is not listed.
WithList(call0, c, value) ==
  LET w == call0[c].what
  IN  CASE w.kind = "list" -> Answered(call0, c, value)
        [] w.market \in value.listed -> At(call0, c, "reading")
        [] OTHER -> Failed(call0, c)

\* The boundaries are there: the listing is complete, and kept with the
\* boundaries of the markets that are left in it.
Complete(c, priced) ==
  LET value == [read |-> call[c].since, listed |-> Tradable(c),
                priced |-> priced \cap Tradable(c)]
  IN  /\ cache' = Keep(List, c, value)
      /\ call' = WithList(call, c, value)

-----------------------------------------------------------------------------
\* A call, from the cache or as far as its first read: the indexer's lane for
\* a listing, the chain for a status.  Calls are made in the order of their
\* numbers.
Ask(c, w) ==
  LET made == [call EXCEPT ![c].what = w, ![c].asked = now]
  IN  /\ call[c].step = "unmade" /\ \A d \in Calls : d < c => call[d].step # "unmade"
      /\ \/ /\ Fresh(w)
            /\ call' = Answered(made, c, cache[w].value)
            /\ UNCHANGED gateVars
         \/ /\ ~Fresh(w) /\ w.kind = "status"
            /\ call' = At(made, c, "reading")
            /\ UNCHANGED gateVars
         \/ /\ ~Fresh(w) /\ w.kind = "quote" /\ Fresh(List)
            /\ call' = WithList(made, c, cache[List].value)
            /\ UNCHANGED gateVars
         \/ /\ ~Fresh(w) /\ (w.kind = "quote" => ~Fresh(List)) /\ w.kind # "status"
            /\ call' = At(made, c, "listing")
            /\ RunWaits(c) \/ RunStarts(c)
  /\ UNCHANGED <<now, cache, knownAt>>

\* A call that waited for the lane goes on.
Woken ==
  /\ Resume
  /\ call' = At(call, Head(woken), "listing")
  /\ UNCHANGED <<now, cache, knownAt>>

\* Mutant of Hits: the feed is asked every time.
HitsNone == {}

\* The markets whose boundary resolve has in its cache.
Hits == Known

\* The indexer's rows.  Boundaries already found are posted at once, and the
\* feed is asked for the others.
Rows(c) ==
  /\ Finish(c)
  /\ \/ /\ call[c].what.kind = "settled"
        /\ call' = Answered(call, c, Read(call[c].since))
        /\ UNCHANGED cache
     \/ /\ call[c].what.kind # "settled" /\ Hits = Markets
        /\ Complete(c, Hits)
     \/ /\ call[c].what.kind # "settled" /\ Hits # Markets
        /\ call' = [call EXCEPT ![c].step = "pricing", ![c].priced = Hits,
                                ![c].left = Markets \ Hits]
        /\ UNCHANGED cache
  /\ UNCHANGED <<now, knownAt>>

\* The indexer fails, and the call with it.
NoRows(c) ==
  /\ Finish(c)
  /\ call' = Failed(call, c)
  /\ UNCHANGED <<now, cache, knownAt>>

\* The feed answers for one market of a listing: its price, or nothing - it has
\* none yet, or fails.  The last answer completes the listing.
Resolved(c, m, found) ==
  /\ m \in call[c].left
  /\ knownAt' = IF found /\ m \notin Known THEN [knownAt EXCEPT ![m] = now] ELSE knownAt
  /\ LET priced == call[c].priced \cup {x \in {m} : found}
     IN  IF call[c].left = {m}
         THEN Complete(c, priced)
         ELSE /\ call' = [call EXCEPT ![c].left = @ \ {m}, ![c].priced = priced]
              /\ UNCHANGED cache
  /\ UNCHANGED <<gateVars, now>>

\* What a call has read is its answer, and is kept.
ReadDone(c) ==
  /\ call[c].step = "reading"
  /\ call' = Answered(call, c, Read(call[c].since))
  /\ cache' = Keep(call[c].what, c, Read(call[c].since))
  /\ UNCHANGED <<gateVars, now, knownAt>>

\* The chain's status of a market, and the book of its pool.
StatusRead(c) == call[c].what.kind = "status" /\ ReadDone(c)
BookRead(c) == call[c].what.kind = "quote" /\ ReadDone(c)

\* The read fails, or the market has no row or no pool.
ReadFails(c) ==
  /\ call[c].step = "reading"
  /\ call' = Failed(call, c)
  /\ UNCHANGED <<gateVars, now, cache, knownAt>>

Pass ==
  /\ now < MaxNow /\ woken = <<>>
  /\ now' = now + 1
  /\ UNCHANGED <<gateVars, call, cache, knownAt>>

-----------------------------------------------------------------------------
Next ==
  \/ \E c \in Calls, w \in What : Ask(c, w)
  \/ Woken
  \/ \E c \in Calls : Rows(c) \/ NoRows(c) \/ StatusRead(c) \/ BookRead(c)
                         \/ ReadFails(c)
  \/ \E c \in Calls, m \in Markets, found \in BOOLEAN : Resolved(c, m, found)
  \/ Pass

\* Microtasks run, and the indexer's answer comes or its request fails.
Spec == /\ Init /\ [][Next]_vars
        /\ WF_vars(Woken)
        /\ \A c \in Calls : WF_vars(Rows(c) \/ NoRows(c))

-----------------------------------------------------------------------------
Answers == {c \in Calls : call[c].step = "answered"}

\* However long a listing stood in line, and whoever else filled the cache in
\* the meantime: what an answer is made of was read no longer before the call
\* than its cache may serve, and a market in it had its minimum time to live
\* less that much (dreamdex.ts:386-401, 443-481).
AnswersFresh ==
  \A c \in Answers :
    /\ call[c].asked - call[c].answer.read <= Ttl[call[c].what.kind]
    /\ MinTte > 0 => \A m \in call[c].answer.listed :
                       Expiry[m] - call[c].asked > MinTte - Ttl["list"]

\* A market whose boundary was found has it in every listing that still holds
\* the market and was asked for later than the cache may serve, though the feed
\* be down, and though a listing that began before it was found may end after
\* it and replace a better one (dreamdex.ts:411-429, boundary.ts:92-94).
KnownBoundaryPosted ==
  \A c \in Answers : call[c].what.kind = "list" =>
    \A m \in Known \cap call[c].answer.listed :
       call[c].asked - knownAt[m] >= Ttl["list"] => m \in call[c].answer.priced
=============================================================================
