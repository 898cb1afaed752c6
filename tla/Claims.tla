------------------------------- MODULE Claims -------------------------------
(***************************************************************************)
(* Collecting winnings: the sweeps of ClaimLoop (packages/venue/src/claim.ts) *)
(* on the timer of main.ts, over claimable() and claim() of DreamDEXVenue,    *)
(* whose transaction the queue runs once per market for the life of the      *)
(* process.  A timer does not wait for the sweep before, so sweeps that last  *)
(* longer than the interval overlap.                                         *)
(***************************************************************************)
EXTENDS Naturals, FiniteSets

CONSTANTS
  Markets,
  Sweeps,      \* bound of the model: sweeps under way at a time
  Interval     \* intervalMs, in ticks of the timer

ASSUME ClaimsAssumption == Interval \in Nat /\ IsFiniteSet(Markets)

VARIABLES
  market,      \* [Markets -> MarketState], the chain's truth
  memo,        \* [Markets -> Memo], what the queue keeps under claim:<market>
  sweep,       \* [Sweeps -> Sweep]
  since,       \* ticks since lastSweep, at most Interval
  done,        \* markets claimed
  booked,      \* [Markets -> times it was counted in claimed and totalClaimedUsd]
  unclaimed,   \* the health figure: winnings not collected, one per market
  shared       \* history: markets two sweeps were claiming at the same time

vars == <<market, memo, sweep, since, done, booked, unclaimed, shared>>

MarketState == {"trading", "won", "lost", "redeemed"}
Memo == {"none", "queued", "ok", "failed"}
Sweep == [pc : {"idle", "listing", "claiming", "reading", "waiting"},
          todo : SUBSET Markets,
          on : Markets \cup {"none"}]

TypeOK == /\ market \in [Markets -> MarketState]
          /\ memo \in [Markets -> Memo]
          /\ sweep \in [Sweeps -> Sweep]
          /\ since \in 0 .. Interval
          /\ done \subseteq Markets
          /\ booked \in [Markets -> Nat]
          /\ unclaimed \in Nat
          /\ shared \subseteq Markets

Init == /\ market = [m \in Markets |-> "trading"]
        /\ memo = [m \in Markets |-> "none"]
        /\ sweep = [s \in Sweeps |-> [pc |-> "idle", todo |-> {}, on |-> "none"]]
        /\ since = Interval
        /\ done = {}
        /\ booked = [m \in Markets |-> 0]
        /\ unclaimed = 0
        /\ shared = {}

Go(s, pc, todo, on) == sweep' = [sweep EXCEPT ![s] = [pc |-> pc, todo |-> todo, on |-> on]]

-----------------------------------------------------------------------------
(* The chain resolves a market we hold, for us or against. *)
Resolve(m) == /\ market[m] = "trading"
              /\ \E outcome \in {"won", "lost"} : market' = [market EXCEPT ![m] = outcome]
              /\ UNCHANGED <<memo, sweep, since, done, booked, unclaimed, shared>>

(* A redeem whose submission timed out lands after all. *)
LandLate(m) == /\ memo[m] = "failed"
               /\ market[m] = "won"
               /\ market' = [market EXCEPT ![m] = "redeemed"]
               /\ UNCHANGED <<memo, sweep, since, done, booked, unclaimed, shared>>

Pass == /\ since < Interval
        /\ since' = since + 1
        /\ UNCHANGED <<market, memo, sweep, done, booked, unclaimed, shared>>

-----------------------------------------------------------------------------
(* The timer: a sweep that is not due does nothing.  One that is takes the   *)
(* interval for itself before it awaits anything.                            *)
Fire(s) == /\ sweep[s].pc = "idle"
           /\ since = Interval
           /\ since' = 0
           /\ Go(s, "listing", {}, "none")
           /\ UNCHANGED <<market, memo, done, booked, unclaimed, shared>>

(* claimable(): winnings still on the contract; what cannot be read is left out. *)
List(s) == /\ sweep[s].pc = "listing"
           /\ \E found \in SUBSET {m \in Markets : market[m] = "won"} :
                /\ Go(s, "claiming", found, "none")
                /\ unclaimed' = Cardinality(found \ done)
           /\ UNCHANGED <<market, memo, since, done, booked, shared>>

ListFails(s) == /\ sweep[s].pc = "listing"
                /\ Go(s, "idle", {}, "none")
                /\ UNCHANGED <<market, memo, since, done, booked, unclaimed, shared>>

(* One that another sweep has claimed meanwhile is passed over. *)
Skip(s, m) == /\ sweep[s].pc = "claiming"
              /\ m \in sweep[s].todo \cap done
              /\ Go(s, "claiming", sweep[s].todo \ {m}, "none")
              /\ UNCHANGED <<market, memo, since, done, booked, unclaimed, shared>>

Busy(m) == \E s \in Sweeps : sweep[s].on = m

(* Mutant of Try: done is not looked at again after the listing. *)
TryStale(s, m) == /\ sweep[s].pc = "claiming"
                  /\ m \in sweep[s].todo
                  /\ Go(s, "reading", sweep[s].todo \ {m}, m)
                  /\ shared' = IF Busy(m) THEN shared \cup {m} ELSE shared
                  /\ UNCHANGED <<market, memo, since, done, booked, unclaimed>>

(* Mutant of Try: a market counts as claimed as soon as it is tried. *)
TryOnce(s, m) == /\ sweep[s].pc = "claiming"
                 /\ m \in sweep[s].todo \ done
                 /\ Go(s, "reading", sweep[s].todo \ {m}, m)
                 /\ done' = done \cup {m}
                 /\ UNCHANGED <<market, memo, since, booked, unclaimed, shared>>

(* claim() reads the market's status first. *)
Try(s, m) == /\ sweep[s].pc = "claiming"
             /\ m \in sweep[s].todo \ done
             /\ Go(s, "reading", sweep[s].todo \ {m}, m)
             /\ shared' = IF Busy(m) THEN shared \cup {m} ELSE shared
             /\ UNCHANGED <<market, memo, since, done, booked, unclaimed>>

(* A failed read is an answer like "not resolved": try again another time.   *)
ReadFails(s) == /\ sweep[s].pc = "reading"
                /\ Go(s, "claiming", sweep[s].todo, "none")
                /\ UNCHANGED <<market, memo, since, done, booked, unclaimed, shared>>

Submit(s) == LET m == sweep[s].on IN
             /\ sweep[s].pc = "reading"
             /\ Go(s, "waiting", sweep[s].todo, m)
             /\ memo' = IF memo[m] = "none" THEN [memo EXCEPT ![m] = "queued"] ELSE memo
             /\ UNCHANGED <<market, since, done, booked, unclaimed, shared>>

(* The queue signs the redeem; a failure may have landed or not. *)
Redeem(m) == /\ memo[m] = "queued"
             /\ \/ /\ market' = [market EXCEPT ![m] = "redeemed"]
                   /\ \E r \in {"ok", "failed"} : memo' = [memo EXCEPT ![m] = r]
                \/ /\ memo' = [memo EXCEPT ![m] = "failed"]
                   /\ UNCHANGED market
             /\ UNCHANGED <<sweep, since, done, booked, unclaimed, shared>>

(* A success is booked by every sweep that waited for it. *)
Answered(s) == LET m == sweep[s].on IN
  /\ sweep[s].pc = "waiting"
  /\ memo[m] \in {"ok", "failed"}
  /\ Go(s, "claiming", sweep[s].todo, "none")
  /\ IF memo[m] = "ok"
     THEN /\ done' = done \cup {m}
          /\ booked' = [booked EXCEPT ![m] = @ + 1]
          /\ unclaimed' = IF unclaimed > 0 THEN unclaimed - 1 ELSE 0
     ELSE UNCHANGED <<done, booked, unclaimed>>
  /\ UNCHANGED <<market, memo, since, shared>>

End(s) == /\ sweep[s].pc = "claiming"
          /\ sweep[s].todo = {}
          /\ Go(s, "idle", {}, "none")
          /\ UNCHANGED <<market, memo, since, done, booked, unclaimed, shared>>

Step(s) == \/ ListFails(s) \/ List(s) \/ ReadFails(s) \/ Submit(s) \/ Answered(s) \/ End(s)
           \/ \E m \in Markets : Skip(s, m) \/ Try(s, m)

Next == \/ Pass
        \/ \E m \in Markets : Resolve(m) \/ LandLate(m) \/ Redeem(m)
        \/ \E s \in Sweeps : Fire(s) \/ Step(s)

Spec == Init /\ [][Next]_vars

(* Time passes, the timer fires when due, calls are answered and the queue    *)
(* runs what it holds; a read that can fail does not fail forever.            *)
Reads(m) == \E s \in Sweeps : /\ sweep[s].pc = "listing"
                              /\ List(s)
                              /\ m \in sweep'[s].todo

Submits(m) == \E s \in Sweeps : sweep[s].on = m /\ Submit(s)

Fairness == /\ WF_vars(Pass)
            /\ WF_vars(\E s \in Sweeps : Fire(s))
            /\ \A s \in Sweeps : WF_vars(Step(s))
            /\ \A m \in Markets : WF_vars(Redeem(m)) /\ SF_vars(Reads(m)) /\ SF_vars(Submits(m))

FairSpec == Spec /\ Fairness

-----------------------------------------------------------------------------
(* The figure the arena shows as claimed is money: a market is counted only   *)
(* when its winnings were paid out, and twice only if two sweeps were waiting  *)
(* for the same claim.  A sweep's list is stale when its turn comes.           *)
BookedOnce == \A m \in Markets : /\ booked[m] > 0 => market[m] = "redeemed"
                                 /\ booked[m] > 1 => m \in shared

(* Reads that fail, sweeps that overlap and markets that resolve in between    *)
(* do not make the loop lose a market: what was won is paid out or at least    *)
(* gets its one transaction.                                                   *)
WonIsTried == \A m \in Markets :
                market[m] = "won" ~> market[m] = "redeemed" \/ memo[m] = "failed"
=============================================================================
