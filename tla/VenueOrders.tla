---------------------------- MODULE VenueOrders ----------------------------
(***************************************************************************)
(* What becomes of an order of DreamDEXVenue after it was placed            *)
(* (packages/venue/src/dreamdex.ts): cancel() through the queue, cancelAll() *)
(* past it, the records both keep and forget, and the escrow of orders that  *)
(* expired.  The pool fills and expires orders on its own.                   *)
(*                                                                          *)
(* The client's id and the pool's id of an order are one name here.          *)
(***************************************************************************)
EXTENDS FiniteSets

CONSTANTS
  Orders,      \* orders of this process
  Old,         \* orders an earlier run of the same key left on the book
  MarketOf,    \* [Orders \cup Old -> markets]
  Calls,       \* calls of cancel(); each comes once (bounds them)
  Sweeps       \* calls of cancelAll(); each comes once (bounds them)

Known == Orders \cup Old

ASSUME OrdersAssumption == /\ Orders \cap Old = {}
                           /\ DOMAIN MarketOf = Known
                           /\ IsFiniteSet(Known)

VARIABLES
  pool,        \* [Known -> PoolState], the chain's truth
  seen,        \* [Orders -> Ack], seenOrders
  tracked,     \* keys of venueOrderIds and of ownOrderMarkets
  dead,        \* deadOrders
  memo,        \* [Orders -> Memo], what the queue keeps under cancel:<id>
  call,        \* [Calls -> Call]
  sweep        \* [Sweeps -> Sweep]

vars == <<pool, seen, tracked, dead, memo, call, sweep>>

PoolState == {"absent", "open", "filled", "cancelled", "expired", "reclaimed"}

(* NAMELESS is an ACCEPTED acknowledgement whose venueOrderId is null. *)
Ack == {"none", "placing", "ACCEPTED", "NAMELESS", "REJECTED"}
Acknowledged == {"ACCEPTED", "NAMELESS"}

(* A submission the queue has seen is never run again under the same id: a   *)
(* later one gets the first one's promise, whether it was kept or not.       *)
Memo == {"none", "queued", "running", "ok", "refused", "failed"}

Answer == {"none", "CANCELLED", "ALREADY_FILLED", "NOT_FOUND"}
Call == [pc : {"idle", "waiting", "done"}, order : Orders \cup {"none"}, answer : Answer]

Sweep == [pc : {"idle", "listing", "cancelling", "signed", "reclaiming", "done"},
          todo : SUBSET Known,         \* targets not cancelled yet
          on : Known \cup {"none"},    \* the one being cancelled
          result : {"none", "ok", "expired", "failed"},
          expired : SUBSET Known,      \* to reclaim
          own : SUBSET Known,          \* history: tracked when it began
          failed : SUBSET Known]       \* history: its writes that failed

TypeOK == /\ pool \in [Known -> PoolState]
          /\ seen \in [Orders -> Ack]
          /\ tracked \subseteq Orders
          /\ dead \subseteq Orders
          /\ memo \in [Orders -> Memo]
          /\ call \in [Calls -> Call]
          /\ sweep \in [Sweeps -> Sweep]

Init == /\ pool = [o \in Known |-> IF o \in Old THEN "open" ELSE "absent"]
        /\ seen = [o \in Orders |-> "none"]
        /\ tracked = {}
        /\ dead = {}
        /\ memo = [o \in Orders |-> "none"]
        /\ call = [c \in Calls |-> [pc |-> "idle", order |-> "none", answer |-> "none"]]
        /\ sweep = [s \in Sweeps |-> [pc |-> "idle", todo |-> {}, on |-> "none", result |-> "none",
                                      expired |-> {}, own |-> {}, failed |-> {}]]

-----------------------------------------------------------------------------
(* The pool. *)

(* An order lands, even after its submission timed out and was given up.    *)
Land(o) == /\ seen[o] \in {"placing", "REJECTED"}
           /\ pool[o] = "absent"
           /\ pool' = [pool EXCEPT ![o] = "open"]
           /\ UNCHANGED <<seen, tracked, dead, memo, call, sweep>>

Fill(o) == /\ pool[o] = "open"
           /\ pool' = [pool EXCEPT ![o] = "filled"]
           /\ UNCHANGED <<seen, tracked, dead, memo, call, sweep>>

(* It can no longer be matched, but its escrow stays locked. *)
Expire(o) == /\ pool[o] = "open"
             /\ pool' = [pool EXCEPT ![o] = "expired"]
             /\ UNCHANGED <<seen, tracked, dead, memo, call, sweep>>

(* A cancel that was given up lands after all. *)
LandLate(o) == /\ memo[o] = "failed"
               /\ pool[o] = "open"
               /\ pool' = [pool EXCEPT ![o] = "cancelled"]
               /\ UNCHANGED <<seen, tracked, dead, memo, call, sweep>>

(* What a cancel signed for o does and reports: the pool no longer knows the *)
(* owner of an order that is over, and any write may fail, also after it     *)
(* landed.                                                                  *)
Cancelled(o) == [pool EXCEPT ![o] = "cancelled"]

(* Mutant of CancelResult: a revert, which the SDK does not throw, is a success. *)
CancelResultUnchecked(o, pool2) == {"ok"}

CancelResult(o, pool2) ==
  IF pool[o] = "open" THEN IF pool2 = Cancelled(o) THEN {"ok", "failed"} ELSE {"failed"}
                      ELSE {"refused", "failed"}

CancelEffect(o) == IF pool[o] = "open" THEN {pool, Cancelled(o)} ELSE {pool}

-----------------------------------------------------------------------------
(* placeOrder(): its refusals and its queue are in TxQueue and Engine.       *)
Place(o) == /\ seen[o] = "none"
            /\ seen' = [seen EXCEPT ![o] = "placing"]
            /\ UNCHANGED <<pool, tracked, dead, memo, call, sweep>>

(* The receipt may lack the order's id: the order is acknowledged all the     *)
(* same, and not tracked.  Any write may fail, also after it landed.          *)
Placed(o) == /\ seen[o] = "placing"
             /\ \/ /\ pool[o] # "absent"
                   /\ seen' = [seen EXCEPT ![o] = "ACCEPTED"]
                   /\ tracked' = tracked \cup {o}
                \/ /\ pool[o] # "absent"
                   /\ seen' = [seen EXCEPT ![o] = "NAMELESS"]
                   /\ UNCHANGED tracked
                \/ /\ seen' = [seen EXCEPT ![o] = "REJECTED"]
                   /\ UNCHANGED tracked
             /\ UNCHANGED <<pool, dead, memo, call, sweep>>

Forget(os) == tracked' = tracked \ os

-----------------------------------------------------------------------------
(* cancel() *)
Respond(c, o, a) == call' = [call EXCEPT ![c] = [pc |-> "done", order |-> o, answer |-> a]]

(* Without a transaction: the pool disowned the order before, or it is not   *)
(* tracked and the acknowledgement decides the answer.                       *)
CancelUntracked(c, o) ==
  /\ call[c].pc = "idle"
  /\ \/ o \in dead
     \/ o \notin tracked
  /\ Respond(c, o, IF o \notin dead /\ seen[o] \in Acknowledged THEN "ALREADY_FILLED" ELSE "NOT_FOUND")
  /\ UNCHANGED <<pool, seen, tracked, dead, memo, sweep>>

(* Through the queue, where the order's first cancel stands for all later ones. *)
CancelTracked(c, o) ==
  /\ call[c].pc = "idle"
  /\ o \in tracked \ dead
  /\ memo[o] # "running"
  /\ call' = [call EXCEPT ![c] = [pc |-> "waiting", order |-> o, answer |-> "none"]]
  /\ memo' = IF memo[o] = "none" THEN [memo EXCEPT ![o] = "queued"] ELSE memo
  /\ UNCHANGED <<pool, seen, tracked, dead, sweep>>

(* While it executes, the queue rejects another one at once: answered like a   *)
(* passing failure.                                                         *)
CancelReentrant(c, o) ==
  /\ call[c].pc = "idle"
  /\ o \in tracked \ dead
  /\ memo[o] = "running"
  /\ Respond(c, o, "NOT_FOUND")
  /\ UNCHANGED <<pool, seen, tracked, dead, memo, sweep>>

(* The queue takes it up, and signs it. *)
StartCancel(o) == /\ memo[o] = "queued"
                  /\ memo' = [memo EXCEPT ![o] = "running"]
                  /\ UNCHANGED <<pool, seen, tracked, dead, call, sweep>>

RunCancel(o) == /\ memo[o] = "running"
                /\ \E pool2 \in CancelEffect(o) : \E r \in CancelResult(o, pool2) :
                     /\ pool' = pool2
                     /\ memo' = [memo EXCEPT ![o] = r]
                /\ UNCHANGED <<seen, tracked, dead, call, sweep>>

(* Mutant of CancelAnswered: whatever went wrong, the order is forgotten. *)
CancelAnsweredForgetting(c) ==
  /\ call[c].pc = "waiting"
  /\ memo[call[c].order] \in {"ok", "refused", "failed"}
  /\ Forget({call[c].order})
  /\ Respond(c, call[c].order, IF memo[call[c].order] = "ok" THEN "CANCELLED" ELSE "NOT_FOUND")
  /\ UNCHANGED <<pool, seen, dead, memo, sweep>>

(* A cancel that landed, and one the pool refused, forget the order; a        *)
(* passing failure does not, and is answered NOT_FOUND all the same.          *)
CancelAnswered(c) ==
  LET o == call[c].order
  IN /\ call[c].pc = "waiting"
     /\ memo[o] \in {"ok", "refused", "failed"}
     /\ IF memo[o] = "failed" THEN UNCHANGED tracked ELSE Forget({o})
     /\ dead' = IF memo[o] = "refused" THEN dead \cup {o} ELSE dead
     /\ Respond(c, o, IF memo[o] = "ok" THEN "CANCELLED" ELSE "NOT_FOUND")
     /\ UNCHANGED <<pool, seen, memo, sweep>>

-----------------------------------------------------------------------------
(* cancelAll() *)
(* Mutant of OwnTargets: the indexer alone is asked. *)
NoOwnTargets == {}

OwnTargets == tracked

SweepBegin(s) == /\ sweep[s].pc = "idle"
                 /\ sweep' = [sweep EXCEPT ![s] = [sweep[s] EXCEPT !.pc = "listing", !.todo = OwnTargets,
                                                            !.own = tracked]]
                 /\ UNCHANGED <<pool, seen, tracked, dead, memo, call>>

(* The indexer adds what it believes open: it may know orders of an earlier  *)
(* run, may list one that is over, may not list one that is open, or fail.   *)
SweepList(s) == /\ sweep[s].pc = "listing"
                /\ \E listed \in SUBSET {o \in Known : pool[o] # "absent"} :
                     sweep' = [sweep EXCEPT ![s] = [sweep[s] EXCEPT !.pc = "cancelling", !.todo = @ \cup listed]]
                /\ UNCHANGED <<pool, seen, tracked, dead, memo, call>>

(* One by one, past the queue, with a nonce of their own. *)
SweepSign(s, o) ==
  /\ sweep[s].pc = "cancelling"
  /\ o \in sweep[s].todo
  /\ \E pool2 \in CancelEffect(o) : \E r \in CancelResult(o, pool2) :
       /\ pool' = pool2
       /\ sweep' = [sweep EXCEPT ![s] = [sweep[s] EXCEPT !.pc = "signed", !.todo = @ \ {o}, !.on = o,
                                                  !.result = IF r = "refused" THEN "expired" ELSE r]]
  /\ UNCHANGED <<seen, tracked, dead, memo, call>>

(* Every record of the order is dropped; an expired one is kept for reclaiming. *)
SweepAnswered(s) ==
  LET w == sweep[s] IN
  /\ w.pc = "signed"
  /\ IF w.result = "ok" THEN Forget({w.on}) ELSE UNCHANGED tracked
  /\ sweep' = [sweep EXCEPT ![s] =
                 [sweep[s] EXCEPT !.pc = "cancelling", !.on = "none", !.result = "none",
                           !.expired = IF w.result = "expired" THEN @ \cup {w.on} ELSE @,
                           !.failed = IF w.result = "failed" THEN @ \cup {w.on} ELSE @]]
  /\ UNCHANGED <<pool, seen, dead, memo, call>>

SweepToReclaim(s) == /\ sweep[s].pc = "cancelling"
                     /\ sweep[s].todo = {}
                     /\ sweep' = [sweep EXCEPT ![s] = [sweep[s] EXCEPT !.pc = "reclaiming"]]
                     /\ UNCHANGED <<pool, seen, tracked, dead, memo, call>>

(* reclaimExpired(): one transaction per market. *)
InMarket(os, m) == {o \in os : MarketOf[o] = m}

Reclaim(s, m) ==
  LET items == InMarket(sweep[s].expired, m) IN
  /\ sweep[s].pc = "reclaiming"
  /\ items # {}
  /\ \/ /\ pool' = [o \in Known |-> IF o \in items /\ pool[o] = "expired" THEN "reclaimed" ELSE pool[o]]
        /\ Forget(items)
        /\ sweep' = [sweep EXCEPT ![s] = [sweep[s] EXCEPT !.expired = @ \ items]]
     \/ /\ sweep' = [sweep EXCEPT ![s] = [sweep[s] EXCEPT !.expired = @ \ items, !.failed = @ \cup items]]
        /\ UNCHANGED <<pool, tracked>>
  /\ UNCHANGED <<seen, dead, memo, call>>

SweepEnd(s) == /\ sweep[s].pc = "reclaiming"
               /\ sweep[s].expired = {}
               /\ sweep' = [sweep EXCEPT ![s] = [sweep[s] EXCEPT !.pc = "done"]]
               /\ UNCHANGED <<pool, seen, tracked, dead, memo, call>>

-----------------------------------------------------------------------------
Next == \/ \E o \in Orders : Place(o) \/ Placed(o) \/ Land(o) \/ LandLate(o)
                            \/ StartCancel(o) \/ RunCancel(o)
        \/ \E o \in Known : Fill(o) \/ Expire(o)
        \/ \E c \in Calls, o \in Orders : CancelUntracked(c, o) \/ CancelTracked(c, o) \/ CancelReentrant(c, o)
        \/ \E c \in Calls : CancelAnswered(c)
        \/ \E s \in Sweeps : SweepBegin(s) \/ SweepList(s) \/ SweepAnswered(s)
                               \/ SweepToReclaim(s) \/ SweepEnd(s)
        \/ \E s \in Sweeps, o \in Known : SweepSign(s, o)
        \/ \E s \in Sweeps : \E m \in {MarketOf[o] : o \in Known} : Reclaim(s, m)

Spec == Init /\ [][Next]_vars

-----------------------------------------------------------------------------
(* venueOrderIds is all a shutdown can trust (the indexer lags): an order     *)
(* that was acknowledged with its id and can still be matched is never        *)
(* dropped from it, whatever cancels, sweeps, refusals and late transactions  *)
(* cross.  One acknowledged without an id never gets into it.                 *)
OpenStaysTracked ==
  \A o \in Orders : seen[o] = "ACCEPTED" /\ pool[o] = "open" => o \in tracked

(* No caller is told CANCELLED about an order that may still trade: a revert  *)
(* the SDK resolves without throwing is caught by assertTxOk.                 *)
CancelledIsTrue ==
  \A c \in Calls : call[c].answer = "CANCELLED" => pool[call[c].order] = "cancelled"

(* What cancelAll promises at shutdown: of the orders this process knew when  *)
(* it began, one that is still open or still holds escrow when it ends is one *)
(* the sweep itself failed to write for, and an open one can be swept again.  *)
SweepLeavesNothing ==
  \A s \in Sweeps : sweep[s].pc = "done" =>
    \A o \in sweep[s].own : /\ pool[o] \in {"open", "expired"} => o \in sweep[s].failed
                            /\ pool[o] = "open" => o \in tracked
=============================================================================
