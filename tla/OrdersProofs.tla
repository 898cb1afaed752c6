---------------------------- MODULE OrdersProofs ----------------------------
(***************************************************************************)
(* Proofs that no order is forgotten: by the venue (VenueOrders), for any    *)
(* number of orders, of cancels and of sweeps under way at once; by ECHO     *)
(* (Echo), for any number of markets, cycles and quotes, and any limits.    *)
(***************************************************************************)
EXTENDS VenueOrders, Echo, TLAPS

-----------------------------------------------------------------------------
(* VenueOrders. *)

Over(o) == pool[o] \notin {"absent", "open"}

(* An order only moves forward in the pool. *)
Forward(before, after) ==
  \/ after = before
  \/ before = "absent" /\ after = "open"
  \/ before = "open" /\ after \in {"filled", "cancelled", "expired"}
  \/ before = "expired" /\ after = "reclaimed"

(* What is on record of an order of this process, and what its one cancel     *)
(* through the queue has come to.                                           *)
RecordInv ==
  /\ \A o \in tracked : pool[o] # "absent" /\ seen[o] = "ACCEPTED"
  /\ \A o \in Orders : seen[o] = "ACCEPTED" /\ pool[o] = "open" => o \in tracked
  /\ \A o \in Orders : /\ memo[o] # "none" => pool[o] # "absent"
                       /\ memo[o] = "ok" => pool[o] = "cancelled"
                       /\ memo[o] = "refused" => Over(o)

CallInv ==
  \A c \in Calls : /\ call[c].pc = "waiting" => call[c].order \in Orders
                   /\ call[c].answer = "CANCELLED" => /\ call[c].order \in Orders
                                                      /\ pool[call[c].order] = "cancelled"

(* What a sweep has in hand, and what its answers say of the pool. *)
SweepInv ==
  \A s \in Sweeps :
    /\ \A o \in sweep[s].todo : pool[o] # "absent"
    /\ \A o \in sweep[s].expired : Over(o)
    /\ sweep[s].pc = "signed" =>
         /\ sweep[s].on \in Known
         /\ sweep[s].result \in {"ok", "expired", "failed"}
         /\ sweep[s].result = "ok" => pool[sweep[s].on] = "cancelled"
         /\ sweep[s].result = "expired" => Over(sweep[s].on)

(* Every order a sweep knew is to be cancelled, being cancelled, to be         *)
(* reclaimed, one its writes failed for, or over with nothing left in escrow. *)
Settled(o) == pool[o] \in {"filled", "cancelled", "reclaimed"}

CoverInv ==
  \A s \in Sweeps :
    /\ \A o \in sweep[s].own : /\ o \in Orders /\ seen[o] = "ACCEPTED"
                               /\ \/ o \in sweep[s].todo \cup sweep[s].expired \cup sweep[s].failed
                                  \/ sweep[s].pc = "signed" /\ sweep[s].on = o
                                  \/ Settled(o)
    /\ sweep[s].pc = "idle" => sweep[s].own = {}
    /\ sweep[s].pc \in {"reclaiming", "done"} => sweep[s].todo = {}
    /\ sweep[s].pc = "done" => sweep[s].expired = {}

IInv == TypeOK /\ RecordInv /\ CallInv /\ SweepInv /\ CoverInv

LEMMA InitIInv == Init => IInv
BY DEF Init, IInv, TypeOK, RecordInv, CallInv, SweepInv, CoverInv, Known, PoolState, Ack, Memo,
       Answer, Call, Sweep

-----------------------------------------------------------------------------
(* What a cancel that was signed does to the pool, and what it may report. *)
LEMMA CancelSigned ==
  ASSUME TypeOK, NEW o \in Known, pool[o] # "absent", NEW pool2 \in CancelEffect(o),
         NEW r \in CancelResult(o, pool2)
  PROVE  /\ pool2 \in [Known -> PoolState]
         /\ \A q \in Known : Forward(pool[q], pool2[q])
         /\ r \in {"ok", "refused", "failed"}
         /\ r = "ok" => pool2[o] = "cancelled"
         /\ r = "refused" => pool2[o] \notin {"absent", "open"}
<1>1. pool2 = pool \/ (pool[o] = "open" /\ pool2 = Cancelled(o))
  BY DEF CancelEffect
<1>2. /\ Cancelled(o) \in [Known -> PoolState] /\ Cancelled(o)[o] = "cancelled"
      /\ \A q \in Known \ {o} : Cancelled(o)[q] = pool[q]
  BY DEF Cancelled, TypeOK, PoolState
<1>3. pool2 \in [Known -> PoolState] /\ \A q \in Known : Forward(pool[q], pool2[q])
  BY <1>1, <1>2 DEF TypeOK, Forward
<1>4. CASE pool[o] = "open"
  <2>1. r = "ok" => pool2 = Cancelled(o)
    BY <1>4 DEF CancelResult
  <2> QED BY <1>2, <1>3, <1>4, <2>1 DEF CancelResult
<1>5. CASE pool[o] # "open"
  BY <1>1, <1>3, <1>5 DEF CancelResult
<1> QED BY <1>4, <1>5

(* What the pool does by itself keeps everything: an order that lands was not *)
(* acknowledged, and one that moves on was not lost.                         *)
LEMMA PoolStep ==
  ASSUME IInv, pool' \in [Known -> PoolState],
         \A o \in Known : Forward(pool[o], pool'[o]),
         \A o \in Orders : seen[o] = "ACCEPTED" /\ pool[o] = "absent" => pool'[o] = "absent",
         UNCHANGED <<seen, tracked, dead, memo, call, sweep>>
  PROVE  IInv'
<1>1. \A o \in Known : /\ pool[o] # "absent" => pool'[o] # "absent"
                       /\ pool[o] = "cancelled" => pool'[o] = "cancelled"
                       /\ Over(o) => Over(o)'
                       /\ Settled(o) => Settled(o)'
                       /\ pool'[o] = "open" => pool[o] \in {"absent", "open"}
  BY DEF Forward, Over, Settled
<1>2. /\ tracked \subseteq Known /\ Orders \subseteq Known
      /\ \A s \in Sweeps : sweep[s].todo \subseteq Known /\ sweep[s].expired \subseteq Known
  BY DEF IInv, TypeOK, Known, Sweep
<1>3. TypeOK'
  BY DEF IInv, TypeOK
<1>4. RecordInv'
  BY <1>1, <1>2 DEF IInv, RecordInv, Over
<1>5. CallInv'
  BY <1>1, <1>2 DEF IInv, CallInv
<1>6. SweepInv'
  <2> SUFFICES ASSUME NEW s \in Sweeps
               PROVE  /\ \A o \in sweep[s].todo : pool'[o] # "absent"
                      /\ \A o \in sweep[s].expired : Over(o)'
                      /\ sweep[s].pc = "signed" =>
                           /\ sweep[s].on \in Known
                           /\ sweep[s].result \in {"ok", "expired", "failed"}
                           /\ sweep[s].result = "ok" => pool'[sweep[s].on] = "cancelled"
                           /\ sweep[s].result = "expired" => Over(sweep[s].on)'
    BY DEF SweepInv, Over
  <2> QED BY <1>1, <1>2 DEF IInv, SweepInv
<1>7. CoverInv'
  BY <1>1, <1>2 DEF IInv, CoverInv, Settled
<1> QED BY <1>3, <1>4, <1>5, <1>6, <1>7 DEF IInv

LEMMA LandStep ==
  ASSUME IInv, NEW o \in Known, (o \in Orders /\ (Land(o) \/ LandLate(o))) \/ Fill(o) \/ Expire(o)
  PROVE  IInv'
<1>1. pool' \in [Known -> PoolState] /\ UNCHANGED <<seen, tracked, dead, memo, call, sweep>>
  BY DEF IInv, TypeOK, PoolState, Land, LandLate, Fill, Expire
<1>2. \A q \in Known : Forward(pool[q], pool'[q])
  BY DEF IInv, TypeOK, Forward, Land, LandLate, Fill, Expire
<1>3. \A q \in Orders : seen[q] = "ACCEPTED" /\ pool[q] = "absent" => pool'[q] = "absent"
  BY DEF IInv, TypeOK, Known, Land, LandLate, Fill, Expire
<1> QED BY <1>1, <1>2, <1>3, PoolStep

-----------------------------------------------------------------------------
LEMMA PlaceStep ==
  ASSUME IInv, NEW o \in Orders, Place(o) \/ Placed(o)
  PROVE  IInv'
<1>1. UNCHANGED <<pool, dead, memo, call, sweep>>
  BY DEF Place, Placed
<1>2. /\ seen' \in [Orders -> Ack] /\ tracked' \in SUBSET Orders
      /\ \A q \in Orders : seen[q] = "ACCEPTED" => seen'[q] = "ACCEPTED"
      /\ tracked \subseteq tracked'
      /\ \A q \in Orders : seen'[q] = "ACCEPTED" /\ seen[q] # "ACCEPTED" => q \in tracked'
      /\ \A q \in tracked' \ tracked : seen'[q] = "ACCEPTED" /\ pool[q] # "absent"
  BY DEF IInv, TypeOK, Ack, Place, Placed
<1>3. TypeOK'
  BY <1>1, <1>2 DEF IInv, TypeOK
<1>4. RecordInv'
  BY <1>1, <1>2 DEF IInv, RecordInv, Over, TypeOK
<1>5. CallInv' /\ SweepInv'
  BY <1>1 DEF IInv, CallInv, SweepInv, Over
<1>6. CoverInv'
  BY <1>1, <1>2 DEF IInv, CoverInv, Settled
<1> QED BY <1>3, <1>4, <1>5, <1>6 DEF IInv

LEMMA CancelStep ==
  ASSUME IInv, NEW c \in Calls, NEW o \in Orders,
         CancelUntracked(c, o) \/ CancelTracked(c, o) \/ CancelReentrant(c, o)
  PROVE  IInv'
<1>1. UNCHANGED <<pool, seen, tracked, dead, sweep>>
  BY DEF CancelUntracked, CancelTracked, CancelReentrant
<1>2. /\ call' \in [Calls -> Call]
      /\ \A d \in Calls \ {c} : call'[d] = call[d]
      /\ call'[c].order = o /\ call'[c].answer # "CANCELLED"
  BY DEF IInv, TypeOK, CancelUntracked, CancelTracked, CancelReentrant, Respond, Call, Answer
<1>3. /\ memo' \in [Orders -> Memo]
      /\ \A q \in Orders : memo'[q] = memo[q] \/ (memo'[q] = "queued" /\ q \in tracked)
  BY DEF IInv, TypeOK, CancelUntracked, CancelTracked, CancelReentrant, Memo
<1>4. TypeOK'
  BY <1>1, <1>2, <1>3 DEF IInv, TypeOK
<1>5. RecordInv'
  BY <1>1, <1>3 DEF IInv, RecordInv, Over
<1>6. CallInv'
  <2>1. call'[c].order \in Orders /\ call'[c].answer # "CANCELLED"
    BY <1>2
  <2>2. \A d \in Calls \ {c} : /\ call'[d].pc = "waiting" => call'[d].order \in Orders
                               /\ call'[d].answer = "CANCELLED" =>
                                     call'[d].order \in Orders /\ pool'[call'[d].order] = "cancelled"
    BY <1>1, <1>2 DEF IInv, CallInv
  <2> QED BY <2>1, <2>2 DEF CallInv
<1>7. SweepInv' /\ CoverInv'
  BY <1>1 DEF IInv, SweepInv, CoverInv, Over, Settled
<1> QED BY <1>4, <1>5, <1>6, <1>7 DEF IInv

LEMMA StartCancelStep ==
  ASSUME IInv, NEW o \in Orders, StartCancel(o)
  PROVE  IInv'
<1>1. /\ memo[o] = "queued" /\ memo' = [memo EXCEPT ![o] = "running"]
      /\ UNCHANGED <<pool, seen, tracked, dead, call, sweep>>
  BY DEF StartCancel
<1>2. /\ memo' \in [Orders -> Memo]
      /\ memo'[o] = "running" /\ \A q \in Orders \ {o} : memo'[q] = memo[q]
  BY <1>1 DEF IInv, TypeOK, Memo
<1>3. TypeOK' /\ RecordInv'
  BY <1>1, <1>2 DEF IInv, TypeOK, RecordInv, Over
<1>4. CallInv' /\ SweepInv' /\ CoverInv'
  BY <1>1 DEF IInv, CallInv, SweepInv, CoverInv, Over, Settled
<1> QED BY <1>3, <1>4 DEF IInv

(* The pool first, as if it moved by itself; then the cancel's answer. *)
LEMMA RunCancelStep ==
  ASSUME IInv, NEW o \in Orders, RunCancel(o)
  PROVE  IInv'
<1>0. PICK pool2 \in CancelEffect(o) :
        \E r \in CancelResult(o, pool2) : pool' = pool2 /\ memo' = [memo EXCEPT ![o] = r]
  BY DEF RunCancel
<1>1. PICK r \in CancelResult(o, pool2) :
        memo[o] = "running" /\ pool' = pool2 /\ memo' = [memo EXCEPT ![o] = r]
  BY <1>0 DEF RunCancel
<1>2. UNCHANGED <<seen, tracked, dead, call, sweep>>
  BY DEF RunCancel
<1>3. o \in Known /\ pool[o] # "absent"
  BY <1>1 DEF Known, IInv, RecordInv
<1>4. /\ pool' \in [Known -> PoolState]
      /\ \A q \in Known : Forward(pool[q], pool'[q])
      /\ r \in {"ok", "refused", "failed"}
      /\ r = "ok" => pool'[o] = "cancelled"
      /\ r = "refused" => pool'[o] \notin {"absent", "open"}
  BY <1>1, <1>3, CancelSigned DEF IInv
<1>5. \A q \in Known : pool[q] = "absent" => pool'[q] = "absent"
  BY <1>1, <1>3 DEF CancelEffect, Cancelled, IInv, TypeOK
<1>6. \A q \in Known : /\ pool[q] # "absent" => pool'[q] # "absent"
                       /\ pool[q] = "cancelled" => pool'[q] = "cancelled"
                       /\ Over(q) => Over(q)'
                       /\ Settled(q) => Settled(q)'
                       /\ pool'[q] = "open" => pool[q] = "open"
  BY <1>4, <1>5 DEF Forward, Over, Settled
<1>7. /\ tracked \subseteq Known /\ Orders \subseteq Known
      /\ \A s \in Sweeps : sweep[s].todo \subseteq Known /\ sweep[s].expired \subseteq Known
  BY DEF IInv, TypeOK, Known, Sweep
<1>8. memo' \in [Orders -> Memo] /\ memo'[o] = r /\ \A q \in Orders \ {o} : memo'[q] = memo[q]
  BY <1>1, <1>4 DEF IInv, TypeOK, Memo
<1>9. TypeOK'
  BY <1>2, <1>4, <1>8 DEF IInv, TypeOK
<1>10. RecordInv'
  BY <1>2, <1>3, <1>4, <1>6, <1>7, <1>8 DEF IInv, RecordInv, Over
<1>11. CallInv'
  BY <1>2, <1>6, <1>7 DEF IInv, CallInv
<1>12. SweepInv'
  BY <1>2, <1>6, <1>7 DEF IInv, SweepInv, Over
<1>13. CoverInv'
  BY <1>2, <1>6, <1>7 DEF IInv, CoverInv, Settled
<1> QED BY <1>9, <1>10, <1>11, <1>12, <1>13 DEF IInv

(* Only an order that is over is forgotten. *)
LEMMA CancelAnsweredStep ==
  ASSUME IInv, NEW c \in Calls, CancelAnswered(c)
  PROVE  IInv'
<1> DEFINE o == call[c].order
<1>1. /\ call[c].pc = "waiting" /\ o \in Orders
      /\ memo[o] \in {"ok", "refused", "failed"}
      /\ UNCHANGED <<pool, seen, memo, sweep>>
  BY DEF CancelAnswered, IInv, CallInv
<1>2. /\ tracked' \subseteq tracked /\ tracked \ {o} \subseteq tracked'
      /\ (o \in tracked /\ o \notin tracked' => memo[o] \in {"ok", "refused"})
  BY <1>1 DEF CancelAnswered, Forget
<1>3. dead' \subseteq Orders
  BY <1>1 DEF CancelAnswered, IInv, TypeOK
<1>4. /\ call' \in [Calls -> Call]
      /\ \A d \in Calls \ {c} : call'[d] = call[d]
      /\ call'[c].pc = "done" /\ call'[c].order = o
      /\ call'[c].answer = "CANCELLED" => memo[o] = "ok"
  BY <1>1 DEF CancelAnswered, Respond, IInv, TypeOK, Call, Answer
<1>5. TypeOK'
  BY <1>1, <1>2, <1>3, <1>4 DEF IInv, TypeOK
<1>6. RecordInv'
  BY <1>1, <1>2 DEF IInv, RecordInv, Over
<1>7. CallInv'
  <2>1. call'[c].answer = "CANCELLED" => call'[c].order \in Orders /\ pool'[call'[c].order] = "cancelled"
    BY <1>1, <1>4 DEF IInv, RecordInv
  <2>2. \A d \in Calls \ {c} : /\ call'[d].pc = "waiting" => call'[d].order \in Orders
                               /\ call'[d].answer = "CANCELLED" =>
                                     call'[d].order \in Orders /\ pool'[call'[d].order] = "cancelled"
    BY <1>1, <1>4 DEF IInv, CallInv
  <2> QED BY <1>4, <2>1, <2>2 DEF CallInv
<1>8. SweepInv' /\ CoverInv'
  BY <1>1 DEF IInv, SweepInv, CoverInv, Over, Settled
<1> QED BY <1>5, <1>6, <1>7, <1>8 DEF IInv

-----------------------------------------------------------------------------
(* A sweep that leaves the pool and the records as they are. *)
LEMMA SweepMoves ==
  ASSUME IInv, NEW s \in Sweeps, NEW w \in Sweep, sweep' = [sweep EXCEPT ![s] = w],
         UNCHANGED <<pool, seen, dead, memo, call>>,
         tracked' \subseteq tracked,
         \A o \in tracked \ tracked' : pool[o] # "open",
         \A o \in w.todo : pool[o] # "absent",
         \A o \in w.expired : Over(o),
         w.pc # "signed",
         \A o \in w.own : /\ o \in Orders /\ seen[o] = "ACCEPTED"
                          /\ o \in w.todo \cup w.expired \cup w.failed \/ Settled(o),
         w.pc = "idle" => w.own = {},
         w.pc \in {"reclaiming", "done"} => w.todo = {},
         w.pc = "done" => w.expired = {}
  PROVE  IInv'
<1>1. /\ sweep' \in [Sweeps -> Sweep] /\ sweep'[s] = w
      /\ \A t \in Sweeps \ {s} : sweep'[t] = sweep[t]
  BY DEF IInv, TypeOK
<1>2. TypeOK'
  BY <1>1 DEF IInv, TypeOK
<1>3. RecordInv' /\ CallInv'
  BY DEF IInv, RecordInv, CallInv, Over
<1>4. SweepInv'
  BY <1>1 DEF IInv, SweepInv, Over
<1>5. CoverInv'
  BY <1>1 DEF IInv, CoverInv, Settled
<1> QED BY <1>2, <1>3, <1>4, <1>5 DEF IInv

LEMMA SweepBeginStep ==
  ASSUME IInv, NEW s \in Sweeps, SweepBegin(s)
  PROVE  IInv'
<1> DEFINE w == [sweep[s] EXCEPT !.pc = "listing", !.todo = OwnTargets, !.own = tracked]
<1>1. /\ w \in Sweep /\ w.pc = "listing" /\ w.todo = tracked /\ w.own = tracked
      /\ w.expired = sweep[s].expired /\ sweep' = [sweep EXCEPT ![s] = w]
  BY DEF SweepBegin, OwnTargets, IInv, TypeOK, Sweep, Known
<1>2. UNCHANGED <<pool, seen, tracked, dead, memo, call>>
  BY DEF SweepBegin
<1>3. /\ \A o \in tracked : o \in Orders /\ seen[o] = "ACCEPTED" /\ pool[o] # "absent"
      /\ \A o \in w.expired : Over(o)
  BY <1>1 DEF IInv, TypeOK, RecordInv, SweepInv
<1> HIDE DEF w
<1> QED BY <1>1, <1>2, <1>3, SweepMoves

LEMMA SweepListStep ==
  ASSUME IInv, NEW s \in Sweeps, SweepList(s)
  PROVE  IInv'
<1>1. PICK listed \in SUBSET {o \in Known : pool[o] # "absent"} :
        sweep' = [sweep EXCEPT ![s] = [sweep[s] EXCEPT !.pc = "cancelling", !.todo = @ \cup listed]]
  BY DEF SweepList, IInv, TypeOK
<1> DEFINE w == [sweep[s] EXCEPT !.pc = "cancelling", !.todo = @ \cup listed]
<1>2. /\ w \in Sweep /\ w.pc = "cancelling" /\ w.todo = sweep[s].todo \cup listed
      /\ w.own = sweep[s].own /\ w.expired = sweep[s].expired /\ w.failed = sweep[s].failed
      /\ sweep[s].pc = "listing"
  BY DEF SweepList, IInv, TypeOK, Sweep
<1>3. UNCHANGED <<pool, seen, tracked, dead, memo, call>>
  BY DEF SweepList
<1>4. /\ \A o \in w.todo : pool[o] # "absent"
      /\ \A o \in w.expired : Over(o)
      /\ \A o \in w.own : /\ o \in Orders /\ seen[o] = "ACCEPTED"
                          /\ o \in w.todo \cup w.expired \cup w.failed \/ Settled(o)
  BY <1>2 DEF IInv, SweepInv, CoverInv
<1>5. sweep' = [sweep EXCEPT ![s] = w]
  BY <1>1
<1> HIDE DEF w
<1> QED BY <1>2, <1>3, <1>4, <1>5, SweepMoves

LEMMA SweepSignStep ==
  ASSUME IInv, NEW s \in Sweeps, NEW o \in Known, SweepSign(s, o)
  PROVE  IInv'
<1> DEFINE Outcome(pool2, r) ==
             /\ pool' = pool2
             /\ sweep' = [sweep EXCEPT ![s] =
                            [sweep[s] EXCEPT !.pc = "signed", !.todo = @ \ {o}, !.on = o,
                                             !.result = IF r = "refused" THEN "expired" ELSE r]]
<1>0. PICK pool2 \in CancelEffect(o) : \E r \in CancelResult(o, pool2) : Outcome(pool2, r)
  BY DEF SweepSign, IInv, TypeOK
<1>1. PICK r \in CancelResult(o, pool2) : Outcome(pool2, r)
  BY <1>0
<1>2. sweep[s].pc = "cancelling" /\ o \in sweep[s].todo /\ UNCHANGED <<seen, tracked, dead, memo, call>>
  BY DEF SweepSign
<1>3. pool[o] # "absent"
  BY <1>2 DEF IInv, SweepInv
<1>4. /\ pool' \in [Known -> PoolState]
      /\ \A q \in Known : Forward(pool[q], pool'[q])
      /\ r \in {"ok", "refused", "failed"}
      /\ r = "ok" => pool'[o] = "cancelled"
      /\ r = "refused" => pool'[o] \notin {"absent", "open"}
  BY <1>1, <1>3, CancelSigned DEF IInv
<1>5. \A q \in Known : pool[q] = "absent" => pool'[q] = "absent"
  BY <1>1, <1>3 DEF CancelEffect, Cancelled, IInv, TypeOK
<1>6. \A q \in Known : /\ pool[q] # "absent" => pool'[q] # "absent"
                       /\ pool[q] = "cancelled" => pool'[q] = "cancelled"
                       /\ Over(q) => Over(q)'
                       /\ Settled(q) => Settled(q)'
                       /\ pool'[q] = "open" => pool[q] = "open"
  BY <1>4, <1>5 DEF Forward, Over, Settled
<1>7. /\ tracked \subseteq Known /\ Orders \subseteq Known
      /\ \A t \in Sweeps : sweep[t].todo \subseteq Known /\ sweep[t].expired \subseteq Known
  BY DEF IInv, TypeOK, Known, Sweep
<1>8. /\ sweep' \in [Sweeps -> Sweep]
      /\ \A t \in Sweeps \ {s} : sweep'[t] = sweep[t]
      /\ sweep'[s].pc = "signed" /\ sweep'[s].todo = sweep[s].todo \ {o} /\ sweep'[s].on = o
      /\ sweep'[s].result = (IF r = "refused" THEN "expired" ELSE r)
      /\ sweep'[s].own = sweep[s].own /\ sweep'[s].expired = sweep[s].expired
      /\ sweep'[s].failed = sweep[s].failed
  BY <1>1, <1>4 DEF IInv, TypeOK, Sweep
<1>9. TypeOK'
  BY <1>2, <1>4, <1>8 DEF IInv, TypeOK
<1>10. RecordInv'
  BY <1>2, <1>6, <1>7 DEF IInv, RecordInv, Over
<1>11. CallInv'
  BY <1>2, <1>6, <1>7 DEF IInv, CallInv
<1>12. SweepInv'
  BY <1>4, <1>6, <1>7, <1>8 DEF IInv, SweepInv, Over
<1>13. CoverInv'
  BY <1>2, <1>6, <1>7, <1>8 DEF IInv, CoverInv, Settled
<1> QED BY <1>9, <1>10, <1>11, <1>12, <1>13 DEF IInv

LEMMA SweepAnsweredStep ==
  ASSUME IInv, NEW s \in Sweeps, SweepAnswered(s)
  PROVE  IInv'
<1> DEFINE v == sweep[s]
           w == [v EXCEPT !.pc = "cancelling", !.on = "none", !.result = "none",
                          !.expired = IF v.result = "expired" THEN @ \cup {v.on} ELSE @,
                          !.failed = IF v.result = "failed" THEN @ \cup {v.on} ELSE @]
<1>1. /\ v \in Sweep /\ v.pc = "signed" /\ v.on \in Known /\ v.result \in {"ok", "expired", "failed"}
      /\ (v.result = "ok" => pool[v.on] = "cancelled") /\ (v.result = "expired" => Over(v.on))
  BY DEF SweepAnswered, IInv, SweepInv, TypeOK
<1>2. sweep' = [sweep EXCEPT ![s] = w] /\ UNCHANGED <<pool, seen, dead, memo, call>>
  BY DEF SweepAnswered, IInv, TypeOK
<1>3. tracked' \subseteq tracked /\ \A o \in tracked \ tracked' : pool[o] # "open"
  BY <1>1 DEF SweepAnswered, Forget
<1>4. /\ w \in Sweep /\ w.pc = "cancelling" /\ w.todo = v.todo /\ w.own = v.own
      /\ w.expired = (IF v.result = "expired" THEN v.expired \cup {v.on} ELSE v.expired)
      /\ w.failed = (IF v.result = "failed" THEN v.failed \cup {v.on} ELSE v.failed)
  BY <1>1 DEF Sweep
<1>5. /\ \A o \in w.todo : pool[o] # "absent"
      /\ \A o \in w.expired : Over(o)
  BY <1>1, <1>4 DEF IInv, SweepInv
<1>6. \A o \in w.own : /\ o \in Orders /\ seen[o] = "ACCEPTED"
                       /\ o \in w.todo \cup w.expired \cup w.failed \/ Settled(o)
  BY <1>1, <1>4 DEF IInv, CoverInv, Settled
<1> HIDE DEF w
<1> QED BY <1>2, <1>3, <1>4, <1>5, <1>6, SweepMoves

LEMMA SweepOnStep ==
  ASSUME IInv, NEW s \in Sweeps, SweepToReclaim(s) \/ SweepEnd(s)
  PROVE  IInv'
<1> DEFINE v == sweep[s]
<1>1. PICK pc \in {"reclaiming", "done"} : sweep' = [sweep EXCEPT ![s] = [v EXCEPT !.pc = pc]]
  BY DEF SweepToReclaim, SweepEnd, IInv, TypeOK
<1> DEFINE w == [v EXCEPT !.pc = pc]
<1>2. v \in Sweep /\ v.pc \in {"cancelling", "reclaiming"} /\ UNCHANGED <<pool, seen, tracked, dead, memo, call>>
  BY DEF SweepToReclaim, SweepEnd, IInv, TypeOK
<1>3. /\ w \in Sweep /\ w.pc = pc /\ w.todo = v.todo /\ w.own = v.own
      /\ w.expired = v.expired /\ w.failed = v.failed
  BY <1>2 DEF Sweep
<1>4. v.todo = {}
  BY DEF SweepToReclaim, SweepEnd, IInv, CoverInv
<1>5. pc = "done" => v.expired = {}
  <2>1. sweep'[s] = w
    BY <1>1 DEF IInv, TypeOK
  <2>2. CASE SweepToReclaim(s)
    <3>1. sweep'[s].pc = "reclaiming"
      BY <1>2, <2>2 DEF SweepToReclaim, IInv, TypeOK, Sweep
    <3> QED BY <1>3, <2>1, <3>1
  <2> QED BY <2>2 DEF SweepEnd
<1>6. /\ \A o \in w.expired : Over(o)
      /\ \A o \in w.own : /\ o \in Orders /\ seen[o] = "ACCEPTED"
                          /\ o \in w.todo \cup w.expired \cup w.failed \/ Settled(o)
  BY <1>2, <1>3 DEF IInv, SweepInv, CoverInv
<1>7. sweep' = [sweep EXCEPT ![s] = w]
  BY <1>1
<1> HIDE DEF w
<1> QED BY <1>2, <1>3, <1>4, <1>5, <1>6, <1>7, SweepMoves

(* A reclaim that fails only moves its orders among the failures. *)
LEMMA ReclaimFails ==
  ASSUME IInv, NEW s \in Sweeps, NEW items \in SUBSET sweep[s].expired,
         sweep[s].pc = "reclaiming",
         sweep' = [sweep EXCEPT ![s] = [sweep[s] EXCEPT !.expired = @ \ items, !.failed = @ \cup items]],
         UNCHANGED <<pool, seen, tracked, dead, memo, call>>
  PROVE  IInv'
<1> DEFINE v == sweep[s]
           w == [v EXCEPT !.expired = @ \ items, !.failed = @ \cup items]
<1>1. v \in Sweep
  BY DEF IInv, TypeOK
<1>2. /\ w \in Sweep /\ w.pc = "reclaiming" /\ w.todo = v.todo /\ w.own = v.own
      /\ w.expired = v.expired \ items /\ w.failed = v.failed \cup items
  BY <1>1 DEF Sweep
<1>3. /\ \A o \in w.todo : pool[o] # "absent"
      /\ \A o \in w.expired : Over(o)
      /\ w.todo = {}
      /\ \A o \in w.own : /\ o \in Orders /\ seen[o] = "ACCEPTED"
                          /\ o \in w.todo \cup w.expired \cup w.failed \/ Settled(o)
  BY <1>2 DEF IInv, SweepInv, CoverInv
<1>4. sweep' = [sweep EXCEPT ![s] = w]
  OBVIOUS
<1> HIDE DEF w
<1> QED BY <1>2, <1>3, <1>4, SweepMoves

(* One that lands leaves nothing of them in escrow. *)
LEMMA ReclaimLands ==
  ASSUME IInv, NEW s \in Sweeps, NEW items \in SUBSET sweep[s].expired,
         sweep[s].pc = "reclaiming",
         pool' = [o \in Known |-> IF o \in items /\ pool[o] = "expired" THEN "reclaimed" ELSE pool[o]],
         tracked' = tracked \ items,
         sweep' = [sweep EXCEPT ![s] = [sweep[s] EXCEPT !.expired = @ \ items]],
         UNCHANGED <<seen, dead, memo, call>>
  PROVE  IInv'
<1>1. sweep[s].expired \subseteq Known /\ tracked \subseteq Orders /\ Orders \subseteq Known
  BY DEF IInv, TypeOK, Sweep, Known
<1>2. /\ pool' \in [Known -> PoolState]
      /\ \A q \in Known : /\ pool[q] # "absent" => pool'[q] # "absent"
                          /\ pool[q] = "cancelled" => pool'[q] = "cancelled"
                          /\ Over(q) => Over(q)'
                          /\ Settled(q) => Settled(q)'
                          /\ pool'[q] = "open" <=> pool[q] = "open"
  BY DEF IInv, TypeOK, PoolState, Over, Settled
<1>3. \A q \in items : pool[q] # "open" /\ pool'[q] # "open" /\ Settled(q)'
  <2>1. \A q \in items : q \in Known /\ pool[q] \notin {"absent", "open"} /\ pool[q] \in PoolState
    BY <1>1 DEF IInv, SweepInv, Over, TypeOK
  <2> QED BY <2>1 DEF PoolState, Settled
<1>4. /\ sweep' \in [Sweeps -> Sweep]
      /\ \A t \in Sweeps \ {s} : sweep'[t] = sweep[t]
      /\ sweep'[s].pc = "reclaiming" /\ sweep'[s].todo = sweep[s].todo
      /\ sweep'[s].expired = sweep[s].expired \ items
      /\ sweep'[s].own = sweep[s].own /\ sweep'[s].failed = sweep[s].failed
  BY DEF IInv, TypeOK, Sweep
<1>5. \A t \in Sweeps : sweep[t].todo \subseteq Known /\ sweep[t].expired \subseteq Known
  BY DEF IInv, TypeOK, Sweep
<1>6. TypeOK'
  BY <1>1, <1>2, <1>4 DEF IInv, TypeOK
<1>7. RecordInv'
  BY <1>1, <1>2, <1>3 DEF IInv, RecordInv, Over
<1>8. CallInv'
  BY <1>1, <1>2 DEF IInv, CallInv
<1>9. SweepInv'
  BY <1>2, <1>4, <1>5 DEF IInv, SweepInv, Over
<1>10. CoverInv'
  BY <1>1, <1>2, <1>3, <1>4 DEF IInv, CoverInv, Settled
<1> QED BY <1>6, <1>7, <1>8, <1>9, <1>10 DEF IInv

LEMMA ReclaimStep ==
  ASSUME IInv, NEW s \in Sweeps, NEW m, Reclaim(s, m)
  PROVE  IInv'
<1> DEFINE items == InMarket(sweep[s].expired, m)
<1>1. items \in SUBSET sweep[s].expired
  BY DEF InMarket
<1>2. sweep[s].pc = "reclaiming" /\ UNCHANGED <<seen, dead, memo, call>>
  BY DEF Reclaim
<1>3. CASE UNCHANGED <<pool, tracked>>
          /\ sweep' = [sweep EXCEPT ![s] = [sweep[s] EXCEPT !.expired = @ \ items, !.failed = @ \cup items]]
  BY <1>1, <1>2, <1>3, ReclaimFails
<1>4. CASE /\ pool' = [o \in Known |-> IF o \in items /\ pool[o] = "expired" THEN "reclaimed" ELSE pool[o]]
           /\ tracked' = tracked \ items
           /\ sweep' = [sweep EXCEPT ![s] = [sweep[s] EXCEPT !.expired = @ \ items]]
  BY <1>1, <1>2, <1>4, ReclaimLands
<1> QED BY <1>3, <1>4 DEF Reclaim, Forget, IInv, TypeOK

LEMMA StepIInv == IInv /\ [Next]_vars => IInv'
<1> SUFFICES ASSUME IInv, [Next]_vars PROVE IInv'
  OBVIOUS
<1>1. CASE \E o \in Orders : \/ Place(o) \/ Placed(o) \/ Land(o) \/ LandLate(o)
                            \/ StartCancel(o) \/ RunCancel(o)
  BY <1>1, PlaceStep, LandStep, StartCancelStep, RunCancelStep DEF Known
<1>2. CASE \E o \in Known : Fill(o) \/ Expire(o)
  BY <1>2, LandStep
<1>3. CASE \E c \in Calls, o \in Orders :
             CancelUntracked(c, o) \/ CancelTracked(c, o) \/ CancelReentrant(c, o)
  BY <1>3, CancelStep
<1>4. CASE \E c \in Calls : CancelAnswered(c)
  BY <1>4, CancelAnsweredStep
<1>5. CASE \E s \in Sweeps : SweepBegin(s) \/ SweepList(s) \/ SweepAnswered(s)
                               \/ SweepToReclaim(s) \/ SweepEnd(s)
  BY <1>5, SweepBeginStep, SweepListStep, SweepAnsweredStep, SweepOnStep
<1>6. CASE \E s \in Sweeps, o \in Known : SweepSign(s, o)
  BY <1>6, SweepSignStep
<1>7. CASE \E s \in Sweeps : \E m \in {MarketOf[o] : o \in Known} : Reclaim(s, m)
  BY <1>7, ReclaimStep
<1>8. CASE UNCHANGED vars
  BY <1>8 DEF vars, IInv, TypeOK, RecordInv, CallInv, SweepInv, CoverInv, Over, Settled
<1> QED BY <1>1, <1>2, <1>3, <1>4, <1>5, <1>6, <1>7, <1>8 DEF Next

-----------------------------------------------------------------------------
(* The records, calls and sweeps agree with the pool. *)
THEOREM Inductive == Spec => []IInv
BY InitIInv, StepIInv, PTL DEF Spec

(* No order that was acknowledged with its id and can still be matched is     *)
(* forgotten (dreamdex.ts cancel, cancelAll, reclaimExpired); one that was    *)
(* acknowledged without an id is outside it, as the code never records it.   *)
THEOREM OpenIsTracked == Spec => []OpenStaysTracked
<1>1. IInv => OpenStaysTracked
  BY DEF IInv, RecordInv, OpenStaysTracked
<1> QED BY <1>1, Inductive, PTL

(* An order whose cancel was answered CANCELLED is cancelled for good. *)
THEOREM CancelledAnswersAreTrue == Spec => []CancelledIsTrue
<1>1. IInv => CancelledIsTrue
  BY DEF IInv, CallInv, CancelledIsTrue
<1> QED BY <1>1, Inductive, PTL

(* What a sweep leaves open or in escrow is what its own writes failed for,   *)
(* and an open one is still tracked.                                        *)
THEOREM SweepsLeaveNothing == Spec => []SweepLeavesNothing
<1>1. IInv => SweepLeavesNothing
  BY DEF IInv, TypeOK, RecordInv, CoverInv, Settled, SweepLeavesNothing
<1> QED BY <1>1, Inductive, PTL

-----------------------------------------------------------------------------
(* Echo: where the cycle under way stands, and what it may have in hand.     *)
Pcs == {"idle", "markets", "cancel", "book", "side", "mint", "check", "placing"}
AtMarket == cycle.pc \in {"cancel", "book", "side", "mint", "check", "placing"}
Placing == cycle.pc \in {"book", "side", "mint", "check", "placing"}
Sweeping == stage \in {"venue.list", "venue.cancel", "exited"}

QuoteType == [id : Nat, market : Markets, side : {"YES", "NO"}, round : Nat]
CycleType == [pc : Pcs, round : Nat, markets : Seq(Markets), ids : Seq(Nat),
              sides : Seq({"YES", "NO"})]

EchoTypeOK ==
  /\ quotes \subseteq QuoteType /\ limbo \subseteq QuoteType
  /\ openIds \in [Markets -> Seq(Nat)]
  /\ cycle \in CycleType
  /\ AtMarket => cycle.markets # <<>>
  /\ \A i, j \in DOMAIN cycle.markets : cycle.markets[i] = cycle.markets[j] => i = j
  /\ cycle.pc \in {"side", "mint", "check", "placing"} => cycle.sides # <<>>
  /\ submitted \in Nat /\ late \in Nat
  /\ stage \in {"up", "echo.list", "echo.cancel", "venue.list", "venue.cancel", "exited"}
  /\ todo \subseteq QuoteType
  /\ lost \subseteq Nat

(* No quote belongs to a cycle still to come, and once the shutdown has      *)
(* begun the only cycle that can be under way is the one it found.           *)
RoundsInOrder ==
  /\ \A q \in quotes \cup limbo : q.round <= cycle.round
  /\ stage # "up" /\ InCycle => late = cycle.round

(* What became of a quote that is not among these ids any more. *)
Excused(q) == q.id \in lost \/ (Sweeping /\ q.round = late)

(* Every quote that rests will be cancelled by the next cycle, by this one, or *)
(* by the sweep, unless it is excused.                                       *)
QuotesCovered ==
  /\ \A q \in quotes : Excused(q) \/ (~Sweeping /\ q.id \in Range(openIds[q.market]))
  /\ cycle.pc = "cancel" =>
       \A q \in quotes : q.market = Market => Excused(q) \/ q.id \in Range(cycle.ids)
  /\ Placing => \A q \in quotes : q.market = Market => q.id \in lost \/ q.round = cycle.round
  /\ stage = "echo.cancel" =>
       \A q \in quotes : q.id \in lost \/ q \in todo \/ q.round = late

(* A quote given up may land, but no later than any quote of a later cycle    *)
(* that is placed over it.                                                  *)
LimboInv ==
  /\ \A q \in limbo : q.id \in lost \/ (~Alive /\ q.round = late /\ q.round = cycle.round)
  /\ \A q \in quotes, r \in quotes \cup limbo :
       q.market = r.market /\ q.round < r.round => q.id \in lost

EchoIInv == EchoTypeOK /\ RoundsInOrder /\ QuotesCovered /\ LimboInv

LEMMA EchoInitIInv == EchoInit => EchoIInv
BY DEF EchoInit, EchoIInv, EchoTypeOK, RoundsInOrder, QuotesCovered, LimboInv, Idle, CycleType, Pcs, AtMarket,
       Placing, InCycle, Excused, Alive

-----------------------------------------------------------------------------
(* What the cycle goes on to.                                               *)
LEMMA MarketType ==
  ASSUME EchoIInv, AtMarket
  PROVE  /\ cycle.markets \in Seq(Markets) /\ cycle.markets # <<>> /\ Market \in Markets
         /\ Tail(cycle.markets) \in Seq(Markets)
         /\ \A i, j \in DOMAIN Tail(cycle.markets) :
              Tail(cycle.markets)[i] = Tail(cycle.markets)[j] => i = j
         /\ Tail(cycle.markets) # <<>> => Head(Tail(cycle.markets)) # Market
<1>1. /\ cycle.markets \in Seq(Markets) /\ cycle.markets # <<>>
      /\ \A i, j \in DOMAIN cycle.markets : cycle.markets[i] = cycle.markets[j] => i = j
  BY DEF EchoIInv, EchoTypeOK, CycleType
<1> DEFINE ms == cycle.markets
<1> HIDE DEF ms
<1>2. /\ ms \in Seq(Markets) /\ ms # <<>> /\ Market = ms[1]
      /\ \A i, j \in 1 .. Len(ms) : ms[i] = ms[j] => i = j
  BY <1>1 DEF ms, Market
<1>3. /\ Len(ms) \in Nat /\ Len(ms) >= 1 /\ 1 \in 1 .. Len(ms)
      /\ Tail(ms) \in Seq(Markets) /\ Len(Tail(ms)) = Len(ms) - 1
      /\ DOMAIN Tail(ms) = 1 .. Len(ms) - 1
      /\ \A i \in 1 .. Len(ms) - 1 : Tail(ms)[i] = ms[i + 1] /\ i + 1 \in 1 .. Len(ms)
  BY <1>2
<1>4. \A i, j \in DOMAIN Tail(ms) : Tail(ms)[i] = Tail(ms)[j] => i = j
  <2> SUFFICES ASSUME NEW i \in DOMAIN Tail(ms), NEW j \in DOMAIN Tail(ms), Tail(ms)[i] = Tail(ms)[j]
               PROVE  i = j
    OBVIOUS
  <2>1. i + 1 = j + 1
    BY <1>2, <1>3
  <2> QED BY <1>3, <2>1
<1>5. Tail(ms) # <<>> => Head(Tail(ms)) # ms[1]
  <2> SUFFICES ASSUME Tail(ms) # <<>>, Head(Tail(ms)) = ms[1] PROVE FALSE
    OBVIOUS
  <2>1. Len(Tail(ms)) >= 1 /\ Head(Tail(ms)) = Tail(ms)[1]
    BY <1>3
  <2>2. ms[2] = ms[1] /\ 2 \in 1 .. Len(ms)
    BY <1>3, <2>1
  <2> QED BY <1>2, <1>3, <2>2
<1>6. Market \in Markets
  BY <1>2, <1>3
<1> QED BY <1>1, <1>2, <1>3, <1>4, <1>5, <1>6 DEF ms

(* What the cycle may go on to without a change of anything else. *)
Distinct(ms) == \A i, j \in DOMAIN ms : ms[i] = ms[j] => i = j

Onward(c) ==
  /\ c \in CycleType /\ c.round = cycle.round /\ Distinct(c.markets)
  /\ \/ c.pc \in {"idle", "markets"}
     \/ c.pc = "cancel" /\ c.markets # <<>> /\ c.ids = openIds[Head(c.markets)]
     \/ /\ Placing /\ c.pc \in {"book", "side", "mint", "check", "placing"}
        /\ c.markets = cycle.markets /\ (c.pc # "book" => c.sides # <<>>)

LEMMA NextMarketOnward ==
  ASSUME EchoIInv, InCycle, NEW ms \in Seq(Markets), Distinct(ms)
  PROVE  /\ Onward(NextMarket(ms))
         /\ NextMarket(ms).pc \in {"idle", "cancel"}
         /\ NextMarket(ms).pc = "cancel" => NextMarket(ms).markets = ms
<1>1. cycle \in CycleType /\ openIds \in [Markets -> Seq(Nat)]
  BY DEF EchoIInv, EchoTypeOK
<1>2. CASE ms = <<>>
  BY <1>1, <1>2 DEF NextMarket, Onward, Idle, CycleType, Pcs, Distinct
<1>3. CASE ms # <<>>
  <2>1. Head(ms) \in Markets
    BY <1>3
  <2>2. NextMarket(ms) = [cycle EXCEPT !.pc = "cancel", !.markets = ms,
                                       !.ids = openIds[Head(ms)], !.sides = <<>>]
    BY <1>3 DEF NextMarket
  <2>3. openIds[Head(ms)] \in Seq(Nat)
    BY <1>1, <2>1
  <2>4. /\ NextMarket(ms) \in CycleType /\ NextMarket(ms).pc = "cancel"
        /\ NextMarket(ms).round = cycle.round /\ NextMarket(ms).markets = ms
        /\ NextMarket(ms).ids = openIds[Head(ms)]
    <3>1. /\ cycle.round \in Nat
          /\ cycle = [pc |-> cycle.pc, round |-> cycle.round, markets |-> cycle.markets,
                      ids |-> cycle.ids, sides |-> cycle.sides]
      BY <1>1 DEF CycleType
    <3>2. NextMarket(ms) = [pc |-> "cancel", round |-> cycle.round, markets |-> ms,
                            ids |-> openIds[Head(ms)], sides |-> <<>>]
      BY <2>2, <3>1
    <3>3. "cancel" \in Pcs
      BY DEF Pcs
    <3>4. <<>> \in Seq({"YES", "NO"})
      OBVIOUS
    <3> QED BY <2>3, <3>1, <3>2, <3>3, <3>4 DEF CycleType
  <2> QED BY <1>3, <2>4 DEF Onward
<1> QED BY <1>2, <1>3

LEMMA NextSideOnward ==
  ASSUME EchoIInv, Placing, NEW sides \in Seq({"YES", "NO"})
  PROVE  /\ Onward(NextSide(sides))
         /\ NextSide(sides).pc \in {"idle", "cancel", "side"}
         /\ NextSide(sides).pc = "cancel" => NextSide(sides).markets = Tail(cycle.markets)
<1>1. /\ cycle \in CycleType /\ AtMarket /\ InCycle
  BY DEF EchoIInv, EchoTypeOK, Placing, AtMarket, InCycle
<1>2. /\ Tail(cycle.markets) \in Seq(Markets) /\ Distinct(Tail(cycle.markets))
      /\ Distinct(cycle.markets)
  BY <1>1, MarketType DEF Distinct, EchoIInv, EchoTypeOK
<1>3. CASE sides = <<>>
  <2> DEFINE t == Tail(cycle.markets)
  <2> HIDE DEF t
  <2>1. t \in Seq(Markets) /\ Distinct(t)
    BY <1>2 DEF t
  <2>2. /\ Onward(NextMarket(t)) /\ NextMarket(t).pc \in {"idle", "cancel"}
        /\ NextMarket(t).pc = "cancel" => NextMarket(t).markets = t
    BY <1>1, <2>1, NextMarketOnward
  <2>3. NextSide(sides) = NextMarket(t)
    BY <1>3 DEF NextSide, t
  <2> QED BY <2>2, <2>3 DEF t
<1>4. CASE sides # <<>>
  BY <1>1, <1>2, <1>4 DEF NextSide, Onward, CycleType, Pcs
<1> QED BY <1>3, <1>4

(* A step of the cycle that touches nothing else the invariant speaks of. *)
LEMMA OnwardStep ==
  ASSUME EchoIInv, InCycle, Onward(cycle'), submitted' \in Nat,
         UNCHANGED <<quotes, limbo, openIds, stage, todo, late, lost>>
  PROVE  EchoIInv'
<1>1. cycle' \in CycleType /\ cycle'.round = cycle.round /\ cycle.round \in Nat
  BY DEF Onward, EchoIInv, EchoTypeOK, CycleType
<1>2. EchoTypeOK'
  BY <1>1 DEF Onward, EchoIInv, EchoTypeOK, AtMarket, Placing, Distinct
<1>3. RoundsInOrder'
  BY <1>1 DEF EchoIInv, RoundsInOrder, InCycle
<1>4. QuotesCovered'
  <2>1. cycle'.pc = "cancel" =>
          \A q \in quotes' : q.market = Market' => Excused(q)' \/ q.id \in Range(cycle'.ids)
    BY DEF Onward, EchoIInv, QuotesCovered, Excused, Sweeping, Market, Placing
  <2>2. Placing' => \A q \in quotes' : q.market = Market' => q.id \in lost' \/ q.round = cycle'.round
    BY <1>1 DEF Onward, EchoIInv, QuotesCovered, Market, Placing
  <2> QED BY <2>1, <2>2 DEF EchoIInv, QuotesCovered, Excused, Sweeping
<1>5. LimboInv'
  BY <1>1 DEF EchoIInv, LimboInv, Alive
<1> QED BY <1>2, <1>3, <1>4, <1>5 DEF EchoIInv

(* Fewer quotes, or more of them lost, disturb nothing. *)
LEMMA FewerStep ==
  ASSUME EchoIInv, quotes' \subseteq quotes, lost \subseteq lost', lost' \subseteq Nat,
         UNCHANGED <<limbo, openIds, cycle, stage, todo, late, submitted>>
  PROVE  EchoIInv'
<1>1. EchoTypeOK'
  BY DEF EchoIInv, EchoTypeOK, AtMarket
<1>2. RoundsInOrder'
  BY DEF EchoIInv, RoundsInOrder, InCycle
<1>3. QuotesCovered'
  BY DEF EchoIInv, QuotesCovered, Excused, Sweeping, Market, Placing
<1>4. LimboInv'
  BY DEF EchoIInv, LimboInv, Alive
<1> QED BY <1>1, <1>2, <1>3, <1>4 DEF EchoIInv

LEMMA TickStep == ASSUME EchoIInv, Tick PROVE EchoIInv'
<1>1. /\ stage = "up" /\ cycle.pc = "idle" /\ cycle.round \in Nat
      /\ cycle' = [Idle(cycle.round + 1) EXCEPT !.pc = "markets"]
      /\ UNCHANGED <<quotes, limbo, openIds, submitted, stage, todo, late, lost>>
  BY DEF Tick, EchoIInv, EchoTypeOK, CycleType, InCycle, venueSide, shutdown
<1>2. /\ cycle' \in CycleType /\ cycle'.pc = "markets" /\ cycle'.round = cycle.round + 1
      /\ cycle'.markets = <<>>
  <2>1. cycle' = [pc |-> "markets", round |-> cycle.round + 1, markets |-> <<>>,
                  ids |-> <<>>, sides |-> <<>>]
    BY <1>1 DEF Idle
  <2>2. <<>> \in Seq(Markets) /\ <<>> \in Seq(Nat) /\ <<>> \in Seq({"YES", "NO"})
    OBVIOUS
  <2>3. "markets" \in Pcs /\ cycle.round + 1 \in Nat
    BY <1>1 DEF Pcs
  <2>4. cycle' \in CycleType
    BY <2>1, <2>2, <2>3 DEF CycleType
  <2> QED BY <2>1, <2>4
<1>3. EchoTypeOK'
  BY <1>1, <1>2 DEF EchoIInv, EchoTypeOK, AtMarket
<1>4. \A q \in quotes \cup limbo : q.round \in Nat
  BY DEF EchoIInv, EchoTypeOK, QuoteType
<1>5. RoundsInOrder'
  BY <1>1, <1>2, <1>4 DEF EchoIInv, RoundsInOrder, InCycle
<1>6. QuotesCovered'
  BY <1>1, <1>2 DEF EchoIInv, QuotesCovered, Excused, Sweeping, Market, Placing
<1>7. LimboInv'
  BY <1>1, <1>2 DEF EchoIInv, LimboInv, Alive
<1> QED BY <1>3, <1>5, <1>6, <1>7 DEF EchoIInv

-----------------------------------------------------------------------------
(* The steps of the pool. *)
LEMMA QuoteLandsLateStep == ASSUME EchoIInv, NEW q \in limbo, QuoteLandsLate(q) PROVE EchoIInv'
<1>1. /\ quotes' = quotes \cup {q} /\ limbo' = limbo \ {q}
      /\ UNCHANGED <<openIds, cycle, submitted, stage, todo, late, lost>>
  BY DEF QuoteLandsLate, shutdown
<1>2. q.id \in lost \/ (~Alive /\ Sweeping /\ q.round = late /\ q.round = cycle.round)
  BY DEF EchoIInv, LimboInv, Alive, Sweeping
<1>3. EchoTypeOK'
  BY <1>1 DEF EchoIInv, EchoTypeOK, AtMarket
<1>4. RoundsInOrder'
  BY <1>1 DEF EchoIInv, RoundsInOrder, InCycle
<1>5. QuotesCovered'
  BY <1>1, <1>2 DEF EchoIInv, QuotesCovered, Excused, Sweeping, Market, Placing, Alive
<1>6. LimboInv'
  <2>1. \A r \in quotes' \cup limbo' : r.round <= cycle.round /\ r.round \in Nat
    BY <1>1 DEF EchoIInv, RoundsInOrder, EchoTypeOK, QuoteType
  <2>2. cycle.round \in Nat
    BY DEF EchoIInv, EchoTypeOK, CycleType
  <2>3. \A r \in quotes' \cup limbo' : q.market = r.market /\ q.round < r.round => q.id \in lost
    BY <1>2, <2>1, <2>2
  <2> QED BY <1>1, <2>3 DEF EchoIInv, LimboInv, Alive
<1> QED BY <1>3, <1>4, <1>5, <1>6 DEF EchoIInv

(* The steps of the cycle that cancel, place or give up. *)
LEMMA CancelOneStep == ASSUME EchoIInv, NEW landed \in BOOLEAN, CancelOne(landed) PROVE EchoIInv'
<1> DEFINE id == Head(cycle.ids)
<1>1. /\ cycle.pc = "cancel" /\ cycle.ids # <<>> /\ cycle \in CycleType
      /\ cycle.ids \in Seq(Nat) /\ cycle' = [cycle EXCEPT !.ids = Tail(@)]
      /\ UNCHANGED <<limbo, openIds, submitted, stage, todo, late>>
      /\ \/ quotes' = {q \in quotes : q.id # id} /\ lost' = lost
         \/ quotes' = quotes /\ lost' = lost \cup {id}
  BY DEF CancelOne, EchoIInv, EchoTypeOK, CycleType, shutdown
<1>2. /\ id \in Nat /\ Tail(cycle.ids) \in Seq(Nat)
      /\ \A i \in Range(cycle.ids) : i = id \/ i \in Range(Tail(cycle.ids))
  <2> DEFINE s == cycle.ids
  <2> HIDE DEF s
  <2>1. s \in Seq(Nat) /\ s # <<>>
    BY <1>1 DEF s
  <2>2. /\ Head(s) \in Nat /\ Tail(s) \in Seq(Nat)
        /\ DOMAIN Tail(s) = 1 .. Len(s) - 1 /\ Len(s) \in Nat
        /\ \A k \in 1 .. Len(s) - 1 : Tail(s)[k] = s[k + 1]
    BY <2>1
  <2>3. \A k \in DOMAIN s : k = 1 \/ (k - 1 \in 1 .. Len(s) - 1 /\ (k - 1) + 1 = k)
    BY <2>1, <2>2
  <2>4. \A k \in DOMAIN s : s[k] = Head(s) \/ \E j \in DOMAIN Tail(s) : Tail(s)[j] = s[k]
    BY <2>1, <2>2, <2>3
  <2> QED BY <2>2, <2>4 DEF Range, s
<1> HIDE DEF id
<1>3. /\ quotes' \subseteq quotes /\ lost \subseteq lost' /\ lost' \subseteq Nat
      /\ \A q \in quotes' : q.id = id => q.id \in lost'
  BY <1>1, <1>2 DEF EchoIInv, EchoTypeOK
<1>4. /\ cycle' \in CycleType /\ cycle'.pc = "cancel" /\ cycle'.round = cycle.round
      /\ cycle'.markets = cycle.markets /\ cycle'.ids = Tail(cycle.ids) /\ Market' = Market
  BY <1>1, <1>2 DEF CycleType, Market
<1>5. EchoTypeOK'
  BY <1>1, <1>3, <1>4 DEF EchoIInv, EchoTypeOK, AtMarket
<1>6. RoundsInOrder'
  BY <1>1, <1>3, <1>4 DEF EchoIInv, RoundsInOrder, InCycle
<1>7. QuotesCovered'
  <2>1. \A q \in quotes' : q.market = Market' => Excused(q)' \/ q.id \in Range(cycle'.ids)
    BY <1>1, <1>2, <1>3, <1>4 DEF EchoIInv, QuotesCovered, Excused, Sweeping
  <2> QED BY <1>1, <1>3, <1>4, <2>1 DEF EchoIInv, QuotesCovered, Excused, Sweeping, Placing
<1>8. LimboInv'
  BY <1>1, <1>3, <1>4 DEF EchoIInv, LimboInv, Alive
<1> QED BY <1>5, <1>6, <1>7, <1>8 DEF EchoIInv

LEMMA CancelDoneStep == ASSUME EchoIInv, CancelDone PROVE EchoIInv'
<1>1. /\ cycle.pc = "cancel" /\ cycle.ids = <<>> /\ cycle \in CycleType
      /\ openIds \in [Markets -> Seq(Nat)]
      /\ openIds' = [openIds EXCEPT ![Market] = <<>>]
      /\ cycle' = [cycle EXCEPT !.pc = "book"]
      /\ UNCHANGED <<quotes, limbo, submitted, stage, todo, late, lost>>
  BY DEF CancelDone, EchoIInv, EchoTypeOK, shutdown, venueSide
<1>2. Market \in Markets
  BY <1>1, MarketType DEF AtMarket
<1>3. /\ cycle' \in CycleType /\ cycle'.pc = "book" /\ cycle'.round = cycle.round
      /\ cycle'.markets = cycle.markets /\ Market' = Market
  BY <1>1 DEF CycleType, Pcs, Market
<1>4. /\ openIds' \in [Markets -> Seq(Nat)]
      /\ \A m \in Markets \ {Market} : openIds'[m] = openIds[m]
  <2>1. <<>> \in Seq(Nat)
    OBVIOUS
  <2> QED BY <1>1, <1>2, <2>1
<1>5. \A q \in quotes : q.market = Market => Excused(q)
  BY <1>1 DEF EchoIInv, QuotesCovered, Range
<1>6. EchoTypeOK'
  BY <1>1, <1>3, <1>4 DEF EchoIInv, EchoTypeOK, AtMarket
<1>7. RoundsInOrder'
  BY <1>1, <1>3 DEF EchoIInv, RoundsInOrder, InCycle
<1>8. QuotesCovered'
  <2>1. \A q \in quotes : q.market \in Markets
    BY DEF EchoIInv, EchoTypeOK, QuoteType
  <2>2. \A q \in quotes' : Excused(q)' \/ (~Sweeping' /\ q.id \in Range(openIds'[q.market]))
    BY <1>1, <1>4, <1>5, <2>1 DEF EchoIInv, QuotesCovered, Excused, Sweeping
  <2>3. \A q \in quotes' : q.market = Market' => q.id \in lost' \/ q.round = cycle'.round
    BY <1>1, <1>3, <1>5 DEF EchoIInv, RoundsInOrder, Excused, Sweeping, InCycle
  <2> QED BY <1>1, <1>3, <2>2, <2>3 DEF EchoIInv, QuotesCovered
<1>9. LimboInv'
  BY <1>1, <1>3 DEF EchoIInv, LimboInv, Alive
<1> QED BY <1>6, <1>7, <1>8, <1>9 DEF EchoIInv

LEMMA QuoteFacts ==
  ASSUME EchoIInv, cycle.pc = "placing"
  PROVE  /\ Quote \in QuoteType /\ Quote.market = Market /\ Quote.round = cycle.round
         /\ Quote.id = submitted /\ submitted \in Nat /\ Placing /\ InCycle
         /\ Market \in Markets /\ Tail(cycle.sides) \in Seq({"YES", "NO"})
<1>1. cycle.sides \in Seq({"YES", "NO"}) /\ cycle.sides # <<>> /\ cycle.round \in Nat
  BY DEF EchoIInv, EchoTypeOK, CycleType
<1>2. Side \in {"YES", "NO"} /\ Tail(cycle.sides) \in Seq({"YES", "NO"})
  BY <1>1 DEF Side
<1>3. Market \in Markets
  BY MarketType DEF AtMarket
<1>4. submitted \in Nat
  BY DEF EchoIInv, EchoTypeOK
<1> QED BY <1>1, <1>2, <1>3, <1>4 DEF Quote, QuoteType, Placing, InCycle

(* A quote of the current cycle is newer than any quote of its market that is *)
(* not excused, wherever it goes.                                           *)
LEMMA NewestQuote ==
  ASSUME EchoIInv, cycle.pc = "placing"
  PROVE  /\ \A q \in quotes \cup limbo : q.round <= Quote.round
         /\ \A q \in quotes :
              q.market = Quote.market /\ q.round < Quote.round => q.id \in lost
<1>1. \A q \in quotes \cup limbo : q.round \in Nat /\ q.round <= cycle.round
  BY DEF EchoIInv, RoundsInOrder, EchoTypeOK, QuoteType
<1>2. \A q \in quotes : q.market = Market => q.id \in lost \/ q.round = cycle.round
  BY QuoteFacts DEF EchoIInv, QuotesCovered
<1>3. cycle.round \in Nat
  BY DEF EchoIInv, EchoTypeOK, CycleType
<1> QED BY <1>1, <1>2, <1>3, QuoteFacts

LEMMA PlaceAcceptedStep == ASSUME EchoIInv, PlaceAccepted PROVE EchoIInv'
<1> DEFINE new == Quote
<1>1. /\ cycle.pc = "placing"
      /\ quotes' = quotes \cup {new}
      /\ openIds' = [openIds EXCEPT ![Market] = Append(@, new.id)]
      /\ cycle' = NextSide(Tail(cycle.sides))
      /\ lost' = lost \/ lost' = lost \cup {new.id}
      /\ UNCHANGED <<limbo, submitted, stage, todo, late>>
  BY DEF PlaceAccepted, Remembered, shutdown
<1>2. /\ new \in QuoteType /\ new.market = Market /\ new.round = cycle.round
      /\ new.id = submitted /\ submitted \in Nat /\ Placing /\ InCycle
      /\ Market \in Markets /\ Tail(cycle.sides) \in Seq({"YES", "NO"})
  BY <1>1, QuoteFacts
<1>3. /\ \A q \in quotes \cup limbo : q.round <= new.round
      /\ \A q \in quotes : q.market = new.market /\ q.round < new.round => q.id \in lost
  BY <1>1, NewestQuote
<1> HIDE DEF new
<1>4. /\ Onward(cycle') /\ cycle'.pc \in {"idle", "cancel", "side"}
      /\ cycle'.pc = "cancel" => cycle'.markets = Tail(cycle.markets)
  BY <1>1, <1>2, NextSideOnward
<1>5. /\ cycle' \in CycleType /\ cycle'.round = cycle.round /\ cycle.round \in Nat
      /\ Distinct(cycle'.markets)
  BY <1>4 DEF Onward, EchoIInv, EchoTypeOK, CycleType
<1>6. /\ openIds \in [Markets -> Seq(Nat)] /\ openIds' \in [Markets -> Seq(Nat)]
      /\ \A m \in Markets \ {Market} : openIds'[m] = openIds[m]
      /\ Range(openIds[Market]) \cup {new.id} = Range(openIds'[Market])
  <2>1. openIds \in [Markets -> Seq(Nat)]
    BY DEF EchoIInv, EchoTypeOK
  <2> DEFINE s == openIds[Market]
  <2>2. s \in Seq(Nat)
    BY <1>2, <2>1
  <2> HIDE DEF s
  <2>3. Append(s, new.id) \in Seq(Nat)
    BY <1>2, <2>2
  <2>4. openIds' = [openIds EXCEPT ![Market] = Append(s, new.id)]
    BY <1>1, <1>2, <2>1 DEF s
  <2>5. Range(Append(s, new.id)) = Range(s) \cup {new.id}
    <3>1. /\ Len(s) \in Nat /\ DOMAIN s = 1 .. Len(s)
          /\ DOMAIN Append(s, new.id) = 1 .. Len(s) + 1
          /\ \A k \in 1 .. Len(s) : Append(s, new.id)[k] = s[k]
          /\ Append(s, new.id)[Len(s) + 1] = new.id
      BY <2>2
    <3>2. \A k \in 1 .. Len(s) + 1 : k \in 1 .. Len(s) \/ k = Len(s) + 1
      BY <3>1
    <3>3. \A k \in 1 .. Len(s) : k \in 1 .. Len(s) + 1
      BY <3>1
    <3>4. Len(s) + 1 \in 1 .. Len(s) + 1
      BY <3>1
    <3>5. Range(Append(s, new.id)) \subseteq Range(s) \cup {new.id}
      BY <3>1, <3>2 DEF Range
    <3>6. Range(s) \subseteq Range(Append(s, new.id))
      BY <3>1, <3>3 DEF Range
    <3>7. new.id \in Range(Append(s, new.id))
      BY <3>1, <3>4 DEF Range
    <3> QED BY <3>5, <3>6, <3>7
  <2> QED BY <1>2, <2>1, <2>2, <2>3, <2>4, <2>5 DEF s
<1>7. EchoTypeOK'
  BY <1>1, <1>2, <1>4, <1>5, <1>6 DEF Onward, EchoIInv, EchoTypeOK, AtMarket, Distinct
<1>8. RoundsInOrder'
  BY <1>1, <1>2, <1>5 DEF EchoIInv, RoundsInOrder
<1>9. QuotesCovered'
  <2>1. \A q \in quotes : q.market \in Markets
    BY DEF EchoIInv, EchoTypeOK, QuoteType
  <2>2. \A q \in quotes' : Excused(q)' \/ (~Sweeping' /\ q.id \in Range(openIds'[q.market]))
    <3>1. ~Sweeping => new.id \in Range(openIds'[new.market])
      BY <1>2, <1>6
    <3>2. Sweeping => new.round = late
      BY <1>2 DEF EchoIInv, RoundsInOrder, Sweeping
    <3>3. \A q \in quotes : Range(openIds[q.market]) \subseteq Range(openIds'[q.market])
      BY <1>6, <2>1
    <3> QED BY <1>1, <3>1, <3>2, <3>3 DEF EchoIInv, QuotesCovered, Excused, Sweeping
  <2>3. cycle'.pc = "cancel" =>
          \A q \in quotes' : q.market = Market' => Excused(q)' \/ q.id \in Range(cycle'.ids)
    <3> SUFFICES ASSUME cycle'.pc = "cancel" PROVE
            \A q \in quotes' : q.market = Market' => Excused(q)' \/ q.id \in Range(cycle'.ids)
      OBVIOUS
    <3>1. /\ cycle'.markets # <<>> /\ cycle'.markets = Tail(cycle.markets)
          /\ cycle'.ids = openIds[Market']
      BY <1>4 DEF Onward, Market
    <3>2. Market' # Market /\ Market' \in Markets
      <4>1. AtMarket
        BY <1>2 DEF Placing, AtMarket
      <4>2. Tail(cycle.markets) # <<>> /\ Tail(cycle.markets) \in Seq(Markets)
            /\ Head(Tail(cycle.markets)) # Market
        BY <3>1, <4>1, MarketType
      <4> QED BY <3>1, <4>2 DEF Market
    <3> QED BY <2>2, <3>1, <3>2, <1>6
  <2>4. Placing' => \A q \in quotes' : q.market = Market' => q.id \in lost' \/ q.round = cycle'.round
    <3> SUFFICES ASSUME Placing' PROVE
            \A q \in quotes' : q.market = Market' => q.id \in lost' \/ q.round = cycle'.round
      OBVIOUS
    <3>1. Market' = Market
      BY <1>4 DEF Onward, Market, Placing
    <3> QED BY <1>1, <1>2, <1>5, <3>1 DEF EchoIInv, QuotesCovered
  <2>5. stage' = "echo.cancel" =>
          \A q \in quotes' : q.id \in lost' \/ q \in todo' \/ q.round = late'
    BY <1>1, <1>2 DEF EchoIInv, QuotesCovered, RoundsInOrder
  <2> QED BY <2>2, <2>3, <2>4, <2>5 DEF QuotesCovered
<1>10. LimboInv'
  <2>1. \A q \in limbo' : q.id \in lost' \/ (~Alive' /\ q.round = late' /\ q.round = cycle'.round)
    BY <1>1, <1>5 DEF EchoIInv, LimboInv, Alive
  <2>2. new.round \in Nat /\ \A q \in quotes \cup limbo : q.round \in Nat
    BY <1>2, <1>5 DEF EchoIInv, EchoTypeOK, QuoteType
  <2>3. \A r \in quotes' \cup limbo' : ~(new.round < r.round)
    BY <1>1, <1>3, <2>2
  <2> QED BY <1>1, <1>3, <2>1, <2>3 DEF EchoIInv, LimboInv
<1> QED BY <1>7, <1>8, <1>9, <1>10 DEF EchoIInv

LEMMA PlaceGivenUpStep == ASSUME EchoIInv, PlaceGivenUp PROVE EchoIInv'
<1> DEFINE new == Quote
<1>1. /\ cycle.pc = "placing"
      /\ limbo' = limbo \cup {new} /\ lost' = lost \cup {new.id}
      /\ cycle' = NextSide(Tail(cycle.sides))
      /\ UNCHANGED <<quotes, openIds, submitted, stage, todo, late>>
  BY DEF PlaceGivenUp, shutdown
<1>2. /\ new \in QuoteType /\ new.market = Market /\ new.round = cycle.round
      /\ new.id = submitted /\ submitted \in Nat /\ Placing /\ InCycle
      /\ Tail(cycle.sides) \in Seq({"YES", "NO"})
  BY <1>1, QuoteFacts
<1>3. \A q \in quotes : q.market = new.market /\ q.round < new.round => q.id \in lost
  BY <1>1, NewestQuote
<1> HIDE DEF new
<1>4. Onward(cycle')
  BY <1>1, <1>2, NextSideOnward
<1>5. /\ cycle' \in CycleType /\ cycle'.round = cycle.round /\ cycle.round \in Nat
      /\ Distinct(cycle'.markets)
  BY <1>4 DEF Onward, EchoIInv, EchoTypeOK, CycleType
<1>6. EchoTypeOK'
  BY <1>1, <1>2, <1>4, <1>5 DEF Onward, EchoIInv, EchoTypeOK, AtMarket, Distinct, Placing
<1>7. RoundsInOrder'
  BY <1>1, <1>2, <1>5 DEF EchoIInv, RoundsInOrder
<1>8. QuotesCovered'
  <2>1. cycle'.pc = "cancel" =>
          \A q \in quotes' : q.market = Market' => Excused(q)' \/ q.id \in Range(cycle'.ids)
    BY <1>1, <1>4 DEF Onward, EchoIInv, QuotesCovered, Excused, Sweeping, Market, Placing
  <2>2. Placing' => \A q \in quotes' : q.market = Market' => q.id \in lost' \/ q.round = cycle'.round
    BY <1>1, <1>4, <1>5 DEF Onward, EchoIInv, QuotesCovered, Market, Placing
  <2> QED BY <1>1, <2>1, <2>2 DEF EchoIInv, QuotesCovered, Excused, Sweeping
<1>9. LimboInv'
  BY <1>1, <1>3, <1>5 DEF EchoIInv, LimboInv, Alive
<1> QED BY <1>6, <1>7, <1>8, <1>9 DEF EchoIInv

-----------------------------------------------------------------------------
(* The shutdown. *)
LEMMA SignalStep == ASSUME EchoIInv, Signal PROVE EchoIInv'
<1>1. /\ stage = "up" /\ stage' = "echo.list"
      /\ late' = IF InCycle THEN cycle.round ELSE 0
      /\ UNCHANGED <<quotes, limbo, openIds, cycle, submitted, todo, lost>>
  BY DEF Signal, venueSide
<1>2. EchoTypeOK'
  BY <1>1 DEF EchoIInv, EchoTypeOK, AtMarket, CycleType
<1>3. RoundsInOrder'
  BY <1>1 DEF EchoIInv, RoundsInOrder, InCycle
<1>4. QuotesCovered'
  BY <1>1 DEF EchoIInv, QuotesCovered, Excused, Sweeping, Market, Placing
<1>5. LimboInv'
  BY <1>1 DEF EchoIInv, LimboInv, Alive
<1> QED BY <1>2, <1>3, <1>4, <1>5 DEF EchoIInv

LEMMA ShutdownListStep == ASSUME EchoIInv, NEW listed \in SUBSET quotes, ShutdownList(listed) PROVE EchoIInv'
<1>1. /\ \/ stage = "echo.list" /\ stage' = "echo.cancel"
         \/ stage = "venue.list" /\ stage' = "venue.cancel"
      /\ todo' = {q \in quotes : q.id \notin lost \/ q \in listed}
      /\ UNCHANGED <<quotes, limbo, openIds, cycle, submitted, late, lost>>
  BY DEF ShutdownList, venueSide
<1>2. EchoTypeOK'
  BY <1>1 DEF EchoIInv, EchoTypeOK, AtMarket
<1>3. RoundsInOrder'
  BY <1>1 DEF EchoIInv, RoundsInOrder, InCycle
<1>4. QuotesCovered'
  BY <1>1 DEF EchoIInv, QuotesCovered, Excused, Sweeping, Market, Placing
<1>5. LimboInv'
  BY <1>1 DEF EchoIInv, LimboInv, Alive
<1> QED BY <1>2, <1>3, <1>4, <1>5 DEF EchoIInv

LEMMA ShutdownCancelStep ==
  ASSUME EchoIInv, NEW q \in todo, NEW landed \in BOOLEAN, ShutdownCancel(q, landed) PROVE EchoIInv'
<1>1. /\ todo' = todo \ {q}
      /\ \/ quotes' = quotes \ {q} /\ lost' = lost
         \/ quotes' = quotes /\ lost' = lost \cup {q.id}
      /\ UNCHANGED <<limbo, openIds, cycle, submitted, stage, late>>
  BY DEF ShutdownCancel
<1>2. q \in QuoteType /\ q.id \in Nat
  BY DEF EchoIInv, EchoTypeOK, QuoteType
<1>3. EchoTypeOK'
  BY <1>1, <1>2 DEF EchoIInv, EchoTypeOK, AtMarket
<1>4. RoundsInOrder'
  BY <1>1 DEF EchoIInv, RoundsInOrder, InCycle
<1>5. QuotesCovered'
  BY <1>1 DEF EchoIInv, QuotesCovered, Excused, Sweeping, Market, Placing
<1>6. LimboInv'
  BY <1>1 DEF EchoIInv, LimboInv, Alive
<1> QED BY <1>3, <1>4, <1>5, <1>6 DEF EchoIInv

LEMMA EchoSweptStep == ASSUME EchoIInv, EchoSwept PROVE EchoIInv'
<1>1. /\ stage = "echo.cancel" /\ todo = {} /\ stage' = "venue.list"
      /\ openIds' = [m \in Markets |-> <<>>]
      /\ UNCHANGED <<quotes, limbo, cycle, submitted, todo, late, lost>>
  BY DEF EchoSwept, venueSide
<1>2. EchoTypeOK'
  <2>1. <<>> \in Seq(Nat)
    OBVIOUS
  <2>2. openIds' \in [Markets -> Seq(Nat)]
    BY <1>1, <2>1
  <2> QED BY <1>1, <2>2 DEF EchoIInv, EchoTypeOK, AtMarket
<1>3. RoundsInOrder'
  BY <1>1 DEF EchoIInv, RoundsInOrder, InCycle
<1>4. QuotesCovered'
  BY <1>1 DEF EchoIInv, QuotesCovered, Excused, Sweeping, Market, Placing
<1>5. LimboInv'
  BY <1>1 DEF EchoIInv, LimboInv, Alive
<1> QED BY <1>2, <1>3, <1>4, <1>5 DEF EchoIInv

LEMMA ExitStep == ASSUME EchoIInv, Exit PROVE EchoIInv'
<1>1. /\ stage = "venue.cancel" /\ stage' = "exited"
      /\ limbo' = IF cycle.pc = "placing" THEN limbo \cup {Quote} ELSE limbo
      /\ UNCHANGED <<quotes, openIds, cycle, submitted, todo, late, lost>>
  BY DEF Exit
<1>2. EchoTypeOK'
  BY <1>1, QuoteFacts DEF EchoIInv, EchoTypeOK, AtMarket
<1>3. RoundsInOrder'
  <2>1. cycle.round \in Nat
    BY DEF EchoIInv, EchoTypeOK, CycleType
  <2> QED BY <1>1, <2>1, QuoteFacts DEF EchoIInv, RoundsInOrder, InCycle
<1>4. QuotesCovered'
  BY <1>1 DEF EchoIInv, QuotesCovered, Excused, Sweeping, Market, Placing
<1>5. LimboInv'
  <2>1. CASE cycle.pc = "placing"
    <3>1. Quote.round = late /\ Quote.round = cycle.round
      BY <1>1, <2>1, QuoteFacts DEF EchoIInv, RoundsInOrder
    <3>2. \A q \in quotes : q.market = Quote.market /\ q.round < Quote.round => q.id \in lost
      BY <2>1, NewestQuote
    <3>3. \A q \in limbo' : q.id \in lost' \/ (~Alive' /\ q.round = late' /\ q.round = cycle'.round)
      BY <1>1, <2>1, <3>1 DEF EchoIInv, LimboInv, Alive
    <3> QED BY <1>1, <2>1, <3>2, <3>3 DEF EchoIInv, LimboInv
  <2>2. CASE cycle.pc # "placing"
    BY <1>1, <2>2 DEF EchoIInv, LimboInv, Alive
  <2> QED BY <2>1, <2>2
<1> QED BY <1>2, <1>3, <1>4, <1>5 DEF EchoIInv

-----------------------------------------------------------------------------
LEMMA CycleStep == ASSUME EchoIInv, Step PROVE EchoIInv'
<1> SUFFICES ASSUME \/ \E ms \in Orderings : MarketsAnswer(ms)
                    \/ CycleFailed \/ BookRead \/ SidePriced \/ SideSkipped
                    \/ \E ok \in BOOLEAN : MintAnswer(ok)
                    \/ Submit
             PROVE  EchoIInv'
  BY CancelOneStep, CancelDoneStep, PlaceAcceptedStep, PlaceGivenUpStep DEF Step
<1>0. /\ cycle \in CycleType /\ cycle.round \in Nat /\ submitted \in Nat
      /\ Distinct(cycle.markets) /\ cycle.sides \in Seq({"YES", "NO"})
      /\ (cycle.pc \in {"side", "mint", "check", "placing"} => cycle.sides # <<>>)
  BY DEF EchoIInv, EchoTypeOK, CycleType, Distinct
<1>1. ASSUME NEW ms \in Orderings, MarketsAnswer(ms) PROVE EchoIInv'
  <2>1. ms \in Seq(Markets) /\ Distinct(ms)
    <3>1. PICK n \in 0 .. Cardinality(Markets) : ms \in [1 .. n -> Markets]
      BY DEF Orderings
    <3>2. n \in Nat
      OBVIOUS
    <3>3. ms \in Seq(Markets)
      BY <3>1, <3>2
    <3> QED BY <3>3 DEF Orderings, Distinct
  <2>2. Onward(cycle')
    BY <1>1, <2>1, NextMarketOnward DEF MarketsAnswer, InCycle
  <2> QED BY <1>0, <1>1, <2>2, OnwardStep DEF MarketsAnswer, InCycle, venueSide, shutdown
<1>2. CASE CycleFailed
  <2>1. <<>> \in Seq(Markets) /\ Distinct(<<>>)
    BY DEF Distinct
  <2>2. cycle' = NextMarket(<<>>)
    BY <1>2 DEF CycleFailed, NextMarket
  <2>3. Onward(cycle')
    BY <1>2, <2>1, <2>2, NextMarketOnward DEF CycleFailed, InCycle
  <2> QED BY <1>0, <1>2, <2>3, OnwardStep DEF CycleFailed, InCycle, venueSide, shutdown
<1>3. CASE BookRead
  <2>1. SidesFor(Market) \in Seq({"YES", "NO"}) /\ Placing /\ InCycle
    <3>1. /\ <<"NO">> \in Seq({"YES", "NO"}) /\ <<"YES">> \in Seq({"YES", "NO"})
          /\ <<"YES", "NO">> \in Seq({"YES", "NO"})
      OBVIOUS
    <3>2. SidesFor(Market) \in Seq({"YES", "NO"})
      BY <3>1 DEF SidesFor
    <3> QED BY <1>3, <3>2 DEF BookRead, Placing, InCycle
  <2>2. Onward(cycle')
    BY <1>3, <2>1, NextSideOnward DEF BookRead
  <2> QED BY <1>0, <1>3, <2>1, <2>2, OnwardStep DEF BookRead, venueSide, shutdown
<1>4. CASE SideSkipped
  <2>1. Tail(cycle.sides) \in Seq({"YES", "NO"}) /\ Placing /\ InCycle
    BY <1>0, <1>4 DEF SideSkipped, Placing, InCycle
  <2>2. Onward(cycle')
    BY <1>4, <2>1, NextSideOnward DEF SideSkipped
  <2> QED BY <1>0, <1>4, <2>1, <2>2, OnwardStep DEF SideSkipped, venueSide, shutdown
<1>5. CASE SidePriced
  <2>1. Onward(cycle') /\ InCycle
    BY <1>0, <1>5 DEF SidePriced, Onward, Placing, CycleType, Pcs, InCycle
  <2> QED BY <1>0, <1>5, <2>1, OnwardStep DEF SidePriced, venueSide, shutdown
<1>6. ASSUME NEW ok \in BOOLEAN, MintAnswer(ok) PROVE EchoIInv'
  <2>1. Onward(cycle') /\ InCycle
    BY <1>0, <1>6 DEF MintAnswer, Onward, Placing, CycleType, Pcs, InCycle
  <2> QED BY <1>0, <1>6, <2>1, OnwardStep DEF MintAnswer, venueSide, shutdown
<1>7. CASE Submit
  <2>1. Onward(cycle') /\ InCycle
    BY <1>0, <1>7 DEF Submit, Onward, Placing, CycleType, Pcs, InCycle
  <2> QED BY <1>0, <1>7, <2>1, OnwardStep DEF Submit, venueSide, shutdown
<1> QED BY <1>1, <1>2, <1>3, <1>4, <1>5, <1>6, <1>7

LEMMA EchoNextIInv == ASSUME EchoIInv, [EchoNext]_echoVars PROVE EchoIInv'
<1>1. ASSUME NEW q \in quotes, QuoteFills(q) \/ QuoteExpires(q) PROVE EchoIInv'
  <2>1. /\ quotes' \subseteq quotes /\ lost' = lost
        /\ UNCHANGED <<limbo, openIds, cycle, stage, todo, late, submitted>>
    BY <1>1 DEF QuoteFills, QuoteExpires, shutdown
  <2> QED BY <2>1, FewerStep DEF EchoIInv, EchoTypeOK
<1>2. CASE Poll \/ UNCHANGED echoVars
  <2>1. UNCHANGED <<quotes, limbo, openIds, cycle, stage, todo, late, submitted, lost>>
    BY <1>2 DEF Poll, echoVars, venueSide, shutdown
  <2> QED BY <2>1, FewerStep DEF EchoIInv, EchoTypeOK
<1>3. CASE Tick
  BY <1>3, TickStep
<1>4. CASE Step
  BY <1>4, CycleStep
<1>5. CASE Shutdown
  BY <1>5, SignalStep, ShutdownListStep, ShutdownCancelStep, EchoSweptStep, ExitStep DEF Shutdown
<1>6. ASSUME NEW q \in limbo, QuoteLandsLate(q) PROVE EchoIInv'
  BY <1>6, QuoteLandsLateStep
<1> QED BY <1>1, <1>2, <1>3, <1>4, <1>5, <1>6 DEF EchoNext, Pool

(* ECHO's quotes, its records of them and its cycle agree. *)
THEOREM EchoInductive == EchoSpec => []EchoIInv
<1>1. EchoInit => EchoIInv
  BY EchoInitIInv
<1>2. EchoIInv /\ [EchoNext]_echoVars => EchoIInv'
  BY EchoNextIInv
<1> QED BY <1>1, <1>2, PTL DEF EchoSpec

(* An older quote rests beside a newer one of its market only if its cancel    *)
(* failed or its placement was answered wrong (echo.ts cancelFor, openIds).  *)
THEOREM NoStacking == EchoSpec => []StackedOnlyIfLost
<1>1. EchoIInv => StackedOnlyIfLost
  BY DEF EchoIInv, LimboInv, StackedOnlyIfLost
<1> QED BY <1>1, EchoInductive, PTL

(* What rests after ECHO's exit was lost in that way, or belongs to the cycle  *)
(* the signal found under way (echoMain.ts shutdown).                       *)
THEOREM StopLeavesLate == EchoSpec => []StoppedLeavesOnlyLate
<1>1. EchoIInv => StoppedLeavesOnlyLate
  <2> SUFFICES ASSUME EchoIInv, stage = "exited", NEW q \in quotes
               PROVE  q.id \in lost \/ q.round = late
    BY DEF StoppedLeavesOnlyLate
  <2> QED BY DEF EchoIInv, QuotesCovered, Sweeping, Excused
<1> QED BY <1>1, EchoInductive, PTL
=============================================================================
