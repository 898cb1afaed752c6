---------------------------- MODULE ListingProofs ----------------------------
(***************************************************************************)
(* Proofs about ConcurrentGate and Listing, for any calls, limits, markets   *)
(* and times to live.                                                       *)
(*                                                                          *)
(* The lane: the calls that wait, woken or not, are in line once each, so    *)
(* that a wake-up turns into one task and a task ends once.                 *)
(*                                                                          *)
(* The caches: what a call carries, and what a cache keeps, is good for the  *)
(* moment it is dated with - it was read no earlier, its markets had their    *)
(* minimum to live, and every boundary found before that moment is in it.    *)
(* The date is the moment the call was made, and that is what the time to    *)
(* live of the cache is counted from.                                       *)
(***************************************************************************)
EXTENDS Listing, FiniteSetTheorems, TLAPS

-----------------------------------------------------------------------------
(* The lane. *)
CallState == {"idle", "waiting", "running", "done"}

GateTypeOK == /\ state \in [Calls -> CallState]
              /\ queue \in Seq(Calls)
              /\ woken \in Seq(Calls)
              /\ overtakers \in SUBSET Calls

LineInv ==
  /\ \A i \in 1 .. Len(queue) : state[queue[i]] = "waiting"
  /\ \A i \in 1 .. Len(woken) : state[woken[i]] = "waiting"
  /\ \A i, j \in 1 .. Len(queue) : queue[i] = queue[j] => i = j
  /\ \A i, j \in 1 .. Len(woken) : woken[i] = woken[j] => i = j
  /\ \A i \in 1 .. Len(queue), j \in 1 .. Len(woken) : queue[i] # woken[j]

CountInv == /\ IsFiniteSet(Running) /\ active = Cardinality(Running)
            /\ IsFiniteSet(overtakers)
            /\ \A c \in overtakers : state[c] # "idle"

GateInv == GateTypeOK /\ LineInv /\ CountInv /\ OverrunOnlyByOvertaking

LEMMA LimitNat == Limit \in Nat /\ Limit >= 1
  BY GateAssumption DEF Limit

LEMMA GateInitInv == GateInit => GateInv
<1> SUFFICES ASSUME GateInit PROVE GateInv
  OBVIOUS
<1>1. GateTypeOK
  BY DEF GateInit, GateTypeOK, CallState
<1>2. Running = {} /\ Len(woken) = 0 /\ overtakers = {}
  BY DEF GateInit, Running
<1>3. IsFiniteSet({}) /\ Cardinality({}) = 0
  BY FS_EmptySet
<1>4. CountInv /\ OverrunOnlyByOvertaking
  BY <1>2, <1>3, LimitNat DEF GateInit, CountInv, OverrunOnlyByOvertaking
<1> QED BY <1>1, <1>4 DEF GateInit, GateInv, LineInv

(* A call that takes a slot. *)
LEMMA StartCounts ==
  ASSUME GateTypeOK, CountInv, NEW c \in Calls, state[c] # "running", Start(c)
  PROVE  /\ state' \in [Calls -> CallState]
         /\ Running' = Running \cup {c} /\ IsFiniteSet(Running')
         /\ Cardinality(Running) \in Nat /\ Cardinality(Running') = Cardinality(Running) + 1
         /\ active' = Cardinality(Running')
         /\ \A d \in Calls : d # c => state'[d] = state[d]
         /\ state'[c] = "running"
<1>1. /\ state' \in [Calls -> CallState]
      /\ \A d \in Calls : d # c => state'[d] = state[d]
      /\ state'[c] = "running"
  BY DEF Start, GateTypeOK, CallState
<1>2. Running' = Running \cup {c} /\ c \notin Running
  BY <1>1 DEF Running
<1>3. /\ IsFiniteSet(Running \cup {c}) /\ Cardinality(Running) \in Nat
      /\ Cardinality(Running \cup {c}) = Cardinality(Running) + 1
  BY <1>2, FS_AddElement, FS_CardinalityType DEF CountInv
<1> QED BY <1>1, <1>2, <1>3 DEF CountInv, Start

LEMMA WaitsGate ==
  ASSUME GateInv, NEW c \in Calls, RunWaits(c)
  PROVE  GateInv'
<1>1. /\ state' \in [Calls -> CallState]
      /\ \A d \in Calls : d # c => state'[d] = state[d]
      /\ state'[c] = "waiting" /\ state[c] = "idle"
  BY DEF RunWaits, GateInv, GateTypeOK, CallState
<1>2. /\ queue \in Seq(Calls) /\ queue' = Append(queue, c)
      /\ UNCHANGED <<active, woken, overtakers>>
      /\ woken \in Seq(Calls)
  BY DEF RunWaits, GateInv, GateTypeOK
<1>3. /\ queue' \in Seq(Calls) /\ Len(queue') = Len(queue) + 1
      /\ \A i \in 1 .. Len(queue) : queue'[i] = queue[i] /\ queue[i] \in Calls /\ queue[i] # c
      /\ queue'[Len(queue) + 1] = c
      /\ \A i \in 1 .. Len(woken) : woken[i] \in Calls /\ woken[i] # c
  BY <1>1, <1>2 DEF GateInv, LineInv
<1>4. GateTypeOK'
  BY <1>1, <1>2, <1>3 DEF GateInv, GateTypeOK
<1>5. LineInv'
  <2>1. Len(queue) \in Nat /\ \A i \in 1 .. Len(queue') : i \in 1 .. Len(queue) \/ i = Len(queue) + 1
    BY <1>2, <1>3
  <2>2. \A i \in 1 .. Len(queue') : state'[queue'[i]] = "waiting"
    BY <1>1, <1>3, <2>1 DEF GateInv, LineInv
  <2>3. \A i, j \in 1 .. Len(queue') : queue'[i] = queue'[j] => i = j
    BY <1>3, <2>1 DEF GateInv, LineInv
  <2>4. \A i \in 1 .. Len(woken') : state'[woken'[i]] = "waiting"
    BY <1>1, <1>2, <1>3 DEF GateInv, LineInv
  <2>5. \A i \in 1 .. Len(queue'), j \in 1 .. Len(woken') : queue'[i] # woken'[j]
    BY <1>2, <1>3, <2>1 DEF GateInv, LineInv
  <2> QED BY <1>2, <2>2, <2>3, <2>4, <2>5 DEF GateInv, LineInv
<1>6. Running' = Running
  BY <1>1 DEF Running
<1>7. CountInv' /\ OverrunOnlyByOvertaking'
  BY <1>1, <1>2, <1>6 DEF GateInv, GateTypeOK, CountInv, OverrunOnlyByOvertaking
<1> QED BY <1>4, <1>5, <1>7 DEF GateInv

(* A start with a slot free exceeds the limit only past a woken call. *)
LEMMA StartsGate ==
  ASSUME GateInv, NEW c \in Calls, RunStarts(c)
  PROVE  GateInv'
<1>1. /\ state' \in [Calls -> CallState]
      /\ Running' = Running \cup {c} /\ IsFiniteSet(Running')
      /\ Cardinality(Running) \in Nat /\ Cardinality(Running') = Cardinality(Running) + 1
      /\ active' = Cardinality(Running')
      /\ \A d \in Calls : d # c => state'[d] = state[d]
      /\ state'[c] = "running" /\ state[c] = "idle"
  BY StartCounts DEF RunStarts, GateInv
<1>2. /\ UNCHANGED <<queue, woken>> /\ queue \in Seq(Calls) /\ woken \in Seq(Calls)
      /\ active < Limit /\ active = Cardinality(Running)
      /\ overtakers' = IF woken = <<>> THEN overtakers ELSE overtakers \cup {c}
  BY DEF RunStarts, GateInv, GateTypeOK, CountInv
<1>3. LineInv'
  BY <1>1, <1>2, SMTT(30) DEF GateInv, LineInv
<1>4. GateTypeOK'
  BY <1>1, <1>2 DEF GateInv, GateTypeOK
<1>5. c \notin overtakers /\ IsFiniteSet(overtakers) /\ Cardinality(overtakers) \in Nat
  BY <1>1, FS_CardinalityType DEF GateInv, CountInv
<1>6. /\ IsFiniteSet(overtakers')
      /\ woken = <<>> \/ Cardinality(overtakers') = Cardinality(overtakers) + 1
      /\ woken # <<>> \/ Cardinality(overtakers') = Cardinality(overtakers)
  BY <1>2, <1>5, FS_AddElement
<1>7. CountInv'
  BY <1>1, <1>2, <1>6 DEF GateInv, GateTypeOK, CountInv
<1>8. OverrunOnlyByOvertaking'
  <2>1. Len(woken) \in Nat /\ Len(woken') = Len(woken) /\ (woken = <<>> => Len(woken) = 0)
    BY <1>2
  <2>2. Cardinality(Running) + Len(woken) <= Limit + Cardinality(overtakers)
    BY DEF GateInv, OverrunOnlyByOvertaking
  <2>3. CASE woken = <<>>
    BY <1>1, <1>2, <1>5, <1>6, <2>1, <2>3, LimitNat DEF OverrunOnlyByOvertaking, Limit
  <2>4. CASE woken # <<>>
    BY <1>1, <1>5, <1>6, <2>1, <2>2, <2>4, LimitNat DEF OverrunOnlyByOvertaking, Limit
  <2> QED BY <2>3, <2>4
<1> QED BY <1>3, <1>4, <1>7, <1>8 DEF GateInv

(* A wake-up becomes a task. *)
LEMMA ResumeGate ==
  ASSUME GateInv, Resume
  PROVE  GateInv'
<1> DEFINE c == Head(woken)
<1>1. /\ woken \in Seq(Calls) /\ woken # <<>> /\ queue \in Seq(Calls)
      /\ UNCHANGED <<queue, overtakers>>
  BY DEF Resume, GateInv, GateTypeOK
<1>2. /\ c = woken[1] /\ c \in Calls /\ 1 \in 1 .. Len(woken) /\ Len(woken) \in Nat
      /\ woken' = Tail(woken) /\ woken' \in Seq(Calls) /\ Len(woken') = Len(woken) - 1
      /\ \A i \in 1 .. Len(woken') : woken'[i] = woken[i + 1] /\ i + 1 \in 1 .. Len(woken)
  BY <1>1 DEF Resume
<1>3. state[c] = "waiting"
  BY <1>2 DEF GateInv, LineInv
<1>4. Start(c)
  BY DEF Resume
<1> HIDE DEF c
<1>5. /\ state' \in [Calls -> CallState]
      /\ Running' = Running \cup {c} /\ IsFiniteSet(Running')
      /\ Cardinality(Running) \in Nat /\ Cardinality(Running') = Cardinality(Running) + 1
      /\ active' = Cardinality(Running')
      /\ \A d \in Calls : d # c => state'[d] = state[d]
      /\ state'[c] = "running"
  BY <1>2, <1>3, <1>4, StartCounts DEF GateInv
<1>6. /\ \A i \in 1 .. Len(woken') : woken'[i] \in Calls /\ woken'[i] # c
      /\ \A i \in 1 .. Len(queue) : queue[i] \in Calls /\ queue[i] # c
  <2>1. \A i \in 1 .. Len(woken') : woken[i + 1] # woken[1]
    BY <1>2 DEF GateInv, LineInv
  <2> QED BY <1>1, <1>2, <2>1 DEF GateInv, LineInv
<1>7. LineInv'
  <2>1. \A i \in 1 .. Len(woken') : state'[woken'[i]] = "waiting"
    BY <1>2, <1>5, <1>6 DEF GateInv, LineInv
  <2>2. \A i, j \in 1 .. Len(woken') : woken'[i] = woken'[j] => i = j
    <3> SUFFICES ASSUME NEW i \in 1 .. Len(woken'), NEW j \in 1 .. Len(woken'), woken'[i] = woken'[j]
                 PROVE  i = j
      OBVIOUS
    <3>1. i + 1 = j + 1
      BY <1>2 DEF GateInv, LineInv
    <3> QED BY <3>1
  <2>3. \A i \in 1 .. Len(queue') : state'[queue'[i]] = "waiting"
    BY <1>1, <1>5, <1>6 DEF GateInv, LineInv
  <2>4. \A i \in 1 .. Len(queue'), j \in 1 .. Len(woken') : queue'[i] # woken'[j]
    BY <1>1, <1>2 DEF GateInv, LineInv
  <2> QED BY <1>1, <2>1, <2>2, <2>3, <2>4 DEF GateInv, LineInv
<1>8. GateTypeOK'
  BY <1>1, <1>2, <1>5 DEF GateInv, GateTypeOK
<1>9. CountInv'
  BY <1>1, <1>5 DEF GateInv, GateTypeOK, CountInv
<1>10. Cardinality(overtakers) \in Nat
  BY FS_CardinalityType DEF GateInv, CountInv
<1>11. OverrunOnlyByOvertaking'
  BY <1>1, <1>2, <1>5, <1>10, LimitNat DEF GateInv, OverrunOnlyByOvertaking, Limit
<1> QED BY <1>7, <1>8, <1>9, <1>11 DEF GateInv

(* A task ends: its slot goes to the oldest call in line, or to none. *)
LEMMA FinishGate ==
  ASSUME GateInv, NEW c \in Calls, Finish(c)
  PROVE  GateInv'
<1>1. /\ state' \in [Calls -> CallState]
      /\ \A d \in Calls : d # c => state'[d] = state[d]
      /\ state'[c] = "done" /\ state[c] = "running"
      /\ active' = active - 1 /\ WakeNext /\ overtakers' = overtakers
  BY DEF Finish, GateInv, GateTypeOK, CallState
<1>2. /\ Running' = Running \ {c} /\ c \in Running /\ IsFiniteSet(Running)
      /\ active = Cardinality(Running) /\ Cardinality(Running) \in Nat
      /\ Cardinality(overtakers) \in Nat
  BY <1>1, FS_CardinalityType DEF Running, GateInv, CountInv
<1>3. IsFiniteSet(Running') /\ Cardinality(Running') = Cardinality(Running) - 1
  BY <1>2, FS_RemoveElement
<1>4. CountInv'
  BY <1>1, <1>2, <1>3 DEF GateInv, GateTypeOK, CountInv
<1>5. /\ queue \in Seq(Calls) /\ woken \in Seq(Calls)
      /\ \A i \in 1 .. Len(queue) : queue[i] \in Calls /\ queue[i] # c
      /\ \A i \in 1 .. Len(woken) : woken[i] \in Calls /\ woken[i] # c
  BY <1>1 DEF GateInv, GateTypeOK, LineInv
<1>6. CASE queue = <<>>
  <2>1. UNCHANGED <<queue, woken>>
    BY <1>1, <1>6 DEF WakeNext
  <2>2. GateTypeOK' /\ LineInv'
    BY <1>1, <1>5, <2>1 DEF GateInv, GateTypeOK, LineInv
  <2>3. OverrunOnlyByOvertaking'
    BY <1>1, <1>2, <1>3, <1>5, <2>1, LimitNat DEF GateInv, OverrunOnlyByOvertaking, Limit
  <2> QED BY <1>4, <2>2, <2>3 DEF GateInv
<1>7. CASE queue # <<>>
  <2> DEFINE n == Len(woken)
             q == Len(queue)
  <2>1. queue' = Tail(queue) /\ woken' = Append(woken, Head(queue))
    BY <1>1, <1>7 DEF WakeNext
  <2>2. /\ n \in Nat /\ q \in Nat /\ q >= 1 /\ 1 \in 1 .. q
        /\ queue' \in Seq(Calls) /\ Len(queue') = q - 1
        /\ \A i \in 1 .. q - 1 : queue'[i] = queue[i + 1] /\ i + 1 \in 1 .. q
        /\ woken' \in Seq(Calls) /\ Len(woken') = n + 1
        /\ \A i \in 1 .. n : woken'[i] = woken[i]
        /\ woken'[n + 1] = queue[1] /\ queue[1] \in Calls
    BY <1>5, <1>7, <2>1
  <2>3. GateTypeOK'
    BY <1>1, <2>2 DEF GateInv, GateTypeOK
  <2>4. \A i \in 1 .. n + 1 : i \in 1 .. n \/ i = n + 1
    BY <2>2
  <2> HIDE DEF n, q
  <2>5. LineInv'
    <3> USE DEF n, q
    <3>0. \A i \in 1 .. Len(queue') : queue'[i] = queue[i + 1] /\ i + 1 \in 1 .. Len(queue)
      BY <2>2
    <3>1. \A i \in 1 .. Len(queue') : state'[queue'[i]] = "waiting"
      <4> TAKE i \in 1 .. Len(queue')
      <4>1. queue'[i] = queue[i + 1] /\ i + 1 \in 1 .. Len(queue)
        BY <3>0
      <4>2. state[queue[i + 1]] = "waiting" /\ queue[i + 1] \in Calls /\ queue[i + 1] # c
        BY <1>5, <4>1 DEF GateInv, LineInv
      <4> QED BY <1>1, <4>1, <4>2
    <3>2. \A i \in 1 .. Len(woken') : state'[woken'[i]] = "waiting"
      <4> TAKE i \in 1 .. Len(woken')
      <4>1. i \in 1 .. n \/ i = n + 1
        BY <2>2, <2>4
      <4>2. CASE i \in 1 .. n
        <5>1. woken'[i] = woken[i] /\ woken[i] \in Calls /\ woken[i] # c
          BY <1>5, <2>2, <4>2
        <5>2. state[woken[i]] = "waiting"
          BY <4>2 DEF GateInv, LineInv
        <5> QED BY <1>1, <5>1, <5>2
      <4>3. CASE i = n + 1
        <5>1. woken'[i] = queue[1] /\ queue[1] \in Calls /\ queue[1] # c
          BY <1>5, <2>2, <4>3
        <5>2. state[queue[1]] = "waiting"
          BY <2>2 DEF GateInv, LineInv
        <5> QED BY <1>1, <5>1, <5>2
      <4> QED BY <4>1, <4>2, <4>3
    <3>3. \A i, j \in 1 .. Len(queue') : queue'[i] = queue'[j] => i = j
      <4> SUFFICES ASSUME NEW i \in 1 .. Len(queue'), NEW j \in 1 .. Len(queue'), queue'[i] = queue'[j]
                   PROVE  i = j
        OBVIOUS
      <4>1. /\ queue[i + 1] = queue[j + 1]
            /\ i + 1 \in 1 .. Len(queue) /\ j + 1 \in 1 .. Len(queue)
        BY <3>0
      <4>2. i + 1 = j + 1
        BY <4>1 DEF GateInv, LineInv
      <4> QED BY <4>2
    <3>4. \A i, j \in 1 .. Len(woken') : woken'[i] = woken'[j] => i = j
      <4>1. \A j \in 1 .. n : woken[j] # queue[1]
        BY <2>2 DEF GateInv, LineInv
      <4>2. \A i, j \in 1 .. n : woken[i] = woken[j] => i = j
        BY DEF GateInv, LineInv
      <4> QED BY <2>2, <2>4, <4>1, <4>2
    <3>5. \A i \in 1 .. Len(queue'), j \in 1 .. Len(woken') : queue'[i] # woken'[j]
      <4> SUFFICES ASSUME NEW i \in 1 .. Len(queue'), NEW j \in 1 .. Len(woken') PROVE queue'[i] # woken'[j]
        OBVIOUS
      <4>1. queue'[i] = queue[i + 1] /\ i + 1 \in 1 .. q /\ i + 1 # 1
        BY <2>2
      <4> QED BY <2>2, <2>4, <4>1 DEF GateInv, LineInv
    <3> QED BY <3>1, <3>2, <3>3, <3>4, <3>5 DEF LineInv
  <2>6. OverrunOnlyByOvertaking'
    BY <1>1, <1>2, <1>3, <2>2, LimitNat DEF GateInv, OverrunOnlyByOvertaking, Limit, n
  <2> QED BY <1>4, <2>3, <2>5, <2>6 DEF GateInv
<1> QED BY <1>6, <1>7

-----------------------------------------------------------------------------
(* The caches. *)
Value == [read : Nat, listed : SUBSET Markets, priced : SUBSET Markets]

Entry == [value : Value, at : Nat]

Asked == [what : What, asked : Nat, since : Nat, priced : SUBSET Markets, left : SUBSET Markets,
          answer : Value \cup {Nothing},
          step : {"unmade", "listing", "pricing", "reading", "answered", "failed"}]

ListingTypeOK == /\ now \in Nat
                 /\ call \in [Calls -> Asked]
                 /\ cache \in [What -> Entry \cup {Nothing}]
                 /\ knownAt \in [Markets -> Nat \cup {Nothing}]

(* Every boundary found before t is among those posted. *)
Posted(priced, t) == \A m \in Known : knownAt[m] < t => m \in priced

(* The markets a listing owes no boundary: it has it, or not the market. *)
NotOwed(v) == v.priced \cup (Markets \ v.listed)

(* What a call carries is good for the moment it was made. *)
GoodAnswer(r) ==
  /\ r.answer \in Value
  /\ r.asked - r.answer.read <= Ttl[r.what.kind]
  /\ MinTte > 0 => \A m \in r.answer.listed : Expiry[m] - r.asked > MinTte - Ttl["list"]
  /\ r.what.kind = "list" =>
       \A m \in Known : r.asked - knownAt[m] >= Ttl["list"] => m \in NotOwed(r.answer)

Good(r) == /\ r.asked <= now
           /\ r.step \in {"listing", "pricing", "reading"} => r.asked <= r.since
           /\ r.step = "pricing" => Posted(r.priced, r.asked)
           /\ r.left # {} => r.step = "pricing"
           /\ r.step = "answered" => GoodAnswer(r)

(* What is kept is good for the moment it is dated with. *)
GoodEntry(w, e) ==
  /\ e.at <= now /\ e.at <= e.value.read
  /\ \A m \in e.value.listed : w = List /\ (MinTte > 0 => Expiry[m] - e.at >= MinTte)
  /\ w = List => Posted(NotOwed(e.value), e.at)

CallsGood == \A c \in Calls : Good(call[c])
CacheGood == \A w \in What : cache[w] # Nothing => GoodEntry(w, cache[w])

(* A call in the lane is after a listing. *)
InLane(s) == s \in {"waiting", "running"}
LaneInv == \A c \in Calls : InLane(state[c]) => call[c].step = "listing"

IInv == GateInv /\ ListingTypeOK /\ CallsGood /\ CacheGood /\ LaneInv

(* Time goes on, and boundaries are found as it does. *)
World == /\ now' \in Nat /\ now <= now'
         /\ knownAt' \in [Markets -> Nat \cup {Nothing}]
         /\ \A m \in Markets : knownAt'[m] = knownAt[m] \/ knownAt'[m] = now

LEMMA ListKinds ==
  ASSUME NEW w \in What
  PROVE  /\ w.kind \in {"list", "quote", "status", "settled"}
         /\ w.kind = "list" <=> w = List
         /\ Ttl[w.kind] \in Nat
<1>1. w.kind \in {"list", "quote", "status", "settled"} /\ (w.kind = "list" <=> w = List)
  BY DEF What, List
<1> QED BY <1>1, ListingAssumption

(* Good stays good, as the world goes on. *)
LEMMA PostedLater ==
  ASSUME ListingTypeOK, World, NEW priced, NEW t \in Nat, t <= now, Posted(priced, t)
  PROVE  Posted(priced, t)'
<1> SUFFICES ASSUME NEW m \in Known', knownAt'[m] < t PROVE m \in priced
  BY DEF Posted
<1>1. knownAt'[m] = knownAt[m]
  BY DEF World, ListingTypeOK, Known
<1> QED BY <1>1 DEF Posted, Known

LEMMA GoodLater ==
  ASSUME ListingTypeOK, World, NEW r \in Asked, Good(r)
  PROVE  Good(r)'
<1>1. r.asked \in Nat /\ r.asked <= now /\ r.asked <= now'
  BY DEF Good, World, ListingTypeOK, Asked
<1>2. r.step = "pricing" => Posted(r.priced, r.asked)'
  BY <1>1, PostedLater DEF Good
<1>3. r.step = "answered" => GoodAnswer(r)'
  <2> SUFFICES ASSUME r.step = "answered", r.what.kind = "list", NEW m \in Known',
                      r.asked - knownAt'[m] >= Ttl["list"]
               PROVE  m \in NotOwed(r.answer)
    BY DEF Good, GoodAnswer
  <2>1. Ttl["list"] \in Nat /\ Ttl["list"] > 0
    BY ListingAssumption
  <2>2. knownAt'[m] = knownAt[m] /\ knownAt'[m] \in Nat
    BY <1>1, <2>1 DEF World, ListingTypeOK, Known
  <2>3. m \in Known
    BY <2>2 DEF Known
  <2> QED BY <2>2, <2>3 DEF Good, GoodAnswer
<1> QED BY <1>1, <1>2, <1>3 DEF Good

LEMMA EntryLater ==
  ASSUME ListingTypeOK, World, NEW w \in What, NEW e \in Entry, GoodEntry(w, e)
  PROVE  GoodEntry(w, e)'
<1>1. e.at \in Nat /\ e.at <= now /\ e.at <= now'
  BY DEF GoodEntry, World, ListingTypeOK, Entry
<1>2. w = List => Posted(NotOwed(e.value), e.at)'
  BY <1>1, PostedLater DEF GoodEntry
<1> QED BY <1>1, <1>2 DEF GoodEntry

LEMMA WorldStep ==
  ASSUME IInv, GateInv', World, LaneInv',
         call' \in [Calls -> Asked], \A d \in Calls : Good(call'[d]),
         cache' \in [What -> Entry \cup {Nothing}],
         \A w \in What : cache'[w] # Nothing => GoodEntry(w, cache'[w])
  PROVE  IInv'
<1>1. CallsGood'
  <2> SUFFICES ASSUME NEW d \in Calls PROVE Good(call[d])'
    BY DEF CallsGood
  <2>1. PICK s \in Asked : s = call'[d]
    OBVIOUS
  <2>2. Good(s)
    BY <2>1
  <2>3. Good(s)'
    BY <2>2, GoodLater DEF IInv
  <2> QED BY <2>1, <2>3 DEF Good, GoodAnswer, Posted
<1>2. CacheGood'
  <2> SUFFICES ASSUME NEW w \in What, cache'[w] # Nothing PROVE GoodEntry(w, cache[w])'
    BY DEF CacheGood
  <2>1. PICK e \in Entry : e = cache'[w]
    OBVIOUS
  <2>2. GoodEntry(w, e)
    BY <2>1
  <2>3. GoodEntry(w, e)'
    BY <2>2, EntryLater DEF IInv
  <2> QED BY <2>1, <2>3 DEF GoodEntry, Posted
<1> QED BY <1>1, <1>2 DEF IInv, ListingTypeOK, World

(* A step of one call. *)
Moves(c, r) == call' = [call EXCEPT ![c] = r]

Keeps == \/ cache' = cache
         \/ \E w \in What, e \in Entry : GoodEntry(w, e) /\ cache' = [cache EXCEPT ![w] = e]

(* The lane changes for no other call, and what it holds is after a listing. *)
LaneStep(c, r) == /\ \A d \in Calls : d # c => state'[d] = state[d]
                  /\ InLane(state'[c]) => r.step = "listing"

LEMMA CallStep ==
  ASSUME IInv, GateInv', World, NEW c \in Calls, NEW r \in Asked, Good(r),
         Moves(c, r), LaneStep(c, r), Keeps
  PROVE  IInv'
<1>1. /\ call \in [Calls -> Asked] /\ call' \in [Calls -> Asked]
      /\ call'[c] = r /\ \A d \in Calls : d # c => call'[d] = call[d]
  BY DEF IInv, ListingTypeOK, Moves
<1>2. ASSUME NEW d \in Calls PROVE Good(call'[d])
  <2>1. Good(call[d])
    BY DEF IInv, CallsGood
  <2>2. CASE d = c
    <3>1. call'[d] = r
      BY <1>1, <2>2
    <3> QED BY <3>1
  <2>3. CASE d # c
    <3>1. call'[d] = call[d]
      BY <1>1, <2>3
    <3> QED BY <2>1, <3>1
  <2> QED BY <2>2, <2>3
<1>3. cache \in [What -> Entry \cup {Nothing}]
  BY DEF IInv, ListingTypeOK
<1>4. cache' \in [What -> Entry \cup {Nothing}]
  BY <1>3 DEF Keeps
<1>5. ASSUME NEW w \in What, cache'[w] # Nothing PROVE GoodEntry(w, cache'[w])
  <2>1. CASE cache'[w] = cache[w]
    <3>1. GoodEntry(w, cache[w])
      BY <1>5, <2>1 DEF IInv, CacheGood
    <3> QED BY <2>1, <3>1
  <2>2. CASE cache'[w] # cache[w]
    <3>1. PICK v \in What, f \in Entry : GoodEntry(v, f) /\ cache' = [cache EXCEPT ![v] = f]
      BY <2>2 DEF Keeps
    <3>2. v = w /\ f = cache'[w]
      BY <1>3, <2>2, <3>1
    <3> QED BY <3>1, <3>2
  <2> QED BY <2>1, <2>2
<1>6. LaneInv'
  <2> SUFFICES ASSUME NEW d \in Calls, InLane(state'[d]) PROVE call'[d].step = "listing"
    BY DEF LaneInv, InLane
  <2>1. CASE d = c
    BY <1>1, <2>1 DEF LaneStep
  <2>2. CASE d # c
    BY <1>1, <2>2 DEF LaneStep, IInv, LaneInv
  <2> QED BY <2>1, <2>2
<1> QED BY <1>1, <1>2, <1>4, <1>5, <1>6, WorldStep

-----------------------------------------------------------------------------
(* What becomes of a call q: it goes on to a step, is answered, or fails. *)
Stepped(q, step) == [q EXCEPT !.step = step, !.since = now, !.priced = {}, !.left = {}]
Told(q, value) == [Unmade EXCEPT !.what = q.what, !.asked = q.asked,
                                 !.step = "answered", !.answer = value]
Lost == [Unmade EXCEPT !.step = "failed"]

LEMMA Overwritten ==
  ASSUME NEW f, NEW c, NEW q, NEW r, c \in DOMAIN f
  PROVE  /\ [[f EXCEPT ![c] = q] EXCEPT ![c] = r] = [f EXCEPT ![c] = r]
         /\ [f EXCEPT ![c] = q][c] = q
  OBVIOUS

LEMMA OutcomeAt ==
  ASSUME NEW call0, NEW c \in Calls, NEW q, call \in [Calls -> Asked],
         call0 = [call EXCEPT ![c] = q], NEW step, call' = At(call0, c, step)
  PROVE  Moves(c, Stepped(q, step))
<1>1. call0[c] = q /\ [call0 EXCEPT ![c] = Stepped(q, step)] = [call EXCEPT ![c] = Stepped(q, step)]
  BY Overwritten
<1>2. At(call0, c, step) = [call0 EXCEPT ![c] = Stepped(q, step)]
  BY <1>1 DEF At, Stepped
<1>3. call' = [call EXCEPT ![c] = Stepped(q, step)]
  BY <1>1, <1>2
<1> QED BY <1>3 DEF Moves

LEMMA OutcomeTold ==
  ASSUME NEW call0, NEW c \in Calls, NEW q, call \in [Calls -> Asked],
         call0 = [call EXCEPT ![c] = q], NEW value, call' = Answered(call0, c, value)
  PROVE  Moves(c, Told(q, value))
<1>1. call0[c] = q /\ [call0 EXCEPT ![c] = Told(q, value)] = [call EXCEPT ![c] = Told(q, value)]
  BY Overwritten
<1>2. Answered(call0, c, value) = [call0 EXCEPT ![c] = Told(q, value)]
  BY <1>1 DEF Answered, Told
<1>3. call' = [call EXCEPT ![c] = Told(q, value)]
  BY <1>1, <1>2
<1> QED BY <1>3 DEF Moves

LEMMA OutcomeLost ==
  ASSUME NEW call0, NEW c \in Calls, NEW q, call \in [Calls -> Asked],
         call0 = [call EXCEPT ![c] = q], call' = Failed(call0, c)
  PROVE  Moves(c, Lost)
<1>1. call0[c] = q /\ [call0 EXCEPT ![c] = Lost] = [call EXCEPT ![c] = Lost]
  BY Overwritten
<1>2. Failed(call0, c) = [call0 EXCEPT ![c] = Lost]
  BY <1>1 DEF Failed, Lost
<1>3. call' = [call EXCEPT ![c] = Lost]
  BY <1>1, <1>2
<1> QED BY <1>3 DEF Moves

LEMMA Initially == Unmade \in Asked /\ List \in What
  BY DEF Unmade, Asked, What, List

LEMMA SteppedGood ==
  ASSUME ListingTypeOK, NEW q \in Asked, q.asked <= now, NEW step \in {"listing", "reading"}
  PROVE  Stepped(q, step) \in Asked /\ Good(Stepped(q, step)) /\ Stepped(q, step).step = step
  BY DEF Stepped, Asked, ListingTypeOK, Good

LEMMA LostGood ==
  ASSUME ListingTypeOK
  PROVE  Lost \in Asked /\ Good(Lost) /\ Lost.step = "failed"
  BY Initially DEF Lost, Unmade, Asked, ListingTypeOK, Good

LEMMA ToldGood ==
  ASSUME NEW q \in Asked, q.asked <= now, NEW v \in Value,
         q.asked - v.read <= Ttl[q.what.kind],
         MinTte > 0 => \A m \in v.listed : Expiry[m] - q.asked > MinTte - Ttl["list"],
         q.what.kind = "list" =>
           \A m \in Known : q.asked - knownAt[m] >= Ttl["list"] => m \in NotOwed(v)
  PROVE  Told(q, v) \in Asked /\ Good(Told(q, v)) /\ Told(q, v).step = "answered"
<1>1. /\ Told(q, v) \in Asked
      /\ Told(q, v).what = q.what /\ Told(q, v).asked = q.asked
      /\ Told(q, v).step = "answered" /\ Told(q, v).answer = v /\ Told(q, v).left = {}
  BY Initially DEF Told, Unmade, Asked
<1> QED BY <1>1 DEF Good, GoodAnswer

(* A kept value that is still fresh answers a call made now. *)
LEMMA FreshGood ==
  ASSUME IInv, NEW q \in Asked, q.asked = now, Fresh(q.what)
  PROVE  LET r == Told(q, cache[q.what].value)
         IN  r \in Asked /\ Good(r) /\ r.step = "answered"
<1>1. q.what \in What
  BY DEF Asked
<1>2. PICK w \in What : w = q.what
  BY <1>1
<1>3. PICK e \in Entry : e = cache[w]
  BY <1>2 DEF Fresh, IInv, ListingTypeOK
<1>4. GoodEntry(w, e) /\ now - e.at < Ttl[w.kind]
  BY <1>2, <1>3 DEF Fresh, IInv, CacheGood
<1>5. /\ e.value \in Value /\ e.value.read \in Nat /\ e.value.listed \subseteq Markets
      /\ e.at \in Nat /\ now \in Nat
      /\ e.at <= now /\ e.at <= e.value.read
  BY <1>4 DEF Entry, Value, GoodEntry, IInv, ListingTypeOK
<1>6. Ttl[w.kind] \in Nat /\ (w.kind = "list" <=> w = List) /\ Ttl["list"] \in Nat /\ MinTte \in Nat
  BY ListKinds, ListingAssumption
<1>7. now - e.value.read <= Ttl[w.kind]
  BY <1>4, <1>5, <1>6
<1>8. ASSUME MinTte > 0, NEW m \in e.value.listed PROVE Expiry[m] - now > MinTte - Ttl["list"]
  <2>1. w.kind = "list" /\ Expiry[m] - e.at >= MinTte /\ Expiry[m] \in Nat
    BY <1>4, <1>5, <1>6, <1>8, ListingAssumption DEF GoodEntry
  <2>2. now - e.at < Ttl["list"]
    BY <1>4, <2>1
  <2> QED BY <1>5, <1>6, <2>1, <2>2
<1>9. ASSUME w.kind = "list", NEW m \in Known, now - knownAt[m] >= Ttl["list"]
      PROVE  m \in NotOwed(e.value)
  <2>1. knownAt[m] \in Nat /\ now - e.at < Ttl["list"]
    BY <1>4, <1>9 DEF Known, IInv, ListingTypeOK
  <2>2. knownAt[m] < e.at
    BY <1>5, <1>6, <1>9, <2>1
  <2>3. Posted(NotOwed(e.value), e.at)
    BY <1>4, <1>6, <1>9 DEF GoodEntry
  <2> QED BY <1>9, <2>2, <2>3 DEF Posted
<1>10. now <= now
  BY <1>5
<1> QED BY <1>2, <1>3, <1>5, <1>7, <1>8, <1>9, <1>10, ToldGood

(* WithList: answered with the listing, off to its book, or failed. *)
LEMMA WithListStep ==
  ASSUME IInv, NEW call0, NEW c \in Calls, NEW q \in Asked, NEW v \in Value,
         call0 = [call EXCEPT ![c] = q], q.asked <= now,
         q.what.kind = "list" => Told(q, v) \in Asked /\ Good(Told(q, v)),
         call' = WithList(call0, c, v)
  PROVE  \E r \in Asked : Good(r) /\ Moves(c, r) /\ r.step # "listing"
<1>0. ListingTypeOK /\ call \in [Calls -> Asked]
  BY DEF IInv, ListingTypeOK
<1>1. call0[c] = q
  BY <1>0
<1>2. CASE q.what.kind = "list"
  <2>1. Moves(c, Told(q, v))
    <3>1. call' = Answered(call0, c, v)
      <4>1. q.what.market \notin v.listed
        BY <1>2, ListingAssumption DEF Asked, What, Value
      <4> QED BY <1>1, <1>2, <4>1 DEF WithList
    <3> QED BY <1>0, <3>1, OutcomeTold
  <2>2. Told(q, v).step = "answered"
    BY DEF Told, Unmade
  <2> QED BY <1>2, <2>1, <2>2
<1>3. CASE q.what.kind # "list" /\ q.what.market \in v.listed
  <2>1. Moves(c, Stepped(q, "reading"))
    <3>1. call' = At(call0, c, "reading")
      BY <1>1, <1>3 DEF WithList
    <3> QED BY <1>0, <3>1, OutcomeAt
  <2> QED BY <1>0, <2>1, SteppedGood
<1>4. CASE q.what.kind # "list" /\ q.what.market \notin v.listed
  <2>1. Moves(c, Lost)
    <3>1. call' = Failed(call0, c)
      BY <1>1, <1>4 DEF WithList
    <3> QED BY <1>0, <3>1, OutcomeLost
  <2> QED BY <1>0, <2>1, LostGood
<1> QED BY <1>2, <1>3, <1>4

(* A listing that is complete answers its call and is kept. *)
LEMMA CompleteStep ==
  ASSUME IInv, NEW c \in Calls, call[c].step \in {"listing", "pricing"},
         NEW priced \in SUBSET Markets, Posted(priced, call[c].asked), Complete(c, priced)
  PROVE  Keeps /\ \E r \in Asked : Good(r) /\ Moves(c, r) /\ r.step # "listing"
<1> DEFINE q == call[c]
           v == [read |-> q.since, listed |-> Tradable(c), priced |-> priced \cap Tradable(c)]
<1>1. /\ q \in Asked /\ q.asked \in Nat /\ q.since \in Nat /\ q.asked <= now /\ q.asked <= q.since
      /\ q.what \in What
  BY DEF IInv, ListingTypeOK, CallsGood, Good, Asked
<1>2. /\ v \in Value /\ v.read = q.since
      /\ \A m \in v.listed : m \in Markets /\ (MinTte > 0 => Expiry[m] - q.asked >= MinTte)
      /\ \A m \in priced : m \in NotOwed(v)
  BY <1>1 DEF Value, Tradable, NotOwed
<1>3. /\ Ttl["list"] \in Nat /\ Ttl["list"] > 0 /\ Ttl[q.what.kind] \in Nat
      /\ MinTte \in Nat /\ Expiry \in [Markets -> Nat]
  BY <1>1, ListKinds, ListingAssumption
<1>4. cache' = [cache EXCEPT ![List] = [value |-> v, at |-> q.asked]]
  BY DEF Complete, Keep, Stamp
<1>5. call' = WithList(call, c, v)
  BY DEF Complete
<1>6. call = [call EXCEPT ![c] = q]
  BY DEF IInv, ListingTypeOK
<1> HIDE DEF v
<1>7. Keeps
  <2> DEFINE e == [value |-> v, at |-> q.asked]
  <2>1. e \in Entry /\ e.at = q.asked /\ e.value = v
    BY <1>1, <1>2 DEF Entry
  <2>2. Posted(NotOwed(v), q.asked)
    BY <1>2 DEF Posted
  <2>3. GoodEntry(List, e)
    BY <1>1, <1>2, <2>1, <2>2 DEF GoodEntry
  <2> QED BY <1>4, <2>1, <2>3, Initially DEF Keeps
<1>8. Told(q, v) \in Asked /\ Good(Told(q, v))
  <2>1. q.asked - v.read <= Ttl[q.what.kind]
    BY <1>1, <1>2, <1>3
  <2>2. MinTte > 0 => \A m \in v.listed : Expiry[m] - q.asked > MinTte - Ttl["list"]
    BY <1>1, <1>2, <1>3
  <2>3. \A m \in Known : q.asked - knownAt[m] >= Ttl["list"] => m \in NotOwed(v)
    <3> SUFFICES ASSUME NEW m \in Known, q.asked - knownAt[m] >= Ttl["list"] PROVE m \in priced
      BY <1>2
    <3>1. knownAt[m] \in Nat
      BY DEF Known, IInv, ListingTypeOK
    <3>2. knownAt[m] < q.asked
      BY <1>1, <1>3, <3>1
    <3> QED BY <3>2 DEF Posted
  <2> QED BY <1>1, <1>2, <2>1, <2>2, <2>3, ToldGood
<1> QED BY <1>1, <1>2, <1>5, <1>6, <1>7, <1>8, WithListStep

-----------------------------------------------------------------------------
(* The lane, as each operation leaves it. *)
LEMMA LaneSame ==
  ASSUME IInv, NEW c \in Calls, NEW r, UNCHANGED gateVars,
         call[c].step # "listing"
  PROVE  GateInv' /\ LaneStep(c, r)
<1>1. GateInv'
  BY DEF IInv, gateVars, GateInv, GateTypeOK, LineInv, CountInv, Running, OverrunOnlyByOvertaking
<1>2. ~InLane(state[c]) /\ state' = state
  BY DEF IInv, LaneInv, gateVars
<1> QED BY <1>1, <1>2 DEF LaneStep, InLane

LEMMA LaneEntered ==
  ASSUME IInv, NEW c \in Calls, NEW r, RunWaits(c) \/ RunStarts(c), r.step = "listing"
  PROVE  GateInv' /\ LaneStep(c, r)
<1>1. GateInv'
  BY WaitsGate, StartsGate DEF IInv
<1>2. \A d \in Calls : d # c => state'[d] = state[d]
  BY DEF RunWaits, RunStarts, Start, IInv, GateInv, GateTypeOK
<1> QED BY <1>1, <1>2 DEF LaneStep

LEMMA LaneLeft ==
  ASSUME IInv, NEW c \in Calls, NEW r, Finish(c)
  PROVE  GateInv' /\ LaneStep(c, r) /\ call[c].step = "listing"
<1>1. GateInv'
  BY FinishGate DEF IInv
<1>2. /\ \A d \in Calls : d # c => state'[d] = state[d]
      /\ state'[c] = "done" /\ state[c] = "running"
  BY DEF Finish, IInv, GateInv, GateTypeOK
<1> QED BY <1>1, <1>2 DEF LaneStep, InLane, IInv, LaneInv

(* What a call brings, and the clock and the boundaries with it. *)
LEMMA Still ==
  ASSUME IInv, UNCHANGED <<now, knownAt>>
  PROVE  World
  BY DEF IInv, ListingTypeOK, World

(* The operations, one by one. *)
LEMMA AskStep ==
  ASSUME IInv, NEW c \in Calls, NEW w \in What, Ask(c, w)
  PROVE  IInv'
<1> DEFINE made == [call EXCEPT ![c].what = w, ![c].asked = now]
<1>0. ListingTypeOK /\ call \in [Calls -> Asked] /\ now \in Nat
  BY DEF IInv, ListingTypeOK
<1>1. PICK q \in Asked : q.what = w /\ q.asked = now /\ made = [call EXCEPT ![c] = q]
  <2>1. PICK p \in Asked : p = call[c]
    BY <1>0
  <2>2. PICK q : q = [p EXCEPT !.what = w, !.asked = now]
    OBVIOUS
  <2>3. q \in Asked /\ q.what = w /\ q.asked = now
    <3>1. PICK o : o = [p EXCEPT !.what = w]
      OBVIOUS
    <3>2. o \in Asked /\ o.what = w
      BY <3>1 DEF Asked
    <3>3. q = [o EXCEPT !.asked = now]
      BY <2>2, <3>1
    <3> QED BY <1>0, <3>2, <3>3 DEF Asked
  <2>4. made = [call EXCEPT ![c] = q]
    BY <1>0, <2>1, <2>2
  <2> QED BY <2>3, <2>4
<1>2. q.asked <= now /\ made = [call EXCEPT ![c] = q]
  BY <1>0, <1>1
<1>3. World /\ Keeps /\ call[c].step = "unmade"
  BY Still DEF Ask, Keeps
<1>5. CASE Fresh(w) /\ call' = Answered(made, c, cache[w].value) /\ UNCHANGED gateVars
  <2> DEFINE r == Told(q, cache[w].value)
  <2>1. r \in Asked /\ Good(r)
    BY <1>1, <1>5, FreshGood
  <2>2. Moves(c, r)
    BY <1>0, <1>2, <1>5, OutcomeTold
  <2>3. GateInv' /\ LaneStep(c, r)
    BY <1>3, <1>5, LaneSame
  <2> HIDE DEF r
  <2> QED BY <1>3, <2>1, <2>2, <2>3, CallStep
<1>6. CASE call' = At(made, c, "reading") /\ UNCHANGED gateVars
  <2> DEFINE r == Stepped(q, "reading")
  <2>1. r \in Asked /\ Good(r)
    BY <1>0, <1>1, <1>2, SteppedGood
  <2>2. Moves(c, r)
    BY <1>0, <1>2, <1>6, OutcomeAt
  <2>3. GateInv' /\ LaneStep(c, r)
    BY <1>3, <1>6, LaneSame
  <2> HIDE DEF r
  <2> QED BY <1>3, <2>1, <2>2, <2>3, CallStep
<1>7. CASE /\ w.kind = "quote" /\ Fresh(List) /\ UNCHANGED gateVars
           /\ call' = WithList(made, c, cache[List].value)
  <2>1. cache[List].value \in Value
    BY <1>7, Initially DEF Fresh, IInv, ListingTypeOK, Entry
  <2>2. q.what.kind # "list"
    BY <1>1, <1>7
  <2>3. PICK r \in Asked : Good(r) /\ Moves(c, r) /\ r.step # "listing"
    BY <1>1, <1>2, <1>7, <2>1, <2>2, WithListStep
  <2>4. GateInv' /\ LaneStep(c, r)
    BY <1>3, <1>7, LaneSame
  <2> QED BY <1>3, <2>3, <2>4, CallStep
<1>8. CASE call' = At(made, c, "listing") /\ (RunWaits(c) \/ RunStarts(c))
  <2> DEFINE r == Stepped(q, "listing")
  <2>1. r \in Asked /\ Good(r) /\ r.step = "listing"
    BY <1>0, <1>1, <1>2, SteppedGood
  <2>2. Moves(c, r)
    BY <1>0, <1>2, <1>8, OutcomeAt
  <2>3. GateInv' /\ LaneStep(c, r)
    BY <1>8, <2>1, LaneEntered
  <2> HIDE DEF r
  <2> QED BY <1>3, <2>1, <2>2, <2>3, CallStep
<1> QED BY <1>5, <1>6, <1>7, <1>8 DEF Ask

LEMMA WokenStep ==
  ASSUME IInv, Woken
  PROVE  IInv'
<1>1. PICK c \in Calls : c = Head(woken) /\ state[c] = "waiting"
  <2>1. woken \in Seq(Calls) /\ woken # <<>>
    BY DEF Woken, Resume, IInv, GateInv, GateTypeOK
  <2>2. Head(woken) = woken[1] /\ Head(woken) \in Calls /\ 1 \in 1 .. Len(woken)
    BY <2>1
  <2> QED BY <2>2 DEF IInv, GateInv, LineInv
<1> DEFINE q == call[c]
           r == Stepped(q, "listing")
<1>2. ListingTypeOK /\ call \in [Calls -> Asked] /\ q \in Asked /\ q.asked <= now
  BY DEF IInv, ListingTypeOK, CallsGood, Good
<1>3. r \in Asked /\ Good(r) /\ r.step = "listing"
  BY <1>2, SteppedGood
<1>4. call = [call EXCEPT ![c] = q]
  BY <1>2
<1>5. Moves(c, r)
  <2>1. call' = At(call, c, "listing")
    BY <1>1 DEF Woken
  <2> QED BY <1>2, <1>4, <2>1, OutcomeAt
<1>6. World /\ Keeps
  BY Still DEF Woken, Keeps
<1>7. GateInv'
  BY ResumeGate DEF Woken, IInv
<1>8. LaneStep(c, r)
  BY <1>1, <1>3 DEF Woken, Resume, Start, LaneStep, IInv, GateInv, GateTypeOK
<1> HIDE DEF r
<1> QED BY <1>3, <1>5, <1>6, <1>7, <1>8, CallStep

LEMMA RowsStep ==
  ASSUME IInv, NEW c \in Calls, Rows(c)
  PROVE  IInv'
<1> DEFINE q == call[c]
<1>1. World
  BY Still DEF Rows
<1>2. Finish(c) /\ GateInv' /\ call[c].step = "listing" /\ \A r : LaneStep(c, r)
  BY LaneLeft DEF Rows
<1>3. /\ call \in [Calls -> Asked] /\ q \in Asked /\ q.asked <= now /\ q.asked <= q.since
      /\ q.asked \in Nat /\ q.since \in Nat /\ q.what \in What
      /\ call = [call EXCEPT ![c] = q]
  BY <1>2 DEF IInv, ListingTypeOK, CallsGood, Good, Asked
<1>4. Known \subseteq Markets /\ Posted(Known, q.asked)
  BY DEF Known, Posted
<1>5. CASE q.what.kind = "settled"
  <2> DEFINE v == Read(q.since)
             r == Told(q, v)
  <2>1. v \in Value /\ v.read = q.since /\ v.listed = {}
    BY <1>3 DEF Read, Value
  <2>2. q.asked - v.read <= Ttl[q.what.kind]
    BY <1>3, <2>1, ListKinds
  <2> HIDE DEF v
  <2>3. r \in Asked /\ Good(r)
    BY <1>3, <1>5, <2>1, <2>2, ToldGood
  <2>4. Moves(c, r) /\ Keeps
    <3>1. call' = Answered(call, c, v) /\ cache' = cache
      BY <1>5 DEF Rows, v
    <3> QED BY <1>3, <3>1, OutcomeTold DEF Keeps
  <2> HIDE DEF r
  <2> QED BY <1>1, <1>2, <2>3, <2>4, CallStep
<1>6. CASE q.what.kind # "settled" /\ Known = Markets
  <2>1. Complete(c, Known)
    BY <1>6 DEF Rows, Hits
  <2>2. PICK r \in Asked : Good(r) /\ Moves(c, r)
    BY <1>2, <1>4, <2>1, CompleteStep
  <2>3. Keeps
    BY <1>2, <1>4, <2>1, CompleteStep
  <2> QED BY <1>1, <1>2, <2>2, <2>3, CallStep
<1>7. CASE q.what.kind # "settled" /\ Known # Markets
  <2> DEFINE r == [q EXCEPT !.step = "pricing", !.priced = Known, !.left = Markets \ Known]
  <2>1. r \in Asked
    BY <1>3, <1>4 DEF Asked
  <2>2. /\ r.step = "pricing" /\ r.priced = Known /\ r.asked = q.asked /\ r.since = q.since
    BY <1>3 DEF Asked
  <2>3. Good(r)
    BY <1>3, <1>4, <2>2 DEF Good
  <2>4. Moves(c, r) /\ Keeps
    BY <1>3, <1>7 DEF Rows, Hits, Moves, Keeps
  <2> HIDE DEF r
  <2> QED BY <1>1, <1>2, <2>1, <2>3, <2>4, CallStep
<1> QED BY <1>5, <1>6, <1>7

LEMMA FailedStep ==
  ASSUME IInv, NEW c \in Calls, NoRows(c) \/ ReadFails(c)
  PROVE  IInv'
<1>1. World /\ Keeps
  BY Still DEF NoRows, ReadFails, Keeps
<1>2. Lost \in Asked /\ Good(Lost)
  BY LostGood DEF IInv
<1>3. Moves(c, Lost)
  BY DEF NoRows, ReadFails, Failed, Moves, Lost
<1>4. GateInv' /\ LaneStep(c, Lost)
  BY LaneLeft, LaneSame DEF NoRows, ReadFails
<1> QED BY <1>1, <1>2, <1>3, <1>4, CallStep

LEMMA ResolvedStep ==
  ASSUME IInv, NEW c \in Calls, NEW m \in Markets, NEW found \in BOOLEAN, Resolved(c, m, found)
  PROVE  IInv'
<1> DEFINE q == call[c]
           priced == q.priced \cup {x \in {m} : found}
<1>1. /\ q \in Asked /\ q.step = "pricing" /\ q.asked <= now /\ q.asked <= q.since
      /\ Posted(q.priced, q.asked) /\ call \in [Calls -> Asked]
  BY DEF Resolved, IInv, ListingTypeOK, CallsGood, Good
<1>2. priced \in SUBSET Markets /\ Posted(priced, q.asked)
  BY <1>1 DEF Posted, Asked
<1>3. World
  BY DEF Resolved, IInv, ListingTypeOK, World
<1>4. GateInv' /\ \A r : LaneStep(c, r)
  BY <1>1, LaneSame DEF Resolved
<1>5. CASE q.left = {m}
  <2>1. Complete(c, priced)
    BY <1>5 DEF Resolved
  <2> HIDE DEF priced
  <2>2. PICK r \in Asked : Good(r) /\ Moves(c, r)
    BY <1>1, <1>2, <2>1, CompleteStep
  <2>3. Keeps
    BY <1>1, <1>2, <2>1, CompleteStep
  <2> QED BY <1>3, <1>4, <2>2, <2>3, CallStep
<1>6. CASE q.left # {m}
  <2> DEFINE r == [q EXCEPT !.left = @ \ {m}, !.priced = priced]
  <2>1. call' = [call EXCEPT ![c] = r] /\ cache' = cache
    BY <1>1, <1>6 DEF Resolved
  <2> HIDE DEF priced
  <2>2. /\ r \in Asked /\ r.step = "pricing" /\ r.priced = priced
        /\ r.asked = q.asked /\ r.since = q.since
    BY <1>1, <1>2 DEF Asked
  <2>3. Good(r)
    BY <1>1, <1>2, <2>2 DEF Good
  <2> HIDE DEF r
  <2> QED BY <1>3, <1>4, <2>1, <2>2, <2>3, CallStep DEF Moves, Keeps
<1> QED BY <1>5, <1>6

LEMMA ReadStep ==
  ASSUME IInv, NEW c \in Calls, StatusRead(c) \/ BookRead(c)
  PROVE  IInv'
<1> DEFINE q == call[c]
           v == Read(q.since)
           r == Told(q, v)
           e == [value |-> v, at |-> q.asked]
<1>1. /\ q.step = "reading" /\ q.what.kind # "list"
      /\ call' = Answered(call, c, v) /\ cache' = [cache EXCEPT ![q.what] = e]
      /\ UNCHANGED gateVars /\ UNCHANGED <<now, knownAt>>
  BY DEF StatusRead, BookRead, ReadDone, Keep, Stamp
<1>2. /\ q \in Asked /\ q.asked <= now /\ q.asked <= q.since
      /\ q.asked \in Nat /\ q.since \in Nat /\ q.what \in What /\ q.what # List
      /\ call \in [Calls -> Asked] /\ call = [call EXCEPT ![c] = q]
  BY <1>1 DEF IInv, ListingTypeOK, CallsGood, Good, Asked, List
<1>3. v \in Value /\ v.read = q.since /\ v.listed = {}
  BY <1>2 DEF Read, Value
<1>4. q.asked - v.read <= Ttl[q.what.kind]
  BY <1>2, <1>3, ListKinds
<1>5. Moves(c, r)
  BY <1>1, <1>2, OutcomeTold
<1> HIDE DEF v
<1>6. r \in Asked /\ Good(r)
  BY <1>1, <1>2, <1>3, <1>4, ToldGood
<1>7. e \in Entry /\ GoodEntry(q.what, e)
  BY <1>2, <1>3 DEF Entry, GoodEntry
<1>8. Keeps
  BY <1>1, <1>2, <1>7 DEF Keeps
<1>9. World /\ GateInv' /\ LaneStep(c, r)
  BY <1>1, Still, LaneSame
<1> HIDE DEF r
<1> QED BY <1>5, <1>6, <1>8, <1>9, CallStep

LEMMA PassStep ==
  ASSUME IInv, Pass \/ UNCHANGED vars
  PROVE  IInv'
<1>1. /\ UNCHANGED <<state, active, queue, woken, ahead, overtakers>>
      /\ call' = call /\ cache' = cache /\ knownAt' = knownAt
      /\ now' = now + 1 \/ now' = now
  BY DEF Pass, vars, gateVars
<1>2. World
  BY <1>1 DEF World, IInv, ListingTypeOK
<1>3. GateInv'
  BY <1>1 DEF IInv, GateInv, GateTypeOK, LineInv, CountInv, Running, OverrunOnlyByOvertaking
<1>4. LaneInv'
  BY <1>1 DEF IInv, LaneInv, InLane
<1>5. /\ call' \in [Calls -> Asked] /\ cache' \in [What -> Entry \cup {Nothing}]
      /\ \A d \in Calls : Good(call'[d])
      /\ \A w \in What : cache'[w] # Nothing => GoodEntry(w, cache'[w])
  BY <1>1 DEF IInv, ListingTypeOK, CallsGood, CacheGood
<1> QED BY <1>2, <1>3, <1>4, <1>5, WorldStep

LEMMA InitIInv == Init => IInv
<1> SUFFICES ASSUME Init PROVE IInv
  OBVIOUS
<1>1. GateInv
  BY GateInitInv DEF Init
<1>2. ListingTypeOK
  BY Initially DEF Init, ListingTypeOK
<1>3. CallsGood /\ CacheGood
  BY DEF Init, CallsGood, CacheGood, Good, Unmade
<1>4. LaneInv
  BY DEF Init, GateInit, LaneInv, InLane
<1> QED BY <1>1, <1>2, <1>3, <1>4 DEF IInv

THEOREM Inductive == Spec => []IInv
<1>1. IInv /\ [Next]_vars => IInv'
  <2> SUFFICES ASSUME IInv, [Next]_vars PROVE IInv'
    OBVIOUS
  <2>1. ASSUME NEW c \in Calls, NEW w \in What, Ask(c, w) PROVE IInv'
    BY <2>1, AskStep
  <2>2. CASE Woken
    BY <2>2, WokenStep
  <2>3. ASSUME NEW c \in Calls, Rows(c) PROVE IInv'
    BY <2>3, RowsStep
  <2>4. ASSUME NEW c \in Calls, NoRows(c) \/ ReadFails(c) PROVE IInv'
    BY <2>4, FailedStep
  <2>5. ASSUME NEW c \in Calls, StatusRead(c) \/ BookRead(c) PROVE IInv'
    BY <2>5, ReadStep
  <2>6. ASSUME NEW c \in Calls, NEW m \in Markets, NEW found \in BOOLEAN, Resolved(c, m, found)
        PROVE  IInv'
    BY <2>6, ResolvedStep
  <2>7. CASE Pass \/ UNCHANGED vars
    BY <2>7, PassStep
  <2> QED BY <2>1, <2>2, <2>3, <2>4, <2>5, <2>6, <2>7 DEF Next
<1> QED BY <1>1, InitIInv, PTL DEF Spec

-----------------------------------------------------------------------------
(* The lane of the indexer is over its limit by at most one task for each     *)
(* call that overtook a woken one (gate.ts:21-34).                          *)
THEOREM LimitKept == Spec => []OverrunOnlyByOvertaking
<1>1. IInv => OverrunOnlyByOvertaking
  BY DEF IInv, GateInv
<1> QED BY <1>1, Inductive, PTL

(* Whatever comes from a cache was read no longer before the call than the    *)
(* cache may serve, and its markets had their time to live less that much    *)
(* (dreamdex.ts:386-401, 443-481).                                          *)
THEOREM AnswersAlwaysFresh == Spec => []AnswersFresh
<1>1. IInv => AnswersFresh
  BY DEF IInv, CallsGood, Good, GoodAnswer, AnswersFresh, Answers
<1> QED BY <1>1, Inductive, PTL

(* A boundary once found is in every listing that still holds its market and   *)
(* was asked for later than the cache may serve (dreamdex.ts:411-429,        *)
(* boundary.ts:92-94).                                                      *)
THEOREM BoundariesStay == Spec => []KnownBoundaryPosted
<1>1. IInv => KnownBoundaryPosted
  BY DEF IInv, CallsGood, Good, GoodAnswer, NotOwed, KnownBoundaryPosted, Answers
<1> QED BY <1>1, Inductive, PTL
=============================================================================
