-------------------------- MODULE CalibrationChecks --------------------------
(***************************************************************************)
(* What the scores of Calibration.tla promise, over every record of up to  *)
(* MaxRecord forecasts on the markets of Questions.                        *)
(***************************************************************************)
EXTENDS Calibration

CONSTANTS Questions, MaxRecord

ASSUME RecordAssumption == IsFiniteSet(Questions) /\ MaxRecord \in Nat \ {0}

Records == UNION {[1 .. n -> [market : Questions, p : 0 .. Whole]] : n \in 1 .. MaxRecord}
Truths == UNION {[resolved -> {0, 1}] : resolved \in SUBSET Questions}
HasRecord(fs, truth) == Scoreable(fs, truth) # {}

(* What a forecaster discriminates is never more than there was to tell      *)
(* apart, whatever the bins mix: the record's resolution is at most its      *)
(* uncertainty.                                                             *)
ASSUME ResolutionIsBounded ==
  \A fs \in Records, truth \in Truths :
    HasRecord(fs, truth) => Resolution(fs, truth) <= Uncertainty(fs, truth)

(* The three parts add up to the score on a record whose bins hold one       *)
(* confidence each.                                                         *)
OneConfidencePerBin(fs, truth) ==
  \A i, j \in Scoreable(fs, truth) : Bin(fs[i].p) = Bin(fs[j].p) => fs[i].p = fs[j].p

Decomposes(fs, truth) ==
  Brier(fs, truth) = Reliability(fs, truth) - Resolution(fs, truth) + Uncertainty(fs, truth)

ASSUME DecomposesByConfidence ==
  \A fs \in Records, truth \in Truths :
    (HasRecord(fs, truth) /\ OneConfidencePerBin(fs, truth)) => Decomposes(fs, truth)

(* What calibration.ts says of every record.  The code does not keep this:   *)
(* see the README.                                                          *)
DecomposesAlways ==
  \A fs \in Records, truth \in Truths : HasRecord(fs, truth) => Decomposes(fs, truth)

(* It has a counterexample among the records of these bounds: two            *)
(* confidences of one bin.                                                  *)
ASSUME BinsMixConfidences ==
  \E m \in Questions : LET fs == <<[market |-> m, p |-> 1], [market |-> m, p |-> 0]>>
                       IN Bin(1) = Bin(0) /\ MaxRecord >= 2 => ~ Decomposes(fs, (m :> 1))

(* The calibration curve has every scored forecast in one bucket, and its    *)
(* stated confidence is within the bucket's bounds.                         *)
ASSUME CurveIsComplete ==
  \A fs \in Records, truth \in Truths :
    LET curve == Buckets(fs, truth)
    IN /\ MapThenSumSet(LAMBDA k : curve[k].n, DOMAIN curve) = Cardinality(Scoreable(fs, truth))
       /\ \A k \in DOMAIN curve :
            /\ k * Whole * curve[k].n <= Bins * curve[k].stated
            /\ Bins * curve[k].stated <= (k + 1) * Whole * curve[k].n
            /\ curve[k].observed <= curve[k].n

(* On the same markets there is one verdict: a person who is ahead of MIRA   *)
(* has MIRA behind, and a forecast on a market MIRA has no view of, or that  *)
(* has not resolved, changes nothing.                                       *)
Opposite(verdict) ==
  CASE verdict = "ahead" -> "behind" [] verdict = "behind" -> "ahead" [] OTHER -> verdict

ASSUME VerdictIsMutual ==
  \A views \in [Questions -> 0 .. Whole], mine \in [Questions -> 0 .. Whole], truth \in Truths :
    LET order == SetToSeq(Questions)
        record(v) == [i \in DOMAIN order |-> [market |-> order[i], p |-> v[order[i]]]]
    IN HeadToHead(record(mine), views, truth) = Opposite(HeadToHead(record(views), mine, truth))

ASSUME VerdictIsOnCommonMarkets ==
  \A views \in UNION {[seen -> 0 .. Whole] : seen \in SUBSET Questions},
     fs \in Records, truth \in Truths :
    LET common == SelectSeq(fs, LAMBDA f : f.market \in DOMAIN views \cap DOMAIN truth)
    IN HeadToHead(fs, views, truth) = HeadToHead(common, views, truth)
=============================================================================
