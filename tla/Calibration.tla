----------------------------- MODULE Calibration -----------------------------
(***************************************************************************)
(* A spectator's record (api/calibration.ts): the Brier score of the       *)
(* forecasts whose markets have resolved, its decomposition over bins of   *)
(* stated confidence, and the comparison with MIRA on the same markets.    *)
(*                                                                         *)
(* Probabilities are integers out of Whole.  The means the code takes of n *)
(* forecasts are fractions; Scale(n) is a multiple of their denominators,  *)
(* and every score is given times Scale(n).                                *)
(***************************************************************************)
EXTENDS Integers, FiniteSetsExt, SequencesExt

CONSTANTS
  Whole,       \* certainty
  Bins         \* bins of stated confidence

ASSUME CalibrationAssumption == Whole \in Nat \ {0} /\ Bins \in Nat \ {0}

Square(n) == n * n


(* resolvedYes(): truth has the resolved markets only, 1 for YES.  A record  *)
(* is the positions of the forecasts that can be scored.                    *)
Scoreable(fs, truth) == {i \in DOMAIN fs : fs[i].market \in DOMAIN truth}
Yes(fs, truth, i) == truth[fs[i].market]
Hits(fs, truth, S) == MapThenSumSet(LAMBDA i : Yes(fs, truth, i), S)
Stated(fs, S) == MapThenSumSet(LAMBDA i : fs[i].p, S)

(* The bin of a forecast; certainty goes with the last. *)
Bin(p) == Min({Bins - 1, (p * Bins) \div Whole})
Group(fs, truth, k) == {i \in Scoreable(fs, truth) : Bin(fs[i].p) = k}
Groups(fs, truth) == {Group(fs, truth, k) : k \in 0 .. Bins - 1} \ {{}}

Ways[n \in Nat] == IF n = 0 THEN 1 ELSE n * Ways[n - 1]
Scale(n) == n * n * n * Square(Whole) * Ways[n]

(* murphy(). *)
Brier(fs, truth) ==
  LET S == Scoreable(fs, truth) n == Cardinality(S)
  IN Square(n) * Ways[n] * MapThenSumSet(LAMBDA i : Square(fs[i].p - Whole * Yes(fs, truth, i)), S)

Reliability(fs, truth) ==
  LET n == Cardinality(Scoreable(fs, truth))
      part(G) == (Ways[n] \div Cardinality(G)) * Square(Stated(fs, G) - Whole * Hits(fs, truth, G))
  IN Square(n) * MapThenSumSet(part, Groups(fs, truth))

Resolution(fs, truth) ==
  LET S == Scoreable(fs, truth) n == Cardinality(S)
      part(G) == (Ways[n] \div Cardinality(G))
                   * Square(n * Hits(fs, truth, G) - Cardinality(G) * Hits(fs, truth, S))
  IN Square(Whole) * MapThenSumSet(part, Groups(fs, truth))

Uncertainty(fs, truth) ==
  LET S == Scoreable(fs, truth) n == Cardinality(S) hits == Hits(fs, truth, S)
  IN hits * (n - hits) * n * Square(Whole) * Ways[n]

(* calibrationBuckets(): the forecasts of each bucket and how many came true. *)
Buckets(fs, truth) ==
  [k \in 0 .. Bins - 1 |-> [n |-> Cardinality(Group(fs, truth, k)),
                            stated |-> Stated(fs, Group(fs, truth, k)),
                            observed |-> Hits(fs, truth, Group(fs, truth, k))]]

(* headToHead(): on the forecasts MIRA has a view of the market of. *)
HeadToHead(fs, views, truth) ==
  LET pairs == {i \in Scoreable(fs, truth) : fs[i].market \in DOMAIN views}
      user == MapThenSumSet(LAMBDA i : Square(fs[i].p - Whole * Yes(fs, truth, i)), pairs)
      mira == MapThenSumSet(LAMBDA i : Square(views[fs[i].market] - Whole * Yes(fs, truth, i)), pairs)
  IN CASE pairs = {} -> "untested"
       [] pairs # {} /\ user = mira -> "level"
       [] pairs # {} /\ user < mira -> "ahead"
       [] pairs # {} /\ user > mira -> "behind"
=============================================================================
