------------------------------ MODULE Scoring ------------------------------
(***************************************************************************)
(* The pure scoring functions of the strategic brain                       *)
(* (strategic-brain/scoring.util.ts and the parts of finalizeWindow that   *)
(* touch no database).  Scores and slopes are in hundredths of a point,    *)
(* weights and rates in per cent, confidence in ten-thousandths; a missing *)
(* value (null) is the empty set and a present one a singleton, so that    *)
(* the null policy is set algebra.                                         *)
(***************************************************************************)
EXTENDS Integers, FiniteSets, Sequences, FiniteSetsExt

ScoreThreshold == 5000       \* RETENTION_SCORE_THRESHOLD
SampleTarget == 20           \* CONFIDENCE_SAMPLE_N_TARGET
FallbackPenalty == 85        \* PEER_FALLBACK_CONFIDENCE_PENALTY
NotMeaningfulPenalty == 70   \* PEER_NOT_MEANINGFUL_CONFIDENCE_PENALTY
ConfidenceMin == 5000        \* RETENTION_CONFIDENCE_MIN, CARD_RETENTION_CONFIDENCE_MIN
\* A score of 100 points, and 1.0 of a confidence or a rate.
Whole == 10000

Null == {}
The(S) == CHOOSE x \in S : TRUE
Clamp(lo, x, hi) == IF x < lo THEN lo ELSE IF x > hi THEN hi ELSE x
Nearest(x, y) == (2 * x + y) \div (2 * y)

\* defectRate, as the quality dimension (1 - rate) * 100: more complaints than
\* completed orders make it negative.
Quality(complaints, done) ==
    IF done < 1 THEN Null ELSE {Whole - Nearest(Whole * complaints, done)}

\* The SLA hit rate, as the timeliness dimension.
Timeliness(hits, done) == IF done < 1 THEN Null ELSE {Nearest(Whole * hits, done)}

\* compositeScore: dims maps the four dimensions to a value or Null.
CompositeScore(dims, weights) ==
    LET present == {k \in DOMAIN dims : dims[k] # Null}
        whole   == MapThenSumSet(LAMBDA k : weights[k], present)
    IN  IF Cardinality(present) < 2 \/ whole <= 0
        THEN Null
        ELSE {Nearest(MapThenSumSet(LAMBDA k : The(dims[k]) * weights[k], present), whole)}

\* developmentSlope: least squares over the positions of the series.
DevelopmentSlope(series, minValidWindows) ==
    LET n     == Len(series)
        Sum(f(_)) == MapThenSumSet(f, 1..n)
        st    == Sum(LAMBDA t : t)
        stt   == Sum(LAMBDA t : t * t)
        ss    == Sum(LAMBDA t : series[t])
        sts   == Sum(LAMBDA t : t * series[t])
        den   == n * stt - st * st
    IN  IF n < minValidWindows THEN Null
        ELSE IF den = 0 THEN {0}
        ELSE {Nearest(n * sts - st * ss, den)}

\* slopeToDevelopmentScore
DevelopmentScore(slope, minSlopeForGrowth) ==
    LET span == IF minSlopeForGrowth > 0 THEN minSlopeForGrowth ELSE 50
    IN  Clamp(0, 5000 + Nearest(slope * 2500, span), Whole)

\* normalizeToPeerGroup, over a set of peers with their throughput.
Percentile(value, peers, of) ==
    LET below == Cardinality({p \in peers : of[p] < value})
        equal == Cardinality({p \in peers : of[p] = value})
    IN  Nearest(Whole * (2 * below + equal), 2 * Cardinality(peers))

\* fallbackKeys: the members of `all` who share a key with e at each level of
\* the ladder position|unit|etat, position|unit, position, everyone.
Ladder(e, all, key) ==
    << {p \in all : key[p] = key[e]},
       {p \in all : key[p].position = key[e].position /\ key[p].unit = key[e].unit},
       {p \in all : key[p].position = key[e].position},
       all >>

\* The level finalizeWindow stops at: the first of sufficient size, or the last.
Level(ladder, minPeerGroupSize) ==
    Min({i \in 1..4 : Cardinality(ladder[i]) >= minPeerGroupSize} \cup {4})

\* confidence: sample size times tenure, each capped at one.
Confidence(sampleN, employed, minDays) ==
    LET sample == Clamp(0, (Whole * sampleN) \div SampleTarget, Whole)
        tenure == IF minDays > 0 THEN Clamp(0, (Whole * employed) \div minDays, Whole)
                  ELSE IF employed > 0 THEN Whole ELSE 0
    IN  (sample * tenure) \div Whole

\* The penalties finalizeWindow takes from the confidence of a row.
Penalised(c, fellBack, meaningful) ==
    LET once == IF fellBack THEN (c * FallbackPenalty) \div 100 ELSE c
    IN  IF meaningful THEN once ELSE (once * NotMeaningfulPenalty) \div 100

\* retentionSignal, with the null composite emitRetention and buildCard handle.
RetentionSignal(composite, slope, confidence, minSlopeForGrowth) ==
    IF composite = Null \/ confidence < ConfidenceMin \/ slope = Null THEN "OBSERWOWAC"
    ELSE IF The(composite) < ScoreThreshold
         THEN IF The(slope) > minSlopeForGrowth THEN "INWESTOWAC" ELSE "RYZYKO"
         ELSE IF The(slope) < 0 THEN "RYZYKO" ELSE "UTRZYMAC"

=============================================================================
