---------------------------- MODULE Erythrocyte ----------------------------
(***************************************************************************)
(* The erythrocyte (erythrocyte.py) over one weight of the matrix: the     *)
(* share of its recent changes that the system accounts for                *)
(* (trace_gap.py) and the variance of what they wrote.                     *)
(***************************************************************************)
EXTENDS CriticalityMatrix, FiniteSets, Functions

CONSTANTS
  MinSamples,         \* shorter histories are not judged
  VarianceThreshold   \* of a weight, in squared units

ASSUME ErythrocyteAssumption ==
  MinSamples \in Nat /\ VarianceThreshold \in Nat

\* Mutant: the loop's own writes are not on the allowlist.
LegitimateSourcesTooFew == {"erythrocyte_correction"}

\* LEGITIMATE_SOURCES
LegitimateSources == {"update_loop", "erythrocyte_correction"}

\* trace_gap: how many entries of the history have a source on the list.
Accounted(h) == Cardinality({i \in DOMAIN h : h[i].source \in LegitimateSources})

\* provenance_ratio < 0.7, in integers; the ratio of an empty history is 1.
Untrustworthy(h) == h # <<>> /\ 10 * Accounted(h) < 7 * Len(h)

\* calculate_variance(values) > threshold, multiplied by n * (n - 1).
Volatile(h) ==
  LET n == Len(h)
      sum == SumFunction([i \in 1..n |-> h[i].new])
      squares == SumFunction([i \in 1..n |-> h[i].new * h[i].new])
  IN  n > 1 /\ n * squares - sum * sum > VarianceThreshold * n * (n - 1)

\* scan_matrix: what it finds of a weight.
PoisoningCandidate(w) ==
  /\ Len(w.history) >= MinSamples
  /\ w.value # w.baseline
  /\ Untrustworthy(w.history)

Distortion(w) == IF Volatile(w.history) THEN "oscillating" ELSE "static"

Findings(m) == {<<n, Distortion(m[n])>> : n \in {k \in DOMAIN m : PoisoningCandidate(m[k])}}
=============================================================================
