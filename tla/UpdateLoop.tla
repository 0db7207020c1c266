----------------------------- MODULE UpdateLoop -----------------------------
(***************************************************************************)
(* The update loop U (core_engine.py).  step() is synchronous: one action, *)
(* from the error to the threshold's update.  A critical error             *)
(* recalibrates adaptability; a shock also asks the Bearer to reset the    *)
(* model, and a refusal rolls the recalibration back if TruthPriority is   *)
(* in force; then the erythrocyte scans the matrix and each new finding is *)
(* reported, an oscillating one to the Bearer, who may let it be corrected.*)
(*                                                                         *)
(* An error is its absolute value, in units of which 0.1 moves             *)
(* adaptability by one grid unit per unit of excess.  The model's own      *)
(* estimate is left out: it only produces the next error.                  *)
(***************************************************************************)
EXTENDS Erythrocyte

CONSTANTS
  Errors,      \* the errors that step() is called with
  Thresholds   \* what the threshold strategy ranges over; {t} if it is fixed

ASSUME LoopAssumption ==
  /\ Errors \subseteq Nat
  /\ Thresholds \subseteq Nat \ {0} /\ Thresholds # {}
  /\ "adaptability" \notin Canonical
  /\ \A r \in Registrations : r.name = "adaptability" => ~r.immutable

VARIABLES
  threshold,  \* strategy.current_threshold()
  flagged,    \* _erythrocyte_already_flagged
  reported    \* history: the findings reported so far

loopVars == <<weights, threshold, flagged, reported>>

ShockMultiplier == 3

LoopInit ==
  /\ MatrixInit
  /\ threshold \in Thresholds
  /\ flagged = {}
  /\ reported = {}

-----------------------------------------------------------------------------
(* The parts of a step *)

Smaller(a, b) == IF a < b THEN a ELSE b
Larger(a, b) == IF a > b THEN a ELSE b

\* _recalibrate: the change of the weight itself.
Recalibrated(w, e) ==
  Touched(w, Smaller(Top, w.value + (e - threshold)), "update_loop")

\* Mutant: the rollback takes back the error, not its excess.
RolledBackWhole(w, e) ==
  Touched(w, Larger(0, w.value - e), "truth_priority_rollback")

\* Mutant: the rollback does not reach the history.
RolledBackSilently(w, e) ==
  [w EXCEPT !.value = Larger(0, w.value - (e - threshold))]

\* The rollback at the end of _handle_irreversible_action.
RolledBack(w, e) ==
  Touched(w, Larger(0, w.value - (e - threshold)), "truth_priority_rollback")

\* matrix.get("TruthPriority") >= 1.0; a matrix without it counts as 0.
TruthPriorityHolds ==
  "TruthPriority" \in DOMAIN weights /\ weights["TruthPriority"].value >= Top

\* Mutant: a weight is flagged once, whatever was found.
FlagKeyByName(f) == f[1]

\* Under which key a finding is remembered.
FlagKey(f) == f

\* _run_erythrocyte_scan of the matrix m.  The Bearer approves some of the
\* corrections.  update() would raise for a protected weight, in the middle of
\* the step; CorrectionNeverRefused says that none is ever escalated.
Scan(m) ==
  LET new == {f \in Findings(m) : FlagKey(f) \notin flagged}
      escalated == {n \in DOMAIN m : <<n, "oscillating">> \in new}
  IN  /\ flagged' = flagged \cup {FlagKey(f) : f \in new}
      /\ reported' = reported \cup new
      /\ \E approved \in SUBSET {n \in escalated : MayUpdate(n)} :
           weights' = [n \in DOMAIN m |->
             IF n \in approved THEN Touched(m[n], m[n].baseline, "erythrocyte_correction")
             ELSE m[n]]

\* strategy.observe: a fixed threshold stays; the adaptive one, 1.5 times an
\* average of the errors, moves towards 1.5 times this one and not beyond.
Observe(e) ==
  \E t \in Thresholds :
    /\ \/ 2 * t \in (2 * threshold)..(3 * e)
       \/ 2 * t \in (3 * e)..(2 * threshold)
       \/ t = threshold
    /\ threshold' = t

-----------------------------------------------------------------------------
(* step(), by what the error and the Bearer make of it *)

Registered == {"adaptability", "BearerIntegrity"} \subseteq DOMAIN weights

Adaptability == weights["adaptability"]

Calm(e) ==
  /\ Registered
  /\ e <= threshold
  /\ Observe(e)
  /\ UNCHANGED <<weights, flagged, reported>>

Ordinary(e) ==
  /\ Registered
  /\ e > threshold /\ e <= ShockMultiplier * threshold
  /\ Scan([weights EXCEPT !["adaptability"] = Recalibrated(@, e)])
  /\ Observe(e)

\* The Bearer lets the model be reset: the recalibration stays.
ShockApproved(e) ==
  /\ Registered
  /\ e > ShockMultiplier * threshold
  /\ Scan([weights EXCEPT !["adaptability"] = Recalibrated(@, e)])
  /\ Observe(e)

\* The Bearer refuses the reset.
ShockDenied(e) ==
  /\ Registered
  /\ e > ShockMultiplier * threshold
  /\ Scan([weights EXCEPT !["adaptability"] =
             IF TruthPriorityHolds THEN RolledBack(Recalibrated(@, e), e)
             ELSE Recalibrated(@, e)])
  /\ Observe(e)

\* A step whose error is critical, and hence ends with a scan.
CriticalStep ==
  \E e \in Errors :
    Ordinary(e) \/ ShockApproved(e) \/ ShockDenied(e)

LoopNext ==
  \/ \E e \in Errors : Calm(e)
  \/ CriticalStep
  \/ (Outside \/ \E r \in Registrations : Register(r))
     /\ UNCHANGED <<threshold, flagged, reported>>

LoopSpec == LoopInit /\ [][LoopNext]_loopVars

-----------------------------------------------------------------------------
(* Properties *)

\* The loop's variables: findings are of known names and kinds.
LoopTypeOK ==
  /\ MatrixTypeOK
  /\ threshold \in Thresholds
  /\ reported \subseteq Name \X {"static", "oscillating"}

\* "each (weight, classification) pair"; "if a weight's classification changes
\* it is treated as a new finding and reported again" (:761-764): whatever is
\* wrong with a weight after a scan has been reported, in this step or before.
EveryFindingIsReported ==
  [][CriticalStep => Findings(weights') \subseteq reported']_loopVars

\* The history of a weight, before or after a step, has an entry of one of
\* these sources.
Witnessed(n, sources) ==
  \E h \in {weights[n].history, weights'[n].history} :
    \E i \in DOMAIN h : h[i].source \in sources

\* An untraced write is what a finding is about ("anything else is an
\* untraced, direct write", HistoryEntry): a weight the loop alone has written
\* is never reported.
AccusesOnlyOutsiders ==
  [][\A f \in reported' \ reported : Witnessed(f[1], {"untraced"})]_loopVars

\* What does hold: no finding without an untraced write or a rollback.  The
\* loop's recalibrations and corrections alone accuse nobody.
AccusesOnlyUntraced ==
  [][\A f \in reported' \ reported :
       Witnessed(f[1], {"untraced", "truth_priority_rollback"})]_loopVars

\* A refused reset under TruthPriority leaves adaptability where the step
\* found it, or below if the recalibration met the ceiling, or at the baseline
\* if the scan corrected it: "preventing reality distortion" (:880).
DenialHidesNothing ==
  [][\A e \in Errors :
       ShockDenied(e) /\ TruthPriorityHolds =>
         LET new == weights'["adaptability"].value
         IN  \/ new = Adaptability.value
             \/ new < Adaptability.value /\ Adaptability.value + (e - threshold) > Top
             \/ new = Adaptability.baseline /\ reported' # reported]_loopVars

\* Only a volatile history is escalated, and a protected weight has none: an
\* approved correction is never refused by the guards in the middle of a step.
CorrectionNeverRefused ==
  \A n \in DOMAIN weights : ~MayUpdate(n) => <<n, "oscillating">> \notin Findings(weights)
=============================================================================
