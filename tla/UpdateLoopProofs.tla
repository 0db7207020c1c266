-------------------------- MODULE UpdateLoopProofs --------------------------
(***************************************************************************)
(* What holds of the matrix and its update loop for every grid, history    *)
(* length, set of registrations and threshold strategy.                    *)
(***************************************************************************)
EXTENDS UpdateLoop, FiniteSetTheorems, WellFoundedInduction, TLAPS

\* A weight as the code keeps it, history included.
Sound(w) == w \in Weight /\ Len(w.history) <= HistoryMax /\ Chained(w)

\* A matrix of such weights; every canonical name was registered as immutable,
\* and adaptability was not: what the guard of register() and the programs see to.
SoundMatrix(m) ==
  /\ DOMAIN m \subseteq Name
  /\ \A n \in DOMAIN m :
       /\ Sound(m[n])
       /\ n \in Canonical => m[n].immutable
       /\ n = "adaptability" => ~m[n].immutable

LInv ==
  /\ SoundMatrix(weights)
  /\ threshold \in Thresholds
  /\ reported \subseteq Name \X {"static", "oscillating"}
  /\ flagged = reported

\* A registered weight starts with an empty history.
LEMMA NewWeightIsSound ==
  ASSUME NEW r \in Registrations
  PROVE  Sound(NewWeight(r)) /\ NewWeight(r).immutable = r.immutable
<1>1. NewWeight(r) \in Weight
  BY MatrixAssumption DEF NewWeight, Weight
<1>2. NewWeight(r).history = <<>> /\ Len(<<>>) = 0
  BY DEF NewWeight
<1> QED
  BY <1>1, <1>2, MatrixAssumption DEF NewWeight, Sound, Chained

\* touch() keeps the witness: the new entry starts at the old value, ends at the
\* new one, and the entry that may make room for it is the oldest.
LEMMA TouchedIsSound ==
  ASSUME NEW w, Sound(w), NEW v \in Value, NEW source \in Source
  PROVE  /\ Sound(Touched(w, v, source))
         /\ Touched(w, v, source).value = v
         /\ Touched(w, v, source).baseline = w.baseline
         /\ Touched(w, v, source).immutable = w.immutable
<1> DEFINE e == [old |-> w.value, new |-> v, source |-> source]
           h == Append(w.history, e)
           t == Touched(w, v, source)
<1>1. w \in Weight /\ w.history \in Seq(Entry) /\ w.value \in Value /\ e \in Entry
  BY DEF Sound, Weight, Entry
<1>0. e.old = w.value /\ e.new = v /\ Len(w.history) \in Nat
  BY <1>1
<1> HIDE DEF e
<1>2. /\ h \in Seq(Entry) /\ Len(h) = Len(w.history) + 1
      /\ \A i \in 1..Len(w.history) : h[i] = w.history[i]
      /\ h[Len(h)] = e
  BY <1>1
<1>3. \A i \in 1..(Len(h) - 1) : h[i].new = h[i + 1].old
  <2> SUFFICES ASSUME NEW i \in 1..(Len(h) - 1) PROVE h[i].new = h[i + 1].old
    OBVIOUS
  <2>1. CASE i < Len(w.history)
    BY <1>0, <1>1, <1>2, <2>1 DEF Sound, Chained
  <2>2. CASE i = Len(w.history)
    <3>1. w.history # <<>> /\ h[i] = w.history[Len(w.history)] /\ h[i + 1] = e
      BY <1>0, <1>1, <1>2, <2>2
    <3>2. w.history[Len(w.history)].new = w.value
      BY <3>1 DEF Sound, Chained
    <3> QED
      BY <1>0, <3>1, <3>2
  <2> QED
    BY <1>0, <1>2, <2>1, <2>2
<1>4. /\ Recent(h) \in Seq(Entry) /\ Recent(h) # <<>>
      /\ Len(Recent(h)) <= HistoryMax
      /\ \A i \in 1..(Len(Recent(h)) - 1) : Recent(h)[i].new = Recent(h)[i + 1].old
      /\ Recent(h)[Len(Recent(h))].new = v
  <2>1. Len(h) >= 1 /\ Len(h) <= HistoryMax + 1 /\ h[Len(h)].new = v
    <3> HIDE DEF h
    <3>1. Len(w.history) <= HistoryMax /\ HistoryMax \in Nat
      BY MatrixAssumption DEF Sound
    <3> QED
      BY <1>0, <1>2, <3>1
  <2>2. CASE Len(h) > HistoryMax
    <3>1. Len(h) >= 2
      BY <2>1, <2>2, <1>2, MatrixAssumption
    <3>2. /\ Tail(h) \in Seq(Entry) /\ Len(Tail(h)) = Len(h) - 1
          /\ \A i \in 1..Len(Tail(h)) : Tail(h)[i] = h[i + 1]
      BY <1>2, <3>1
    <3>3. Recent(h) = Tail(h)
      BY <2>2 DEF Recent
    <3>4. Tail(h) # <<>> /\ Tail(h)[Len(Tail(h))] = h[Len(h)]
      BY <1>2, <3>1, <3>2
    <3>5. \A i \in 1..(Len(Tail(h)) - 1) : Tail(h)[i].new = Tail(h)[i + 1].old
      BY <1>2, <1>3, <3>1, <3>2
    <3> HIDE DEF h
    <3> QED
      BY <2>1, <3>2, <3>3, <3>4, <3>5, MatrixAssumption
  <2>3. CASE ~(Len(h) > HistoryMax)
    <3>1. Recent(h) = h /\ h # <<>>
      BY <1>2, <2>1, <2>3 DEF Recent
    <3> HIDE DEF h
    <3> QED
      BY <1>2, <1>3, <2>1, <2>3, <3>1, MatrixAssumption
  <2> QED
    BY <2>2, <2>3
<1>5. /\ t.history = Recent(h) /\ t.value = v /\ t.baseline = w.baseline
      /\ t.immutable = w.immutable /\ t \in Weight
  BY <1>1, <1>4 DEF Touched, Weight, e
<1> HIDE DEF t, h
<1>6. Sound(t)
  BY <1>4, <1>5 DEF Sound, Chained
<1> QED
  BY <1>5, <1>6 DEF t

-----------------------------------------------------------------------------
(* One step *)

\* A critical error raises adaptability, and a rollback lowers it, within 0..1.
LEMMA AdaptationIsSound ==
  ASSUME NEW w, Sound(w), NEW e \in Errors, threshold \in Thresholds, e > threshold
  PROVE  /\ Sound(Recalibrated(w, e)) /\ Recalibrated(w, e).immutable = w.immutable
         /\ Recalibrated(w, e).baseline = w.baseline
         /\ Recalibrated(w, e).value = Smaller(Top, w.value + (e - threshold))
         /\ Sound(RolledBack(w, e)) /\ RolledBack(w, e).immutable = w.immutable
         /\ RolledBack(w, e).baseline = w.baseline
         /\ RolledBack(w, e).value = Larger(0, w.value - (e - threshold))
<1>1. w.value \in Value /\ e \in Nat /\ threshold \in Nat /\ Top \in Nat
  BY LoopAssumption, MatrixAssumption DEF Sound, Weight
<1>2. /\ Smaller(Top, w.value + (e - threshold)) \in Value
      /\ Larger(0, w.value - (e - threshold)) \in Value
  BY <1>1 DEF Smaller, Larger, Value
<1>3. "update_loop" \in Source /\ "truth_priority_rollback" \in Source
  BY DEF Source
<1> QED
  BY <1>2, <1>3, TouchedIsSound DEF Recalibrated, RolledBack

\* A scan corrects weights that may be updated, to their baselines, and leaves
\* every other weight as it is.
LEMMA ScanIsSound ==
  ASSUME NEW m, SoundMatrix(m), DOMAIN m = DOMAIN weights, LInv, Scan(m)
  PROVE  /\ SoundMatrix(weights')
         /\ reported' \subseteq Name \X {"static", "oscillating"} /\ flagged' = reported'
         /\ DOMAIN weights' = DOMAIN weights
         /\ \A n \in DOMAIN m :
              \/ weights'[n] = m[n]
              \/ /\ MayUpdate(n) /\ weights'[n].value = m[n].baseline
                 /\ reported' # reported
<1> DEFINE new == {f \in Findings(m) : FlagKey(f) \notin flagged}
           escalated == {n \in DOMAIN m : <<n, "oscillating">> \in new}
<1>1. PICK approved \in SUBSET {n \in escalated : MayUpdate(n)} :
        weights' = [n \in DOMAIN m |->
          IF n \in approved THEN Touched(m[n], m[n].baseline, "erythrocyte_correction")
          ELSE m[n]]
  BY DEF Scan
<1>2. "erythrocyte_correction" \in Source
  BY DEF Source
<1>3. \A n \in DOMAIN m : m[n].baseline \in Value
  BY DEF SoundMatrix, Sound, Weight
<1>4. ASSUME NEW n \in DOMAIN m
      PROVE  LET t == Touched(m[n], m[n].baseline, "erythrocyte_correction")
             IN  Sound(t) /\ t.value = m[n].baseline /\ t.immutable = m[n].immutable
  BY <1>2, <1>3, TouchedIsSound DEF SoundMatrix
<1>5. SoundMatrix(weights') /\ DOMAIN weights' = DOMAIN weights
  BY <1>1, <1>4 DEF SoundMatrix
<1>6. reported' = reported \cup new /\ flagged' = reported'
  BY DEF Scan, FlagKey, LInv
<1>7. Findings(m) \subseteq Name \X {"static", "oscillating"}
  BY DEF Findings, Distortion, SoundMatrix
<1>8. reported' \subseteq Name \X {"static", "oscillating"}
  BY <1>6, <1>7 DEF LInv
<1>9. ASSUME NEW n \in DOMAIN m, weights'[n] # m[n]
      PROVE  /\ MayUpdate(n) /\ weights'[n].value = m[n].baseline
             /\ reported' # reported
  <2>1. n \in approved /\ <<n, "oscillating">> \in new /\ MayUpdate(n)
    BY <1>1, <1>9
  <2>2. <<n, "oscillating">> \notin reported
    BY <2>1 DEF LInv, FlagKey
  <2> QED
    BY <1>1, <1>4, <1>6, <2>1, <2>2
<1> HIDE DEF new, escalated
<1> QED
  BY <1>5, <1>6, <1>8, <1>9

\* What a critical error makes of adaptability: a recalibration, and perhaps a
\* rollback on top of it.
Adapted(a, b) ==
  \E v \in Value :
    LET r == Touched(a, v, "update_loop")
    IN  b = r \/ \E u \in Value : b = Touched(r, u, "truth_priority_rollback")

\* What a critical step hands to the scan: the matrix with adaptability moved.
LEMMA CriticalStepScans ==
  ASSUME LInv, CriticalStep
  PROVE  \E m : /\ SoundMatrix(m) /\ DOMAIN m = DOMAIN weights /\ Scan(m)
                /\ \A n \in DOMAIN m : n # "adaptability" => m[n] = weights[n]
                /\ "adaptability" \in DOMAIN m
                /\ Adapted(weights["adaptability"], m["adaptability"])
<1>1. PICK e \in Errors : Ordinary(e) \/ ShockApproved(e) \/ ShockDenied(e)
  BY DEF CriticalStep
<1> DEFINE w == weights["adaptability"]
           r == Recalibrated(w, e)
           b == RolledBack(r, e)
           moved(v) == [weights EXCEPT !["adaptability"] = v]
<1>2. /\ "adaptability" \in DOMAIN weights /\ Sound(w) /\ ~w.immutable
      /\ threshold \in Nat \ {0} /\ e \in Nat
  BY <1>1, LoopAssumption
     DEF Ordinary, ShockApproved, ShockDenied, Registered, LInv, SoundMatrix
<1>3. e > threshold /\ threshold \in Thresholds
  BY <1>1, <1>2 DEF Ordinary, ShockApproved, ShockDenied, ShockMultiplier, LInv
<1>4. /\ Sound(r) /\ ~r.immutable /\ Sound(b) /\ ~b.immutable
  BY <1>2, <1>3, AdaptationIsSound
<1>5. /\ Smaller(Top, w.value + (e - threshold)) \in Value
      /\ Larger(0, r.value - (e - threshold)) \in Value
  <2>1. w.value \in Value /\ r.value \in Value /\ Top \in Nat
    BY <1>2, <1>4, MatrixAssumption DEF Sound, Weight
  <2> HIDE DEF r
  <2> QED
    BY <1>2, <1>3, <2>1 DEF Smaller, Larger, Value
<1>6. Adapted(w, r) /\ Adapted(w, b)
  BY <1>5 DEF Adapted, Recalibrated, RolledBack
<1>7. ASSUME NEW v, Sound(v), ~v.immutable, Adapted(w, v), Scan(moved(v))
      PROVE  /\ SoundMatrix(moved(v)) /\ DOMAIN moved(v) = DOMAIN weights
             /\ \A n \in DOMAIN weights : n # "adaptability" => moved(v)[n] = weights[n]
             /\ moved(v)["adaptability"] = v
  BY <1>2, <1>7, LoopAssumption DEF LInv, SoundMatrix
<1>8. Scan(moved(r)) \/ Scan(moved(b))
  BY <1>1 DEF Ordinary, ShockApproved, ShockDenied
<1> HIDE DEF w, r, b, moved
<1>9. ASSUME NEW v, Sound(v), ~v.immutable, Adapted(w, v), Scan(moved(v))
      PROVE  \E m : /\ SoundMatrix(m) /\ DOMAIN m = DOMAIN weights /\ Scan(m)
                    /\ \A n \in DOMAIN m : n # "adaptability" => m[n] = weights[n]
                    /\ "adaptability" \in DOMAIN m
                    /\ Adapted(w, m["adaptability"])
  <2> WITNESS moved(v)
  <2> QED
    BY <1>2, <1>7, <1>9
<1> QED
  BY <1>4, <1>6, <1>8, <1>9 DEF w

\* Registering a name adds or replaces one sound weight; the registry keeps
\* canonical names immutable.
LEMMA RegisterIsSound ==
  ASSUME LInv, NEW r \in Registrations, Register(r)
  PROVE  /\ SoundMatrix(weights') /\ DOMAIN weights \subseteq DOMAIN weights'
         /\ \A n \in DOMAIN weights : n # r.name => weights'[n] = weights[n]
<1>1. /\ DOMAIN weights' = {r.name} \cup DOMAIN weights
      /\ weights'[r.name] = NewWeight(r)
      /\ \A n \in DOMAIN weights : n # r.name => weights'[n] = weights[n]
  BY DEF Register
<1>2. Sound(NewWeight(r)) /\ NewWeight(r).immutable = r.immutable /\ r.name \in Name
  BY NewWeightIsSound DEF Name
<1>3. /\ r.name \in Canonical => r.immutable
      /\ r.name = "adaptability" => ~r.immutable
  BY LoopAssumption DEF Register, MayRegister
<1> QED
  BY <1>1, <1>2, <1>3 DEF LInv, SoundMatrix

\* A write from outside changes one weight, and no protected value.
LEMMA OutsideIsSound ==
  ASSUME LInv, Outside
  PROVE  /\ SoundMatrix(weights') /\ DOMAIN weights' = DOMAIN weights
         /\ \A n \in DOMAIN weights :
              ~MayUpdate(n) => weights'[n].value = weights[n].value
<1>1. PICK n \in DOMAIN weights, v \in Value : DirectUpdate(n, v) \/ DirectTouch(n, v)
  BY MatrixAssumption DEF Outside, LInv, SoundMatrix, Sound, Weight
<1>2. weights' = [weights EXCEPT ![n] = Touched(weights[n], v, "untraced")]
  BY <1>1 DEF DirectUpdate, DirectTouch
<1> DEFINE t == Touched(weights[n], v, "untraced")
<1>3. Sound(weights[n]) /\ "untraced" \in Source
  BY DEF LInv, SoundMatrix, Source
<1>4. Sound(t) /\ t.value = v /\ t.immutable = weights[n].immutable
  BY <1>3, TouchedIsSound
<1> HIDE DEF t
<1>5. DOMAIN weights' = DOMAIN weights /\ weights'[n] = t
  BY <1>2 DEF t
<1>6. \A k \in DOMAIN weights : k # n => weights'[k] = weights[k]
  BY <1>2
<1>7. SoundMatrix(weights')
  BY <1>4, <1>5, <1>6 DEF LInv, SoundMatrix
<1>8. ~MayUpdate(n) => v = weights[n].value
  BY <1>1 DEF DirectUpdate, DirectTouch, MayTouch, MayUpdate, LInv, SoundMatrix
<1> QED
  BY <1>4, <1>5, <1>6, <1>7, <1>8

\* The observed error only moves the threshold within the strategy's range.
LEMMA ObserveType == ASSUME NEW e, Observe(e) PROVE threshold' \in Thresholds
BY DEF Observe

\* The invariant holds of an empty matrix.
LEMMA LInit == LoopInit => LInv
BY DEF LoopInit, MatrixInit, LInv, SoundMatrix

\* No step of the loop or of the matrix's callers breaks it.
LEMMA LStep == LInv /\ [LoopNext]_loopVars => LInv'
<1> SUFFICES ASSUME LInv, [LoopNext]_loopVars PROVE LInv'
  OBVIOUS
<1>1. ASSUME NEW e \in Errors, Calm(e) PROVE LInv'
  BY <1>1, ObserveType DEF Calm, LInv, SoundMatrix
<1>2. CASE CriticalStep
  <2>1. /\ SoundMatrix(weights') /\ flagged' = reported'
        /\ reported' \subseteq Name \X {"static", "oscillating"}
    BY <1>2, CriticalStepScans, ScanIsSound
  <2>2. threshold' \in Thresholds
    BY <1>2, ObserveType DEF CriticalStep, Ordinary, ShockApproved, ShockDenied
  <2> QED
    BY <2>1, <2>2 DEF LInv, SoundMatrix
<1>3. ASSUME Outside, UNCHANGED <<threshold, flagged, reported>> PROVE LInv'
  BY <1>3, OutsideIsSound DEF LInv, SoundMatrix
<1>4. ASSUME NEW r \in Registrations, Register(r),
             UNCHANGED <<threshold, flagged, reported>>
      PROVE  LInv'
  BY <1>4, RegisterIsSound DEF LInv, SoundMatrix
<1>5. CASE UNCHANGED loopVars
  BY <1>5 DEF loopVars, LInv, SoundMatrix
<1> QED
  BY <1>1, <1>2, <1>3, <1>4, <1>5 DEF LoopNext

-----------------------------------------------------------------------------
(* Theorems *)

\* The matrix and the loop stay well typed: whatever the errors, no value
\* leaves 0..Top, and no history its bound.
THEOREM LoopTypeCorrect == LoopSpec => []LoopTypeOK
<1>1. LInv => LoopTypeOK
  BY DEF LInv, SoundMatrix, Sound, LoopTypeOK, MatrixTypeOK
<1> QED
  BY <1>1, LInit, LStep, PTL DEF LoopSpec

\* The history of a weight accounts for its value, whoever writes: rollbacks
\* and corrections included, and when old entries make room.
THEOREM HistoryWitnessesValue == LoopSpec => []HistoryIsWitness
<1>1. LInv => HistoryIsWitness
  BY DEF LInv, SoundMatrix, Sound, HistoryIsWitness
<1> QED
  BY <1>1, LInit, LStep, PTL DEF LoopSpec

\* No direct write, step, rollback or correction moves a protected weight.
THEOREM W0IsUntouched == LoopSpec => W0Untouched
<1> DEFINE A == \A n \in DOMAIN weights :
                  n \in Canonical \/ weights[n].immutable =>
                    \/ weights'[n].value = weights[n].value
                    \/ \E r \in Registrations : r.name = n /\ Register(r)
<1>1. LInv /\ [LoopNext]_loopVars => A
  <2> SUFFICES ASSUME LInv, [LoopNext]_loopVars, NEW n \in DOMAIN weights, ~MayUpdate(n)
               PROVE  \/ weights'[n].value = weights[n].value
                      \/ \E r \in Registrations : r.name = n /\ Register(r)
    BY DEF MayUpdate
  <2>1. CASE CriticalStep
    <3>1. PICK m : /\ SoundMatrix(m) /\ DOMAIN m = DOMAIN weights /\ Scan(m)
                   /\ \A k \in DOMAIN m : k # "adaptability" => m[k] = weights[k]
      BY <2>1, CriticalStepScans
    <3>2. n # "adaptability"
      BY LoopAssumption DEF MayUpdate, LInv, SoundMatrix
    <3>3. m[n] = weights[n]
      BY <3>1, <3>2
    <3>4. weights'[n] = m[n] \/ MayUpdate(n)
      BY <3>1, ScanIsSound
    <3> QED
      BY <3>3, <3>4
  <2>2. CASE Outside
    BY <2>2, OutsideIsSound
  <2>3. ASSUME NEW r \in Registrations, Register(r)
        PROVE  weights'[n].value = weights[n].value \/ r.name = n
    BY <2>3, RegisterIsSound
  <2>4. CASE UNCHANGED weights
    BY <2>4
  <2> QED
    BY <2>1, <2>2, <2>3, <2>4 DEF LoopNext, loopVars, Calm
<1>2. [A]_weights <=> (A \/ UNCHANGED weights)
  OBVIOUS
<1> QED
  BY <1>1, LInit, LStep, PTL DEF LoopSpec, W0Untouched

\* A refused reset leaves no trace of the recalibration it refused, short of
\* the ceiling, for every error and threshold.
THEOREM DenialLeavesNoTrace == LoopSpec => DenialHidesNothing
<1> DEFINE Hides(e) ==
             LET new == weights'["adaptability"].value
             IN  \/ new = Adaptability.value
                 \/ new < Adaptability.value /\ Adaptability.value + (e - threshold) > Top
                 \/ new = Adaptability.baseline /\ reported' # reported
<1>1. ASSUME LInv, NEW e \in Errors, ShockDenied(e), TruthPriorityHolds PROVE Hides(e)
  <2> DEFINE w == weights["adaptability"]
             r == Recalibrated(w, e)
             b == RolledBack(r, e)
             m == [weights EXCEPT !["adaptability"] = b]
  <2>1. /\ "adaptability" \in DOMAIN weights /\ Sound(w) /\ ~w.immutable
        /\ w.value \in Value /\ w.baseline \in Value
    BY <1>1 DEF ShockDenied, Registered, LInv, SoundMatrix, Sound, Weight
  <2>2. e \in Nat /\ threshold \in Nat \ {0} /\ e > threshold /\ Top \in Nat
    BY <1>1, LoopAssumption, MatrixAssumption DEF LInv, ShockDenied, ShockMultiplier
  <2>3. /\ Sound(r) /\ r.baseline = w.baseline /\ ~r.immutable
        /\ r.value = Smaller(Top, w.value + (e - threshold))
    BY <1>1, <2>1, <2>2, AdaptationIsSound DEF LInv
  <2>4. /\ Sound(b) /\ b.baseline = w.baseline /\ ~b.immutable
        /\ b.value = Larger(0, r.value - (e - threshold))
    BY <1>1, <2>2, <2>3, AdaptationIsSound DEF LInv
  <2>5. \/ b.value = w.value
        \/ b.value < w.value /\ w.value + (e - threshold) > Top
    BY <2>1, <2>2, <2>3, <2>4 DEF Smaller, Larger, Value
  <2> HIDE DEF b, r
  <2>6. SoundMatrix(m) /\ DOMAIN m = DOMAIN weights /\ m["adaptability"] = b
    BY <1>1, <2>1, <2>4, LoopAssumption DEF LInv, SoundMatrix
  <2>7. Scan(m)
    BY <1>1 DEF ShockDenied, b, r
  <2> HIDE DEF m
  <2>8. \/ weights'["adaptability"] = b
        \/ weights'["adaptability"].value = b.baseline /\ reported' # reported
    BY <1>1, <2>1, <2>6, <2>7, ScanIsSound
  <2> QED
    BY <2>4, <2>5, <2>8 DEF Adaptability
<1> DEFINE A == \A e \in Errors : ShockDenied(e) /\ TruthPriorityHolds => Hides(e)
<1>2. LInv => A
  BY <1>1
<1>3. DenialHidesNothing <=> [][A]_loopVars
  BY DEF DenialHidesNothing
<1> HIDE DEF A
<1> QED
  BY <1>2, <1>3, LInit, LStep, PTL DEF LoopSpec

\* After a scan, what is still wrong with a weight has been reported: what it
\* left alone was found, and what it corrected is at its baseline.
THEOREM FindingsAreReported == LoopSpec => EveryFindingIsReported
<1> DEFINE A == CriticalStep => Findings(weights') \subseteq reported'
<1>1. LInv => A
  <2> SUFFICES ASSUME LInv, CriticalStep, NEW n \in DOMAIN weights',
                      PoisoningCandidate(weights'[n])
               PROVE  <<n, Distortion(weights'[n])>> \in reported'
    BY DEF Findings
  <2>1. PICK m : SoundMatrix(m) /\ DOMAIN m = DOMAIN weights /\ Scan(m)
    BY CriticalStepScans
  <2> DEFINE new == {f \in Findings(m) : FlagKey(f) \notin flagged}
             escalated == {k \in DOMAIN m : <<k, "oscillating">> \in new}
  <2>2. PICK approved \in SUBSET {k \in escalated : MayUpdate(k)} :
          weights' = [k \in DOMAIN m |->
            IF k \in approved THEN Touched(m[k], m[k].baseline, "erythrocyte_correction")
            ELSE m[k]]
    BY <2>1 DEF Scan
  <2>3. reported' = reported \cup new /\ flagged = reported
    BY <2>1 DEF Scan, LInv
  <2>4. n \in DOMAIN m
    BY <2>2
  <2>5. n \notin approved
    <3> SUFFICES ASSUME n \in approved PROVE FALSE
      OBVIOUS
    <3> DEFINE t == Touched(m[n], m[n].baseline, "erythrocyte_correction")
    <3>1. t.value = t.baseline
      BY DEF Touched
    <3>2. weights'[n] = t
      BY <2>2, <2>4
    <3> QED
      BY <3>1, <3>2 DEF PoisoningCandidate
  <2>6. weights'[n] = m[n]
    BY <2>2, <2>4, <2>5
  <2>7. <<n, Distortion(m[n])>> \in Findings(m)
    BY <2>4, <2>6 DEF Findings
  <2> QED
    BY <2>3, <2>6, <2>7 DEF FlagKey
<1>2. EveryFindingIsReported <=> [][A]_loopVars
  BY DEF EveryFindingIsReported
<1> HIDE DEF A
<1> QED
  BY <1>1, <1>2, LInit, LStep, PTL DEF LoopSpec

-----------------------------------------------------------------------------
(* Sums: what the variance of a history that never changes its value is.   *)

\* Induction over the naturals, for a set: the library's rule takes an operator.
LEMMA NatSetInduction ==
  ASSUME NEW P \in SUBSET Nat, 0 \in P, \A n \in P : n + 1 \in P
  PROVE  P = Nat
<1> SUFFICES ASSUME P # Nat PROVE FALSE
  OBVIOUS
<1> DEFINE LessThan == OpToRel(<, Nat)
           T == Nat \ P
<1>1. IsWellFoundedOn(LessThan, Nat)
  BY NatLessThanWellFounded
<1>2. \A x, y \in Nat : y < x => <<y, x>> \in LessThan
  BY DEF OpToRel
<1> HIDE DEF LessThan
<1>3. PICK x \in T : \A y \in T : ~(<<y, x>> \in LessThan)
  BY <1>1, WFMin
<1>4. x \in Nat /\ x # 0 /\ x - 1 \in Nat /\ x - 1 < x
  BY <1>3
<1>5. x - 1 \in P
  BY <1>2, <1>3, <1>4
<1> QED
  BY <1>3, <1>4, <1>5

\* The element that a fold takes first.
Some(s) == CHOOSE y \in s : TRUE
\* What a sum over s is, given the sums g over smaller sets.
SumStep(f, g, s) == IF s = {} THEN 0 ELSE f[Some(s)] + g[s \ {Some(s)}]

\* Without the element it takes first, a finite set is smaller by one.
LEMMA SmallerSet ==
  ASSUME NEW S, IsFiniteSet(S)
  PROVE  \A s \in SUBSET S :
           /\ Cardinality(s) \in Nat /\ (s = {} <=> Cardinality(s) = 0)
           /\ s # {} => /\ Some(s) \in s /\ s \ {Some(s)} \in SUBSET S
                        /\ Cardinality(s \ {Some(s)}) = Cardinality(s) - 1
<1> SUFFICES ASSUME NEW s \in SUBSET S
  PROVE
         /\ Cardinality(s) \in Nat /\ (s = {} <=> Cardinality(s) = 0)
         /\ s # {} => /\ Some(s) \in s /\ s \ {Some(s)} \in SUBSET S
                      /\ Cardinality(s \ {Some(s)}) = Cardinality(s) - 1
  OBVIOUS
<1>1. IsFiniteSet(s) /\ Cardinality(s) \in Nat
  BY FS_Subset, FS_CardinalityType
<1>2. ASSUME s # {} PROVE Some(s) \in s
  BY <1>2 DEF Some
<1>3. ASSUME s # {} PROVE Cardinality(s \ {Some(s)}) = Cardinality(s) - 1 /\ Cardinality(s) > 0
  <2>1. Cardinality(s \ {Some(s)}) = Cardinality(s) - 1
    BY <1>1, <1>2, <1>3, FS_RemoveElement
  <2>2. Cardinality(s) # 0
    BY <1>1, <1>3, FS_EmptySet
  <2> QED
    BY <1>1, <2>1, <2>2
<1>4. Cardinality({}) = 0
  BY FS_EmptySet
<1> QED
  BY <1>1, <1>2, <1>3, <1>4

\* SumFunction unfolds as its recursive definition says: a function with that
\* recursion exists for the sets of up to n elements, for every n.
LEMMA SumUnfolds ==
  ASSUME NEW f, IsFiniteSet(DOMAIN f), \A x \in DOMAIN f : f[x] \in Int
  PROVE  \E g : /\ SumFunction(f) = g[DOMAIN f]
                /\ \A s \in SUBSET DOMAIN f : g[s] = SumStep(f, g, s)
<1> DEFINE S == DOMAIN f
           iter[s \in SUBSET S] ==
             IF s = {} THEN 0 ELSE LET x == CHOOSE y \in s : TRUE IN f[x] + iter[s \ {x}]
           Upto(n) == \E g : \A s \in SUBSET S : Cardinality(s) <= n => g[s] = SumStep(f, g, s)
           P == {n \in Nat : Upto(n)}
<1>0. \A s \in SUBSET S : /\ Cardinality(s) \in Nat /\ (s = {} <=> Cardinality(s) = 0)
                          /\ s # {} => /\ Some(s) \in s /\ s \ {Some(s)} \in SUBSET S
                                       /\ Cardinality(s \ {Some(s)}) = Cardinality(s) - 1
  BY SmallerSet
<1>1. SumFunction(f) = iter[S]
  BY DEF SumFunction, SumFunctionOnSet, FoldFunctionOnSet, MapThenFoldSet
<1>2. Upto(0)
  <2> DEFINE g == [s \in SUBSET S |-> 0]
  <2>1. ASSUME NEW s \in SUBSET S, Cardinality(s) <= 0 PROVE s = {}
    <3>1. Cardinality(s) \in Nat /\ (s = {} <=> Cardinality(s) = 0)
      BY <1>0, Zenon
    <3> QED
      BY <2>1, <3>1
  <2>2. \A s \in SUBSET S : Cardinality(s) <= 0 => g[s] = SumStep(f, g, s)
    BY <2>1 DEF SumStep
  <2> HIDE DEF g
  <2> QED
    BY <2>2
<1>3. ASSUME NEW n \in Nat, Upto(n) PROVE Upto(n + 1)
  <2>1. PICK g : \A s \in SUBSET S : Cardinality(s) <= n => g[s] = SumStep(f, g, s)
    BY <1>3
  <2> DEFINE h == [s \in SUBSET S |-> IF Cardinality(s) <= n THEN g[s] ELSE SumStep(f, g, s)]
  <2>2. ASSUME NEW s \in SUBSET S PROVE h[s] = SumStep(f, g, s)
    BY <2>1
  <2>3. ASSUME NEW s \in SUBSET S, Cardinality(s) <= n + 1, s # {}
        PROVE  h[s \ {Some(s)}] = g[s \ {Some(s)}]
    <3>1. Cardinality(s \ {Some(s)}) <= n /\ s \ {Some(s)} \in SUBSET S
      BY <1>0, <2>3
    <3> QED
      BY <3>1
  <2> HIDE DEF h
  <2>4. ASSUME NEW s \in SUBSET S, Cardinality(s) <= n + 1 PROVE h[s] = SumStep(f, h, s)
    BY <2>2, <2>3, <2>4 DEF SumStep
  <2> QED
    BY <2>4
<1>4. P = Nat
  <2> HIDE DEF Upto
  <2>1. P \in SUBSET Nat /\ 0 \in P /\ \A n \in P : n + 1 \in P
    BY <1>2, <1>3
  <2> HIDE DEF P
  <2> QED
    BY <2>1, NatSetInduction
<1>5. PICK g : \A s \in SUBSET S : Cardinality(s) <= Cardinality(S) => g[s] = SumStep(f, g, s)
  <2>1. Cardinality(S) \in Nat
    BY FS_CardinalityType
  <2>2. Cardinality(S) \in P
    BY <1>4, <2>1
  <2> QED
    BY <2>2
<1>6. \A s \in SUBSET S : g[s] = SumStep(f, g, s)
  BY <1>5, FS_Subset
<1> DEFINE G == [s \in SUBSET S |-> g[s]]
<1>7. G = [s \in SUBSET S |->
             IF s = {} THEN 0 ELSE LET x == CHOOSE y \in s : TRUE IN f[x] + G[s \ {x}]]
  <2>1. ASSUME NEW s \in SUBSET S
        PROVE  G[s] = IF s = {} THEN 0 ELSE LET x == CHOOSE y \in s : TRUE IN f[x] + G[s \ {x}]
    BY <1>6 DEF SumStep, Some
  <2> HIDE DEF G
  <2>2. G = [s \in SUBSET S |-> G[s]]
    BY DEF G
  <2> QED
    BY <2>1, <2>2
<1> HIDE DEF G
<1>8. iter = [s \in SUBSET S |->
             IF s = {} THEN 0 ELSE LET x == CHOOSE y \in s : TRUE IN f[x] + iter[s \ {x}]]
  BY <1>7
<1> HIDE DEF iter
<1>9. \A s \in SUBSET S : iter[s] = SumStep(f, iter, s)
  BY <1>8 DEF SumStep, Some
<1> QED
  BY <1>1, <1>9

\* The sum of a constant.
LEMMA SumOfConstant ==
  ASSUME NEW f, IsFiniteSet(DOMAIN f), NEW v \in Int, \A x \in DOMAIN f : f[x] = v
  PROVE  SumFunction(f) = Cardinality(DOMAIN f) * v
<1> DEFINE S == DOMAIN f
<1>1. IsFiniteSet(S) /\ Cardinality(S) \in Nat
  BY FS_CardinalityType
<1>2. PICK g : /\ SumFunction(f) = g[S]
               /\ \A s \in SUBSET S : g[s] = SumStep(f, g, s)
  BY <1>1, SumUnfolds
<1>0. \A s \in SUBSET S : /\ Cardinality(s) \in Nat /\ (s = {} <=> Cardinality(s) = 0)
                          /\ s # {} => /\ Some(s) \in s /\ s \ {Some(s)} \in SUBSET S
                                       /\ Cardinality(s \ {Some(s)}) = Cardinality(s) - 1
  BY <1>1, SmallerSet
<1> DEFINE P == {k \in Nat : \A s \in SUBSET S : Cardinality(s) = k => g[s] = k * v}
<1>3. 0 \in P
  <2>1. ASSUME NEW s \in SUBSET S, Cardinality(s) = 0 PROVE s = {}
    BY <1>0, <2>1, Zenon
  <2>2. g[{}] = 0
    BY <1>2 DEF SumStep
  <2>3. 0 = 0 * v
    OBVIOUS
  <2> QED
    BY <2>1, <2>2, <2>3
<1>4. ASSUME NEW k \in P PROVE k + 1 \in P
  <2> SUFFICES ASSUME NEW s \in SUBSET S, Cardinality(s) = k + 1 PROVE g[s] = (k + 1) * v
    OBVIOUS
  <2>1. s # {} /\ Some(s) \in S /\ s \ {Some(s)} \in SUBSET S /\ Cardinality(s \ {Some(s)}) = k
    <3>1. /\ Cardinality(s) \in Nat /\ (s = {} <=> Cardinality(s) = 0)
          /\ s # {} => /\ Some(s) \in s /\ s \ {Some(s)} \in SUBSET S
                       /\ Cardinality(s \ {Some(s)}) = Cardinality(s) - 1
      BY <1>0, Zenon
    <3>2. s # {}
      BY <3>1
    <3>3. Cardinality(s) - 1 = k
      OBVIOUS
    <3> QED
      BY <3>1, <3>2, <3>3, Zenon
  <2>2. g[s \ {Some(s)}] = k * v
    BY <2>1
  <2>3. g[s] = v + k * v
    BY <1>2, <2>1, <2>2 DEF SumStep
  <2> QED
    BY <2>3
<1>5. P = Nat
  <2> HIDE DEF P
  <2>1. P \in SUBSET Nat
    BY DEF P
  <2> QED
    BY <1>3, <1>4, <2>1, NatSetInduction
<1> QED
  BY <1>1, <1>2, <1>5

\* The positions of a history of length n.
LEMMA IntervalSize ==
  ASSUME NEW n \in Nat
  PROVE  IsFiniteSet(1..n) /\ Cardinality(1..n) = n
BY FS_Interval

\* A history whose entries all write the same value has no variance.
LEMMA ConstantIsNotVolatile ==
  ASSUME NEW h \in Seq(Entry), NEW v \in Value, \A i \in 1..Len(h) : h[i].new = v
  PROVE  ~Volatile(h)
<1> DEFINE n == Len(h)
           values == [i \in 1..n |-> h[i].new]
           squared == [i \in 1..n |-> h[i].new * h[i].new]
<1>1. n \in Nat /\ v \in Int /\ v * v \in Int /\ VarianceThreshold \in Nat
  BY MatrixAssumption, ErythrocyteAssumption DEF Value
<1>2. IsFiniteSet(1..n) /\ Cardinality(1..n) = n
  BY IntervalSize
<1>3. SumFunction(values) = n * v
  <2>1. DOMAIN values = 1..n /\ \A i \in 1..n : values[i] = v
    OBVIOUS
  <2> HIDE DEF values, n
  <2> QED
    BY <1>1, <1>2, <2>1, SumOfConstant
<1>4. SumFunction(squared) = n * (v * v)
  <2>1. DOMAIN squared = 1..n /\ \A i \in 1..n : squared[i] = v * v
    OBVIOUS
  <2> HIDE DEF squared, n
  <2> QED
    BY <1>1, <1>2, <2>1, SumOfConstant
<1>5. n * (n * (v * v)) - (n * v) * (n * v) = 0
  <2> HIDE DEF n
  <2> QED
    BY <1>1
<1>6. n > 1 => VarianceThreshold * n * (n - 1) >= 0
  <2> HIDE DEF n
  <2> QED
    BY <1>1
<1> QED
  <2>1. Volatile(h) <=> n > 1 /\ n * SumFunction(squared) - SumFunction(values) * SumFunction(values)
                                   > VarianceThreshold * n * (n - 1)
    BY DEF Volatile
  <2> HIDE DEF n, values, squared
  <2>2. Volatile(h) => n > 1 /\ 0 > VarianceThreshold * n * (n - 1)
    BY <1>3, <1>4, <1>5, <2>1
  <2>3. n > 1 => ~(0 > VarianceThreshold * n * (n - 1))
    BY <1>1, <1>6
  <2> QED
    BY <2>2, <2>3

-----------------------------------------------------------------------------
(* Entries *)

\* h is g with one more entry, from source, and without its first one perhaps.
FollowsOn(h, g, source) ==
  /\ h # <<>> /\ h[Len(h)].source = source
  /\ \A i \in 1..Len(h) : i # Len(h) => \E j \in 1..Len(g) : h[i] = g[j]
  /\ \A j \in 1..Len(g) : j # 1 => \E i \in 1..Len(h) : h[i] = g[j]

\* touch() adds its entry at the end and drops the first one at most.
LEMMA TouchedEntries ==
  ASSUME NEW w, Sound(w), NEW v \in Value, NEW source \in Source
  PROVE  /\ FollowsOn(Touched(w, v, source).history, w.history, source)
         /\ LET h == Touched(w, v, source).history IN h[Len(h)].new = v
<1> DEFINE g == w.history
           e == [old |-> w.value, new |-> v, source |-> source]
           a == Append(g, e)
           h == Recent(a)
<1>1. g \in Seq(Entry) /\ e \in Entry /\ Len(g) \in Nat /\ Len(g) <= HistoryMax
  BY DEF Sound, Weight, Entry
<1>2. e.source = source /\ e.new = v
  OBVIOUS
<1>3. Touched(w, v, source).history = h
  BY DEF Touched
<1> HIDE DEF g, e
<1>4. /\ a \in Seq(Entry) /\ Len(a) = Len(g) + 1 /\ a[Len(g) + 1] = e
      /\ \A i \in 1..Len(g) : a[i] = g[i]
  BY <1>1
<1> HIDE DEF a
<1>5. CASE Len(a) > HistoryMax
  <2>1. h = Tail(a) /\ Len(a) > 1
    BY <1>1, <1>4, <1>5, MatrixAssumption DEF Recent
  <2>2. Len(h) = Len(g) /\ \A i \in 1..Len(g) : h[i] = a[i + 1]
    BY <1>1, <1>4, <2>1
  <2> HIDE DEF h
  <2>3. Len(g) >= 1 /\ h[Len(h)] = e
    BY <1>1, <1>4, <2>1, <2>2
  <2>4. ASSUME NEW i \in 1..Len(h), i # Len(h) PROVE i + 1 \in 1..Len(g) /\ h[i] = g[i + 1]
    BY <1>1, <1>4, <2>2, <2>4
  <2>5. ASSUME NEW j \in 1..Len(g), j # 1 PROVE j - 1 \in 1..Len(h) /\ h[j - 1] = g[j]
    BY <1>1, <1>4, <2>2, <2>5
  <2>6. h # <<>>
    BY <1>1, <2>2, <2>3
  <2>7. \A i \in 1..Len(h) : i # Len(h) => \E j \in 1..Len(g) : h[i] = g[j]
    BY <2>4
  <2>8. \A j \in 1..Len(g) : j # 1 => \E i \in 1..Len(h) : h[i] = g[j]
    BY <2>5
  <2>9. h[Len(h)].source = source /\ h[Len(h)].new = v
    BY <1>2, <2>3
  <2> QED
    BY <1>3, <2>6, <2>7, <2>8, <2>9 DEF g, FollowsOn
<1>6. CASE ~(Len(a) > HistoryMax)
  <2>1. h = a
    BY <1>6 DEF Recent
  <2> HIDE DEF h
  <2>2. h # <<>> /\ h[Len(h)] = e
    BY <1>1, <1>4, <2>1
  <2>3. ASSUME NEW i \in 1..Len(h), i # Len(h) PROVE i \in 1..Len(g) /\ h[i] = g[i]
    BY <1>1, <1>4, <2>1, <2>3
  <2>4. ASSUME NEW j \in 1..Len(g) PROVE j \in 1..Len(h) /\ h[j] = g[j]
    BY <1>1, <1>4, <2>1
  <2>5. \A i \in 1..Len(h) : i # Len(h) => \E j \in 1..Len(g) : h[i] = g[j]
    BY <2>3
  <2>6. \A j \in 1..Len(g) : j # 1 => \E i \in 1..Len(h) : h[i] = g[j]
    BY <2>4
  <2>7. h[Len(h)].source = source /\ h[Len(h)].new = v
    BY <1>2, <2>2
  <2> QED
    BY <1>3, <2>2, <2>5, <2>6, <2>7 DEF g, FollowsOn
<1> QED
  BY <1>5, <1>6

\* Why a weight is found: an entry of its history is not accounted for.
LEMMA FindingHasWitness ==
  ASSUME NEW h \in Seq(Entry), Untrustworthy(h)
  PROVE  \E i \in 1..Len(h) : h[i].source \in {"untraced", "truth_priority_rollback"}
<1> SUFFICES ASSUME \A i \in 1..Len(h) : h[i].source \notin {"untraced", "truth_priority_rollback"}
             PROVE  FALSE
  OBVIOUS
<1>1. ASSUME NEW i \in 1..Len(h) PROVE h[i].source \in LegitimateSources
  <2>1. h[i] \in Entry
    OBVIOUS
  <2>2. h[i].source \in Source
    BY <2>1 DEF Entry
  <2> QED
    BY <2>2 DEF Source, LegitimateSources
<1>2. {i \in DOMAIN h : h[i].source \in LegitimateSources} = 1..Len(h)
  BY <1>1
<1>3. Len(h) \in Nat /\ Cardinality(1..Len(h)) = Len(h)
  BY IntervalSize
<1>4. Accounted(h) = Len(h)
  BY <1>2, <1>3 DEF Accounted
<1> QED
  BY <1>3, <1>4 DEF Untrustworthy

\* An entry that accuses adaptability is in its history before the step, or
\* would still be in it after another write.
LEMMA AdaptedWitness ==
  ASSUME NEW w, Sound(w), NEW b, Adapted(w, b), NEW v \in Value, Len(b.history) # 1,
         NEW i \in 1..Len(b.history),
         b.history[i].source \in {"untraced", "truth_priority_rollback"}
  PROVE  LET after == Touched(b, v, "erythrocyte_correction").history
         IN  \/ \E j \in 1..Len(w.history) : w.history[j] = b.history[i]
             \/ \E j \in 1..Len(after) : after[j] = b.history[i]
<1> DEFINE after == Touched(b, v, "erythrocyte_correction").history
<1>1. PICK x \in Value :
        \/ b = Touched(w, x, "update_loop")
        \/ \E u \in Value :
             b = Touched(Touched(w, x, "update_loop"), u, "truth_priority_rollback")
  BY DEF Adapted
<1> DEFINE r == Touched(w, x, "update_loop")
<1>2. /\ "update_loop" \in Source /\ "truth_priority_rollback" \in Source
      /\ "erythrocyte_correction" \in Source
  BY DEF Source
<1>3. Sound(r)
  BY <1>2, TouchedIsSound
<1>4. FollowsOn(r.history, w.history, "update_loop")
  BY <1>2, TouchedEntries
<1> HIDE DEF r
<1>5. Sound(b) /\ Len(b.history) \in Nat
  <2>1. ASSUME NEW u \in Value PROVE Sound(Touched(r, u, "truth_priority_rollback"))
    BY <1>2, <1>3, TouchedIsSound
  <2>2. Sound(b)
    BY <1>1, <1>3, <2>1 DEF r
  <2> QED
    BY <2>2 DEF Sound, Weight
<1>6. i # 1 => \E j \in 1..Len(after) : after[j] = b.history[i]
  <2>1. FollowsOn(after, b.history, "erythrocyte_correction")
    BY <1>2, <1>5, TouchedEntries
  <2> HIDE DEF after
  <2> QED
    BY <2>1, Zenon DEF FollowsOn
<1> HIDE DEF after
<1>7. ASSUME i = 1 PROVE \E j \in 1..Len(w.history) : w.history[j] = b.history[i]
  <2>1. ASSUME NEW k \in 1..Len(r.history),
               r.history[k].source \in {"untraced", "truth_priority_rollback"}
        PROVE  \E j \in 1..Len(w.history) : w.history[j] = r.history[k]
    BY <1>4, <2>1 DEF FollowsOn
  <2>2. i # Len(b.history)
    BY <1>7, Zenon
  <2>3. \E k \in 1..Len(r.history) : b.history[i] = r.history[k]
    <3>1. CASE b = r
      BY <3>1
    <3>2. ASSUME NEW u \in Value, b = Touched(r, u, "truth_priority_rollback")
          PROVE  \E k \in 1..Len(r.history) : b.history[i] = r.history[k]
      <4>1. FollowsOn(b.history, r.history, "truth_priority_rollback")
        BY <1>2, <1>3, <3>2, TouchedEntries
      <4> QED
        BY <2>2, <4>1, Zenon DEF FollowsOn
    <3> QED
      BY <1>1, <3>1, <3>2 DEF r
  <2> QED
    BY <2>1, <2>3
<1> QED
  BY <1>6, <1>7 DEF after

-----------------------------------------------------------------------------
(* Whom the loop accuses *)

\* A finding rests on an untraced write or a rollback, whatever the errors and
\* thresholds: the loop's own recalibrations and corrections accuse nobody.
\* The entry is in the history the step leaves behind, or, if a correction
\* pushed it out, in the one the step found.
THEOREM AccusesOnlyUntracedHolds == LoopSpec => AccusesOnlyUntraced
<1> DEFINE A == \A f \in reported' \ reported :
                  Witnessed(f[1], {"untraced", "truth_priority_rollback"})
<1>1. ASSUME LInv, CriticalStep PROVE A
  <2>1. PICK m : /\ SoundMatrix(m) /\ DOMAIN m = DOMAIN weights /\ Scan(m)
                 /\ \A n \in DOMAIN m : n # "adaptability" => m[n] = weights[n]
                 /\ "adaptability" \in DOMAIN m
                 /\ Adapted(weights["adaptability"], m["adaptability"])
    BY <1>1, CriticalStepScans
  <2> DEFINE new == {f \in Findings(m) : FlagKey(f) \notin flagged}
             escalated == {k \in DOMAIN m : <<k, "oscillating">> \in new}
  <2>2. PICK approved \in SUBSET {k \in escalated : MayUpdate(k)} :
          weights' = [k \in DOMAIN m |->
            IF k \in approved THEN Touched(m[k], m[k].baseline, "erythrocyte_correction")
            ELSE m[k]]
    BY <2>1 DEF Scan
  <2>3. reported' = reported \cup new
    BY <2>1 DEF Scan
  <2> SUFFICES ASSUME NEW n \in DOMAIN m, PoisoningCandidate(m[n])
               PROVE  Witnessed(n, {"untraced", "truth_priority_rollback"})
    BY <2>3 DEF Findings
  <2> DEFINE h == m[n].history
  <2>4. h \in Seq(Entry) /\ Sound(m[n]) /\ m[n].baseline \in Value
    BY <2>1 DEF SoundMatrix, Sound, Weight
  <2>5. PICK i \in 1..Len(h) : h[i].source \in {"untraced", "truth_priority_rollback"}
    BY <2>4, FindingHasWitness DEF PoisoningCandidate
  <2>6. ASSUME NEW g, g \in {weights[n].history, weights'[n].history}, g \in Seq(Entry),
               NEW j \in 1..Len(g), g[j] = h[i]
        PROVE  Witnessed(n, {"untraced", "truth_priority_rollback"})
    <3>1. j \in DOMAIN g /\ g[j].source \in {"untraced", "truth_priority_rollback"}
      BY <2>5, <2>6
    <3> QED
      BY <2>6, <3>1 DEF Witnessed
  <2>7. CASE n \notin approved
    <3>1. weights'[n].history = h
      BY <2>2, <2>7
    <3> HIDE DEF h
    <3> QED
      BY <2>4, <2>5, <2>6, <3>1
  <2>8. CASE n # "adaptability"
    <3>1. weights[n].history = h
      BY <2>1, <2>8
    <3> HIDE DEF h
    <3> QED
      BY <2>4, <2>5, <2>6, <3>1
  <2>9. CASE n \in approved /\ n = "adaptability"
    <3> DEFINE t == Touched(m[n], m[n].baseline, "erythrocyte_correction")
    <3>1. weights'[n].history = t.history /\ t.history \in Seq(Entry)
      <4>1. "erythrocyte_correction" \in Source
        BY DEF Source
      <4>2. Sound(t)
        BY <2>4, <4>1, TouchedIsSound
      <4> QED
        BY <2>2, <2>9, <4>2 DEF Sound, Weight
    <3>2. Sound(weights[n]) /\ weights[n].history \in Seq(Entry)
      BY <1>1, <2>1 DEF LInv, SoundMatrix, Sound, Weight
    <3>3. Len(h) # 1
      <4>1. <<n, "oscillating">> \in Findings(m)
        BY <2>2, <2>9
      <4>2. Volatile(h)
        BY <4>1 DEF Findings, Distortion
      <4> QED
        BY <2>4, <4>2 DEF Volatile
    <3>4. \/ \E j \in 1..Len(weights[n].history) : weights[n].history[j] = h[i]
          \/ \E j \in 1..Len(t.history) : t.history[j] = h[i]
      BY <2>1, <2>4, <2>5, <2>9, <3>2, <3>3, AdaptedWitness
    <3> HIDE DEF h, t
    <3> QED
      BY <2>6, <3>1, <3>2, <3>4
  <2> QED
    BY <2>7, <2>8, <2>9
<1>2. LInv /\ [LoopNext]_loopVars => A
  <2> SUFFICES ASSUME LInv, [LoopNext]_loopVars, ~CriticalStep PROVE reported' = reported
    BY <1>1
  <2> QED
    BY DEF LoopNext, Calm, loopVars
<1>3. [A]_loopVars <=> (A \/ UNCHANGED loopVars)
  OBVIOUS
<1>4. AccusesOnlyUntraced <=> [][A]_loopVars
  BY DEF AccusesOnlyUntraced
<1> HIDE DEF A
<1> QED
  BY <1>2, <1>3, <1>4, LInit, LStep, PTL DEF LoopSpec

-----------------------------------------------------------------------------
(* Protected weights *)

\* Every entry of a protected weight's history writes the value it has: its
\* flag has stood guard since the history was empty.
Steady(w) == w.immutable => \A i \in 1..Len(w.history) : w.history[i].new = w.value

SteadyInv == LInv /\ \A n \in DOMAIN weights : Steady(weights[n])

\* Writing a steady weight's own value keeps it steady.
LEMMA TouchedIsSteady ==
  ASSUME NEW w, Sound(w), Steady(w), NEW source \in Source, NEW v \in Value,
         w.immutable => v = w.value
  PROVE  Steady(Touched(w, v, source))
<1> DEFINE t == Touched(w, v, source)
<1>1. t.value = v /\ t.immutable = w.immutable
  BY TouchedIsSound
<1>2. FollowsOn(t.history, w.history, source) /\ t.history[Len(t.history)].new = v
  BY TouchedEntries
<1> HIDE DEF t
<1>3. ASSUME w.immutable, NEW i \in 1..Len(t.history) PROVE t.history[i].new = v
  <2>1. \A j \in 1..Len(w.history) : w.history[j].new = v
    BY <1>3 DEF Steady
  <2>2. CASE i = Len(t.history)
    BY <1>2, <2>2
  <2>3. CASE i # Len(t.history)
    BY <1>2, <2>1, <2>3 DEF FollowsOn
  <2> QED
    BY <2>2, <2>3
<1> QED
  BY <1>1, <1>3 DEF Steady, t

\* Registrations start an empty history, the outside may only repeat a protected
\* value, and the loop leaves protected weights alone.
LEMMA SteadyStep == SteadyInv /\ [LoopNext]_loopVars => SteadyInv'
<1> SUFFICES ASSUME SteadyInv, [LoopNext]_loopVars, NEW n \in DOMAIN weights'
             PROVE  Steady(weights'[n])
  BY LStep DEF SteadyInv
<1>1. CASE CriticalStep
  <2>1. PICK m : /\ SoundMatrix(m) /\ DOMAIN m = DOMAIN weights /\ Scan(m)
                 /\ \A k \in DOMAIN m : k # "adaptability" => m[k] = weights[k]
    BY <1>1, CriticalStepScans DEF SteadyInv
  <2>2. PICK approved :
          /\ \A k \in approved : MayUpdate(k)
          /\ weights' = [k \in DOMAIN m |->
               IF k \in approved
               THEN Touched(m[k], m[k].baseline, "erythrocyte_correction")
               ELSE m[k]]
    BY <2>1 DEF Scan
  <2>3. n \in DOMAIN weights
    BY <2>1, <2>2
  <2>4. CASE n = "adaptability"
    <3>1. SoundMatrix(weights')
      BY <2>1, ScanIsSound DEF SteadyInv
    <3> QED
      BY <2>4, <3>1 DEF SoundMatrix, Steady
  <2>5. CASE n # "adaptability" /\ n \in approved
    <3>1. ~weights[n].immutable /\ m[n] = weights[n]
      BY <2>1, <2>2, <2>3, <2>5 DEF MayUpdate
    <3>2. weights'[n].immutable = m[n].immutable
      BY <2>1, <2>2, <2>3, <2>5 DEF Touched
    <3> QED
      BY <3>1, <3>2 DEF Steady
  <2>6. CASE n # "adaptability" /\ n \notin approved
    BY <2>1, <2>2, <2>3, <2>6 DEF SteadyInv
  <2> QED
    BY <2>4, <2>5, <2>6
<1>2. CASE Outside
  <2>1. PICK k \in DOMAIN weights, v \in Value : DirectUpdate(k, v) \/ DirectTouch(k, v)
    BY <1>2, MatrixAssumption DEF Outside, SteadyInv, LInv, SoundMatrix, Sound, Weight
  <2>2. weights' = [weights EXCEPT ![k] = Touched(weights[k], v, "untraced")]
    BY <2>1 DEF DirectUpdate, DirectTouch
  <2>3. weights[k].immutable => v = weights[k].value
    BY <2>1 DEF DirectUpdate, DirectTouch, MayTouch, MayUpdate
  <2>4. Sound(weights[k]) /\ Steady(weights[k]) /\ "untraced" \in Source
    BY DEF SteadyInv, LInv, SoundMatrix, Source
  <2>5. Steady(Touched(weights[k], v, "untraced"))
    BY <2>3, <2>4, TouchedIsSteady
  <2>6. n \in DOMAIN weights
    BY <2>2
  <2>7. weights'[n] = IF n = k THEN Touched(weights[k], v, "untraced") ELSE weights[n]
    BY <2>2, <2>6
  <2> QED
    BY <2>5, <2>6, <2>7 DEF SteadyInv
<1>3. ASSUME NEW r \in Registrations, Register(r) PROVE Steady(weights'[n])
  <2>1. weights'[n] = IF n = r.name THEN NewWeight(r) ELSE weights[n]
    BY <1>3 DEF Register
  <2>2. n # r.name => n \in DOMAIN weights
    BY <1>3 DEF Register
  <2>3. Steady(NewWeight(r))
    BY DEF Steady, NewWeight
  <2> QED
    BY <2>1, <2>2, <2>3 DEF SteadyInv
<1>4. CASE UNCHANGED weights
  BY <1>4 DEF SteadyInv
<1> QED
  BY <1>1, <1>2, <1>3, <1>4 DEF LoopNext, Calm, loopVars

\* No protected weight is ever found oscillating: an approved correction is
\* never refused in the middle of a step, for every history length, number of
\* samples and variance threshold.
THEOREM CorrectionNeverRefusedHolds == LoopSpec => []CorrectionNeverRefused
<1>1. SteadyInv => CorrectionNeverRefused
  <2> SUFFICES ASSUME SteadyInv, NEW n \in DOMAIN weights, ~MayUpdate(n),
                      <<n, "oscillating">> \in Findings(weights)
               PROVE  FALSE
    BY DEF CorrectionNeverRefused
  <2> DEFINE w == weights[n]
  <2>1. w.immutable /\ Steady(w) /\ w.history \in Seq(Entry) /\ w.value \in Value
    BY DEF MayUpdate, SteadyInv, LInv, SoundMatrix, Sound, Weight
  <2>2. Volatile(w.history)
    BY DEF Findings, Distortion
  <2>3. \A i \in 1..Len(w.history) : w.history[i].new = w.value
    BY <2>1 DEF Steady
  <2> HIDE DEF w
  <2> QED
    BY <2>1, <2>2, <2>3, ConstantIsNotVolatile
<1>2. LoopInit => SteadyInv
  BY LInit DEF LoopInit, MatrixInit, SteadyInv
<1> QED
  BY <1>1, <1>2, SteadyStep, PTL DEF LoopSpec
=============================================================================
