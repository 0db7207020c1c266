------------------------- MODULE CriticalityMatrix -------------------------
(***************************************************************************)
(* The criticality matrix W (core_engine.py): named weights with a         *)
(* baseline and a bounded history of their changes.  Some are protected    *)
(* (W0): by their own flag, and by a registry of canonical names.          *)
(*                                                                         *)
(* A value is a number of grid units, 0..Top; Top stands for 1.0.  What a  *)
(* refused call does is nothing, so a refusal is a guard.                  *)
(***************************************************************************)
EXTENDS Integers, Sequences

CONSTANTS
  Canonical,      \* W0_INVARIANT_NAMES
  Registrations,  \* the calls of register(): [name, value, baseline, immutable]
  Written,        \* the values that callers outside the loop write
  Top,            \* 1.0
  HistoryMax      \* maxlen of a weight's history

Name == {r.name : r \in Registrations}
Value == 0..Top
Source == {"update_loop", "erythrocyte_correction", "truth_priority_rollback", "untraced"}

ASSUME MatrixAssumption ==
  /\ Top \in Nat \ {0}
  /\ HistoryMax \in Nat \ {0}
  /\ Written \subseteq Value
  /\ \A r \in Registrations :
       r.value \in Value /\ r.baseline \in Value /\ r.immutable \in BOOLEAN

VARIABLE weights   \* name -> Weight, of the names registered so far

-----------------------------------------------------------------------------
(* Weights *)

Entry == [old : Value, new : Value, source : Source]

Weight ==
  [value : Value, baseline : Value, immutable : BOOLEAN, history : Seq(Entry)]

NewWeight(r) ==
  [value |-> r.value, baseline |-> r.baseline, immutable |-> r.immutable,
   history |-> <<>>]

\* Mutant: one entry too many.
RecentAndOne(h) == IF Len(h) > HistoryMax + 1 THEN Tail(h) ELSE h

\* deque(maxlen): the oldest entry makes room.
Recent(h) == IF Len(h) > HistoryMax THEN Tail(h) ELSE h

\* Weight.touch
Touched(w, v, source) ==
  [value |-> v, baseline |-> w.baseline, immutable |-> w.immutable,
   history |-> Recent(Append(w.history, [old |-> w.value, new |-> v, source |-> source]))]

\* Mutant: touch() trusts who holds a reference.
MayTouchAnything(w, v) == TRUE

\* Weight.touch refuses to change a protected value, but not to repeat it.
MayTouch(w, v) == w.immutable => v = w.value

\* W0Guard.enforce_write, asked by CriticalityMatrix.update.
MayUpdate(n) == n \notin Canonical /\ ~weights[n].immutable

\* Mutant: the registry is not asked about new weights.
MayRegisterAnything(r) == TRUE

\* W0Guard.enforce_registration
MayRegister(r) == r.name \in Canonical => r.immutable

-----------------------------------------------------------------------------
(* What the callers of the matrix do *)

\* CriticalityMatrix.__init__
MatrixInit == weights = <<>>

\* A second registration of a name replaces its weight.
Register(r) ==
  /\ MayRegister(r)
  /\ weights' = [n \in DOMAIN weights \cup {r.name} |->
                   IF n = r.name THEN NewWeight(r) ELSE weights[n]]

\* CriticalityMatrix.update from outside the update loop.
DirectUpdate(n, v) ==
  /\ MayUpdate(n)
  /\ weights' = [weights EXCEPT ![n] = Touched(@, v, "untraced")]

\* touch() on a reference that get_weight() has handed out.
DirectTouch(n, v) ==
  /\ MayTouch(weights[n], v)
  /\ weights' = [weights EXCEPT ![n] = Touched(@, v, "untraced")]

\* A protected weight can only be given the value it has.
Outside ==
  \E n \in DOMAIN weights :
    \/ \E v \in Written : DirectUpdate(n, v) \/ DirectTouch(n, v)
    \/ weights[n].immutable /\ DirectTouch(n, weights[n].value)

-----------------------------------------------------------------------------
(* Properties *)

\* Every registered weight is a weight, and no history outgrows its bound.
MatrixTypeOK ==
  /\ DOMAIN weights \subseteq Name
  /\ \A n \in DOMAIN weights :
       weights[n] \in Weight /\ Len(weights[n].history) <= HistoryMax

\* Neither a caller nor the loop changes the value of a weight that is
\* protected by its flag or by its name; only registering the name again does.
W0Untouched ==
  [][\A n \in DOMAIN weights :
       n \in Canonical \/ weights[n].immutable =>
         \/ weights'[n].value = weights[n].value
         \/ \E r \in Registrations : r.name = n /\ Register(r)]_weights

Chained(w) ==
  LET h == w.history
  IN  /\ \A i \in 1..(Len(h) - 1) : h[i].new = h[i + 1].old
      /\ h # <<>> => h[Len(h)].new = w.value

\* The history is a witness of the value: its entries follow one another, and
\* the last one ends at the value.  This is what the erythrocyte reasons from.
HistoryIsWitness == \A n \in DOMAIN weights : Chained(weights[n])
=============================================================================
