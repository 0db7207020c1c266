----------------------------- MODULE MinHashLSH -----------------------------
(***************************************************************************)
(* The near-duplicate index of leukocyte_protocol.py.  A MinHash signature *)
(* is cut into bands of rows slots (the constructor requires the bands to  *)
(* divide it); slot i*rows + j is <<i, j>> here.  Two payloads count as    *)
(* one attack when at most MaxMiss of their slots differ: 25 of 128 for    *)
(* the estimate 0.80 the code asks for.                                    *)
(***************************************************************************)
EXTENDS Naturals, FiniteSets

CONSTANTS
  Band,       \* MinHashLSH.BANDS bands
  Row,        \* num_perm / BANDS slots in each
  Value,      \* what a slot can hold
  MaxMiss,    \* the slots that may differ at FUZZY_THRESHOLD
  Sig,        \* the signatures around
  SlotsOf     \* their slots

Slot == Band \X Row

ASSUME SlotAssumption ==
  /\ Band \subseteq Nat /\ IsFiniteSet(Band)
  /\ IsFiniteSet(Row)
  /\ SlotsOf \in [Sig -> [Slot -> Value]]

\* The code's numbers keep this: 25 slots, 32 bands.
ASSUME RecallAssumption == MaxMiss \in Nat /\ MaxMiss < Cardinality(Band)

\* minhash_jaccard counts the slots that agree; these are the others.
Misses(s, t) == {x \in Slot : SlotsOf[s][x] # SlotsOf[t][x]}
Distance == [s \in Sig |-> [t \in Sig |-> Cardinality(Misses(s, t))]]

\* Mutant: the slice has no end.
BandKeyOpenEnd(s, b) == [x \in {c \in Band : c >= b} \X Row |-> SlotsOf[s][x]]

BandKey(s, b) == [r \in Row |-> SlotsOf[s][<<b, r>>]]

\* The signatures that would fall into a bucket of s.
Bucket == [s \in Sig |-> {t \in Sig : \E b \in Band : BandKey(t, b) = BandKey(s, b)}]

\* The closest of a set to s, near enough to count.  Among equals find_similar
\* takes the one its set happens to yield last.
Closest(S, s) ==
  {t \in S : Distance[s][t] <= MaxMiss /\ \A u \in S : Distance[s][t] <= Distance[s][u]}

\* find_similar: only what shares a band is compared.
FindSimilar(indexed, s) == Closest(indexed \cap Bucket[s], s)
=============================================================================
