------------------------ MODULE MitochondrionProofs ------------------------
(***************************************************************************)
(* What holds of Mitochondrion for every set of engines, topics and        *)
(* contents.                                                               *)
(***************************************************************************)
EXTENDS Mitochondrion, FiniteSetTheorems, TLAPS

-----------------------------------------------------------------------------
(* Counting.                                                               *)

\* A number of confirmations that reached two thirds is at least the quorum.
LEMMA QuorumIsLeast ==
  ASSUME NEW k \in Nat, NEW p \in Nat, 3 * k >= 2 * p
  PROVE  QuorumOf(p) \in Nat /\ QuorumOf(p) <= k
<1> DEFINE q == (2 * p + 2) \div 3
<1>1. q \in Int /\ 3 * q <= 2 * p + 2 /\ 2 * p + 2 < 3 * q + 3
  OBVIOUS
<1> QED
  BY <1>1 DEF QuorumOf

\* Two quorums of disjoint holders fit side by side.
LEMMA SideBySide ==
  ASSUME NEW E, IsFiniteSet(E), NEW A \in SUBSET E, NEW B \in SUBSET E, A \cap B = {},
         NEW p \in Nat, NEW q \in Nat,
         3 * Cardinality(A) >= 2 * p, 3 * Cardinality(B) >= 2 * q
  PROVE  QuorumOf(p) + QuorumOf(q) <= Cardinality(E)
<1>1. IsFiniteSet(A) /\ IsFiniteSet(B)
  BY FS_Subset
<1>2. /\ Cardinality(A) \in Nat /\ Cardinality(B) \in Nat /\ Cardinality(E) \in Nat
      /\ Cardinality(A \cup B) \in Nat
  BY <1>1, FS_CardinalityType, FS_Union
<1>3. Cardinality(A \cup B) = Cardinality(A) + Cardinality(B)
  <2>1. Cardinality(A \cap B) = 0
    BY FS_EmptySet
  <2>2. Cardinality(A \cup B) = Cardinality(A) + Cardinality(B) - Cardinality(A \cap B)
    BY <1>1, FS_Union
  <2> QED
    BY <1>2, <2>1, <2>2
<1>4. Cardinality(A \cup B) <= Cardinality(E)
  <2>1. A \cup B \in SUBSET E
    OBVIOUS
  <2> QED
    BY <2>1, FS_Subset
<1>5. /\ QuorumOf(p) \in Nat /\ QuorumOf(p) <= Cardinality(A)
      /\ QuorumOf(q) \in Nat /\ QuorumOf(q) <= Cardinality(B)
  BY <1>2, QuorumIsLeast
<1> QED
  BY <1>2, <1>3, <1>4, <1>5

-----------------------------------------------------------------------------
(* Agreement.                                                              *)

\* The polled engines that hold an anchor of c for t.
Holders(S, t, c) == {p \in S : verified_ledger[p][t] = c}

\* Whatever was assimilated still has the anchors that confirmed it.
Confirmed(x) ==
  3 * Cardinality(Holders(x.polled, x.topic, x.content)) >= 2 * Cardinality(x.polled)

KnowledgeInv == KnowledgeTypeOK /\ \A x \in confirmed : Confirmed(x)

LEMMA EnginesFinite ==
  ASSUME NEW S \in SUBSET Engine
  PROVE  IsFiniteSet(S) /\ Cardinality(S) \in Nat
BY EngineAssumption, FS_Subset, FS_CardinalityType

LEMMA KnowledgeTypes ==
  ASSUME KnowledgeTypeOK, [KnowledgeNext]_knowledgeVars
  PROVE  KnowledgeTypeOK'
<1> USE DEF KnowledgeTypeOK
<1>1. ASSUME NEW e \in Engine, NEW sameId \in SUBSET engines, AddNode(e, sameId)
      PROVE  KnowledgeTypeOK'
  <2>1. e \notin engines /\ peers[e] = {} /\ engines \subseteq Engine
    BY <1>1 DEF AddNode, Built
  <2>2. peers' \in [Engine -> SUBSET Engine]
    BY <1>1, <2>1 DEF AddNode
  <2>3. \A f \in Engine : e \notin peers[f]
    BY <2>1
  <2>4. ASSUME NEW f \in Engine
        PROVE  peers'[f] = (IF f = e THEN engines
                            ELSE IF f \in engines THEN peers[f] \cup {e} ELSE peers[f])
    BY <1>1 DEF AddNode
  <2>5. ASSUME NEW f \in Engine, NEW g \in Engine
        PROVE  f \in peers'[g] => g \in peers'[f] /\ f # g
    <3>1. f \in peers[g] => g \in peers[f] /\ f # g
      OBVIOUS
    <3>2. f \in engines /\ g = e => f # e
      BY <2>1
    <3> HIDE DEF KnowledgeTypeOK
    <3> QED
      BY <2>1, <2>3, <2>4, <3>1, <3>2
  <2>6. ASSUME NEW f \in engines', NEW g \in engines', f # g
        PROVE  f \in peers'[g]
    BY <1>1, <2>1, <2>4, <2>6 DEF AddNode
  <2> QED
    BY <1>1, <2>1, <2>2, <2>5, <2>6 DEF AddNode
<1>2. ASSUME NEW e \in Engine, NEW t \in Topic, NEW c \in Content, EarnAnchor(e, t, c)
      PROVE  KnowledgeTypeOK'
  BY <1>2 DEF EarnAnchor
<1>3. ASSUME NEW e \in Engine, NEW t \in Topic, NEW c \in Content, Assimilate(e, t, c)
      PROVE  KnowledgeTypeOK'
  <2>1. Settled(e, t, c) \in Content \cup {NoContent}
    BY DEF Settled
  <2>2. peers[e] \in SUBSET Engine
    OBVIOUS
  <2>4. confirmed' \subseteq Confirmation
    BY <1>3, <2>2 DEF Assimilate, Confirmation
  <2>5. verified_ledger' \in [Engine -> [Topic -> Content \cup {NoContent}]]
    BY <1>3, <2>1 DEF Assimilate
  <2>6. knowledge_base' \in [Engine -> [Topic -> Content \cup {NoContent}]]
    BY <1>3 DEF Assimilate
  <2> QED
    BY <1>3, <2>4, <2>5, <2>6 DEF Assimilate
<1>4. ASSUME NEW e \in Engine, NEW t \in Topic, NEW c \in Content, NEW intact \in BOOLEAN,
             Quarantine(e, t, c, intact)
      PROVE  KnowledgeTypeOK'
  BY <1>4 DEF Quarantine
<1>5. CASE UNCHANGED knowledgeVars
  BY <1>5 DEF knowledgeVars
<1> QED
  <2>1. ASSUME NEW e \in Engine, AddNode(e, {}) \/ \E f \in engines : AddNode(e, {f})
        PROVE  KnowledgeTypeOK'
    BY <1>1, <2>1
  <2> HIDE DEF KnowledgeTypeOK
  <2> QED
    BY <1>2, <1>3, <1>4, <1>5, <2>1 DEF KnowledgeNext

\* Anchors are only set, so no step takes a holder away.
LEMMA HoldersStay ==
  ASSUME KnowledgeTypeOK, [KnowledgeNext]_knowledgeVars,
         NEW S \in SUBSET Engine, NEW t \in Topic, NEW c \in Content
  PROVE  Holders(S, t, c) \subseteq Holders(S, t, c)'
<1>1. ASSUME NEW p \in Engine, NEW u \in Topic, verified_ledger[p][u] # NoContent
      PROVE  verified_ledger'[p][u] = verified_ledger[p][u]
  <2> USE <1>1 DEF KnowledgeTypeOK
  <2>1. ASSUME NEW e \in Engine, NEW v \in Topic, NEW d \in Content, EarnAnchor(e, v, d)
        PROVE  verified_ledger'[p][u] = verified_ledger[p][u]
    BY <2>1 DEF EarnAnchor
  <2>2. ASSUME NEW e \in Engine, NEW v \in Topic, NEW d \in Content, Assimilate(e, v, d)
        PROVE  verified_ledger'[p][u] = verified_ledger[p][u]
    BY <2>2 DEF Assimilate, Settled
  <2> QED
    BY <2>1, <2>2 DEF KnowledgeNext, knowledgeVars, AddNode, Quarantine
<1> QED
  BY <1>1, EngineAssumption DEF Holders

\* What was confirmed stays confirmed.
LEMMA StaysConfirmed ==
  ASSUME KnowledgeTypeOK, [KnowledgeNext]_knowledgeVars,
         NEW x \in Confirmation, Confirmed(x)
  PROVE  Confirmed(x)'
<1>1. x.polled \in SUBSET Engine /\ x.topic \in Topic /\ x.content \in Content
  BY DEF Confirmation
<1> DEFINE H == Holders(x.polled, x.topic, x.content)
<1>2. H \subseteq H'
  BY <1>1, HoldersStay
<1>3. H \in SUBSET Engine /\ H' \in SUBSET Engine
  BY <1>1 DEF Holders
<1>4. 3 * Cardinality(H) >= 2 * Cardinality(x.polled)
  BY DEF Confirmed
<1>5. 3 * Cardinality(H') >= 2 * Cardinality(x.polled)
  <2>1. IsFiniteSet(H') /\ Cardinality(H) \in Nat /\ Cardinality(H') \in Nat
        /\ Cardinality(x.polled) \in Nat
    BY <1>1, <1>3, EnginesFinite
  <2> HIDE DEF H
  <2>2. Cardinality(H) <= Cardinality(H')
    BY <1>2, <2>1, FS_Subset
  <2> QED
    BY <1>4, <2>1, <2>2
<1> QED
  BY <1>5 DEF Confirmed

LEMMA KnowledgeStep ==
  ASSUME KnowledgeInv, [KnowledgeNext]_knowledgeVars
  PROVE  KnowledgeInv'
<1>1. KnowledgeTypeOK /\ KnowledgeTypeOK'
  BY KnowledgeTypes DEF KnowledgeInv
<1>2. confirmed \subseteq Confirmation /\ \A x \in confirmed : Confirmed(x)
  BY <1>1 DEF KnowledgeTypeOK, KnowledgeInv
<1>3. ASSUME NEW e \in Engine, NEW t \in Topic, NEW c \in Content, Assimilate(e, t, c)
      PROVE  \A x \in confirmed' : Confirmed(x)'
  <2> DEFINE z == [engine |-> e, topic |-> t, content |-> c, polled |-> peers[e]]
  <2>1. confirmed' = confirmed \cup {z}
    BY <1>3 DEF Assimilate
  <2>2. z \in Confirmation
    BY <1>1 DEF KnowledgeTypeOK, Confirmation
  <2>3. Confirmed(z)
    <3>1. Confirming(e, t, c) = Holders(peers[e], t, c)
      BY DEF Confirming, Poll, Holders
    <3> QED
      BY <1>3, <3>1 DEF Assimilate, Reached, Confirmed
  <2> HIDE DEF z
  <2> QED
    BY <1>1, <1>2, <2>1, <2>2, <2>3, StaysConfirmed
<1>4. ASSUME confirmed' = confirmed PROVE \A x \in confirmed' : Confirmed(x)'
  BY <1>1, <1>2, <1>4, StaysConfirmed
<1>5. \/ \E e \in Engine, t \in Topic, c \in Content : Assimilate(e, t, c)
      \/ confirmed' = confirmed
  BY DEF KnowledgeNext, knowledgeVars, AddNode, EarnAnchor, Quarantine
<1> QED
  BY <1>1, <1>3, <1>4, <1>5 DEF KnowledgeInv

\* An anchor is for one content, so the holders of two contents are disjoint and
\* both quorums are among those polled for either.
LEMMA ConfirmedFit ==
  ASSUME NEW x \in Confirmation, NEW y \in Confirmation, Confirmed(x), Confirmed(y),
         x.topic = y.topic, x.content # y.content
  PROVE  QuorumOf(Cardinality(x.polled)) + QuorumOf(Cardinality(y.polled)) <=
           Cardinality(x.polled \cup y.polled)
<1> DEFINE A == Holders(x.polled, x.topic, x.content)
           B == Holders(y.polled, y.topic, y.content)
           E == x.polled \cup y.polled
<1>1. x.polled \in SUBSET Engine /\ y.polled \in SUBSET Engine
  BY DEF Confirmation
<1>2. Cardinality(x.polled) \in Nat /\ Cardinality(y.polled) \in Nat /\ IsFiniteSet(E)
  BY <1>1, EnginesFinite
<1>3. A \in SUBSET E /\ B \in SUBSET E /\ A \cap B = {}
  BY DEF Holders
<1>4. 3 * Cardinality(A) >= 2 * Cardinality(x.polled) /\ 3 * Cardinality(B) >= 2 * Cardinality(y.polled)
  BY DEF Confirmed
<1> HIDE DEF A, B, E
<1>5. QuorumOf(Cardinality(x.polled)) + QuorumOf(Cardinality(y.polled)) <= Cardinality(E)
  BY <1>2, <1>3, <1>4, SideBySide
<1> QED
  BY <1>5 DEF E

\* Every variable keeps its type, peers are mutual, and the network is a full mesh.
THEOREM KnowledgeTypesHold == KnowledgeSpec => []KnowledgeTypeOK
<1>1. KnowledgeInit => KnowledgeTypeOK
  BY DEF KnowledgeInit, KnowledgeTypeOK
<1> QED
  BY <1>1, KnowledgeTypes, PTL DEF KnowledgeSpec

\* Contradicting knowledge, of one engine or of two, needs two quorums side by
\* side among all the peers that were asked.
THEOREM KnowledgeAgreesHolds == KnowledgeSpec => []KnowledgeAgrees
<1>1. KnowledgeInit => KnowledgeInv
  BY DEF KnowledgeInit, KnowledgeInv, KnowledgeTypeOK
<1>2. KnowledgeInv /\ [KnowledgeNext]_knowledgeVars => KnowledgeInv'
  BY KnowledgeStep
<1>3. KnowledgeInv => KnowledgeAgrees
  BY ConfirmedFit DEF KnowledgeInv, KnowledgeTypeOK, KnowledgeAgrees
<1> QED
  BY <1>1, <1>2, <1>3, PTL DEF KnowledgeSpec

-----------------------------------------------------------------------------
(* Provenance.                                                             *)

\* Every anchor and everything known was once verified by someone.
Rooted ==
  \A e \in Engine, t \in Topic :
    /\ verified_ledger[e][t] # NoContent => \E f \in Engine : <<f, t, verified_ledger[e][t]>> \in seeded
    /\ knowledge_base[e][t] # NoContent => \E f \in Engine : <<f, t, knowledge_base[e][t]>> \in seeded

LEMMA RootedStep ==
  ASSUME KnowledgeTypeOK, Rooted, [KnowledgeNext]_knowledgeVars
  PROVE  Rooted'
<1>1. ASSUME NEW e \in Engine, NEW t \in Topic, NEW c \in Content, EarnAnchor(e, t, c)
      PROVE  Rooted'
  <2>1. seeded \subseteq seeded' /\ <<e, t, c>> \in seeded' /\ knowledge_base' = knowledge_base
    BY <1>1 DEF EarnAnchor
  <2>2. ASSUME NEW p \in Engine, NEW u \in Topic
        PROVE  verified_ledger'[p][u] = verified_ledger[p][u]
               \/ (p = e /\ u = t /\ verified_ledger'[p][u] = c)
    BY <1>1 DEF EarnAnchor, KnowledgeTypeOK
  <2> QED
    BY <2>1, <2>2 DEF Rooted
<1>2. ASSUME NEW e \in Engine, NEW t \in Topic, NEW c \in Content, Assimilate(e, t, c)
      PROVE  Rooted'
  <2>1. Confirming(e, t, c) # {}
    <3>1. Reached(Cardinality(Confirming(e, t, c)), Cardinality(peers[e]))
      BY <1>2 DEF Assimilate
    <3>2. peers[e] \in SUBSET Engine
      BY DEF KnowledgeTypeOK
    <3>3. Cardinality(peers[e]) \in Nat
      BY <3>2, EnginesFinite
    <3>4. Confirming(e, t, c) = {} => Cardinality(Confirming(e, t, c)) = 0
      BY FS_EmptySet
    <3> QED
      BY <3>1, <3>3, <3>4 DEF Reached
  <2>2. PICK p \in Engine : verified_ledger[p][t] = c
    BY <2>1 DEF Confirming, Poll, KnowledgeTypeOK
  <2>3. PICK f \in Engine : <<f, t, c>> \in seeded
    BY <2>2, EngineAssumption DEF Rooted
  <2>4. ASSUME NEW q \in Engine, NEW u \in Topic
        PROVE  /\ verified_ledger'[q][u] \in {verified_ledger[q][u], c}
               /\ knowledge_base'[q][u] \in {knowledge_base[q][u], c}
               /\ u # t => verified_ledger'[q][u] = verified_ledger[q][u]
                           /\ knowledge_base'[q][u] = knowledge_base[q][u]
    BY <1>2 DEF Assimilate, Settled, KnowledgeTypeOK
  <2>5. seeded' = seeded
    BY <1>2 DEF Assimilate
  <2> QED
    BY <2>3, <2>4, <2>5 DEF Rooted
<1>3. ASSUME UNCHANGED <<verified_ledger, knowledge_base, seeded>> PROVE Rooted'
  BY <1>3 DEF Rooted
<1> QED
  BY <1>1, <1>2, <1>3 DEF KnowledgeNext, knowledgeVars, AddNode, Quarantine

\* Over any number of hops, what an engine knows was verified by somebody.
THEOREM KnowledgeHasWitnessHolds == KnowledgeSpec => []KnowledgeHasWitness
<1>1. KnowledgeInit => KnowledgeTypeOK /\ Rooted
  BY DEF KnowledgeInit, KnowledgeTypeOK, Rooted
<1>2. KnowledgeTypeOK /\ Rooted /\ [KnowledgeNext]_knowledgeVars => KnowledgeTypeOK' /\ Rooted'
  BY KnowledgeTypes, RootedStep
<1>3. Rooted => KnowledgeHasWitness
  BY DEF Rooted, KnowledgeHasWitness
<1> QED
  BY <1>1, <1>2, <1>3, PTL DEF KnowledgeSpec
=============================================================================
