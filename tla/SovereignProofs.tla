-------------------------- MODULE SovereignProofs --------------------------
(***************************************************************************)
(* What holds of SovereignActions for every number of nodes, contracts and *)
(* weights.                                                                *)
(***************************************************************************)
EXTENDS SovereignActions, TLAPS

-----------------------------------------------------------------------------
(* The records that the calls make of a contract.                          *)

LEMMA RejectedIs ==
  ASSUME NEW k \in ContractType, NEW why \in Reason
  PROVE  /\ Rejected(k, why) \in ContractType
         /\ Rejected(k, why).status = "rejected"
         /\ Rejected(k, why).rejection_reason = why
         /\ Rejected(k, why).cedes = k.cedes
         /\ Rejected(k, why).signature_party_a = k.signature_party_a
         /\ Rejected(k, why).signature_party_b = k.signature_party_b
         /\ Rejected(k, why).party_a = k.party_a
BY DEF Rejected, ContractType

LEMMA FreshIs ==
  ASSUME NEW n \in Node, NEW terms \in WeightName \cup {NoName}
  PROVE  /\ Fresh(n, terms) \in ContractType
         /\ Fresh(n, terms).signature_party_a = NoNode
         /\ Fresh(n, terms).signature_party_b = NoNode
         /\ Offered(n, terms) \in ContractType
         /\ Offered(n, terms).status = "pending"
         /\ Offered(n, terms).party_a = n
         /\ Offered(n, terms).signature_party_a = n
         /\ Offered(n, terms).signature_party_b = NoNode
BY DEF Fresh, Offered, Draft, ContractType

LEMMA CounterSignedIs ==
  ASSUME NEW n \in Node, NEW k \in ContractType
  PROVE  /\ CounterSigned(n, k) \in ContractType
         /\ CounterSigned(n, k).status \in {"active", "pending"}
         /\ CounterSigned(n, k).status = "active" => k.signature_party_a # NoNode
         /\ CounterSigned(n, k).cedes = k.cedes
         /\ CounterSigned(n, k).party_a = k.party_a
         /\ CounterSigned(n, k).signature_party_a = k.signature_party_a
         /\ CounterSigned(n, k).signature_party_b = n
BY DEF CounterSigned, StatusOf, ContractType

-----------------------------------------------------------------------------
(* The invariant.                                                          *)

\* The registry keeps canonical names out of the mutable ones.
Guarded == \A n \in Node, k \in W0Name : weight[n][k] # "mutable"

\* Whoever signed has the contract in its log.
SignaturesLogged ==
  \A c \in Contract :
    LET k == contract[c]
    IN /\ k.signature_party_a # NoNode =>
            k.signature_party_a = k.party_a /\ c \in contract_log[k.signature_party_a]
       /\ k.signature_party_b # NoNode => c \in contract_log[k.signature_party_b]
       /\ k.status = "active" => k.signature_party_a # NoNode /\ k.signature_party_b # NoNode
       /\ k.status = "rejected" =>
            k.rejection_reason # "none" /\ \E n \in Node : c \in security_log[n]

\* What waits for an approval has passed the sovereignty check, and nobody
\* changes a contract's terms any more.
PendingCleared ==
  \A n \in Node, c \in Contract : <<n, c>> \in asked =>
    contract[c].status # "draft" /\ contract[c].cedes \notin W0Name

SovereignInv ==
  SovereignTypeOK /\ BrakeStays /\ Guarded /\ NoW0Ceded /\ SignaturesLogged /\ PendingCleared

\* What the conjuncts about contracts say of one of them.
Fine(c, k) ==
  /\ k \in ContractType
  /\ k.cedes \in W0Name => k.signature_party_b = NoNode
  /\ k.signature_party_a # NoNode => k.signature_party_a = k.party_a
  /\ k.status = "active" => k.signature_party_a # NoNode /\ k.signature_party_b # NoNode
  /\ k.status = "rejected" => k.rejection_reason # "none"

\* A call that puts k in place of one contract, and logs what it signed or
\* refused, keeps the invariant.
LEMMA Putting ==
  ASSUME SovereignInv, NEW c \in Contract, NEW k, Fine(c, k), NEW n \in Node,
         contract' = [contract EXCEPT ![c] = k],
         \/ /\ security_log' = [security_log EXCEPT ![n] = @ \cup {c}]
            /\ contract_log' = contract_log
            /\ k.signature_party_a \in {NoNode, contract[c].signature_party_a}
            /\ k.signature_party_b \in {NoNode, contract[c].signature_party_b}
         \/ /\ contract_log' = [contract_log EXCEPT ![n] = @ \cup {c}]
            /\ security_log' = security_log
            /\ k.status # "rejected"
            /\ k.signature_party_a \in {NoNode, n, contract[c].signature_party_a}
            /\ k.signature_party_b \in {NoNode, n, contract[c].signature_party_b},
         UNCHANGED <<weight, engine, signals>>, asked' \subseteq asked,
         k.status # "draft", contract[c].status = "draft" \/ k.cedes = contract[c].cedes
  PROVE  SovereignInv'
<1>1. /\ contract_log' \in [Node -> SUBSET Contract] /\ security_log' \in [Node -> SUBSET Contract]
      /\ \A m \in Node : contract_log[m] \subseteq contract_log'[m] /\ security_log[m] \subseteq security_log'[m]
  <2>1. contract_log \in [Node -> SUBSET Contract] /\ security_log \in [Node -> SUBSET Contract]
    BY DEF SovereignInv, SovereignTypeOK
  <2>2. contract_log' = contract_log \/ contract_log' = [contract_log EXCEPT ![n] = @ \cup {c}]
    OBVIOUS
  <2>3. security_log' = security_log \/ security_log' = [security_log EXCEPT ![n] = @ \cup {c}]
    OBVIOUS
  <2>4. /\ contract_log' \in [Node -> SUBSET Contract]
        /\ \A m \in Node : contract_log[m] \subseteq contract_log'[m]
    BY <2>1, <2>2
  <2>5. /\ security_log' \in [Node -> SUBSET Contract]
        /\ \A m \in Node : security_log[m] \subseteq security_log'[m]
    BY <2>1, <2>3
  <2> QED
    BY <2>4, <2>5
<1>2. contract' \in [Contract -> ContractType]
  BY DEF SovereignInv, SovereignTypeOK, Fine
<1>3. contract'[c] = k /\ \A d \in Contract \ {c} : contract'[d] = contract[d]
  BY DEF SovereignInv, SovereignTypeOK
<1>4. SovereignTypeOK' /\ BrakeStays' /\ Guarded'
  BY <1>1, <1>2 DEF SovereignInv, SovereignTypeOK, BrakeStays, Guarded, signals
<1>5. NoW0Ceded'
  BY <1>3 DEF SovereignInv, NoW0Ceded, Fine
<1>6. SignaturesLogged'
  <2>1. ASSUME NEW d \in Contract \ {c}
        PROVE  LET j == contract[d]
               IN /\ j.signature_party_a # NoNode =>
                       j.signature_party_a = j.party_a /\ d \in contract_log'[j.signature_party_a]
                  /\ j.signature_party_b # NoNode => d \in contract_log'[j.signature_party_b]
                  /\ j.status = "active" => j.signature_party_a # NoNode /\ j.signature_party_b # NoNode
                  /\ j.status = "rejected" =>
                       j.rejection_reason # "none" /\ \E m \in Node : d \in security_log'[m]
    <3>1. contract[d] \in ContractType
      BY DEF SovereignInv, SovereignTypeOK
    <3>2. /\ contract[d].signature_party_a # NoNode => contract[d].signature_party_a \in Node
          /\ contract[d].signature_party_b # NoNode => contract[d].signature_party_b \in Node
      BY <3>1 DEF ContractType
    <3> QED
      BY <1>1, <1>3, <3>2 DEF SovereignInv, SignaturesLogged
  <2>2. /\ k.signature_party_a # NoNode =>
             k.signature_party_a = k.party_a /\ c \in contract_log'[k.signature_party_a]
        /\ k.signature_party_b # NoNode => c \in contract_log'[k.signature_party_b]
    <3> DEFINE j == contract[c]
    <3>1. j \in ContractType /\ k \in ContractType
      BY DEF SovereignInv, SovereignTypeOK, Fine
    <3>2. /\ j.signature_party_a # NoNode => j.signature_party_a \in Node /\ c \in contract_log[j.signature_party_a]
          /\ j.signature_party_b # NoNode => j.signature_party_b \in Node /\ c \in contract_log[j.signature_party_b]
      BY <3>1 DEF SovereignInv, SignaturesLogged, ContractType
    <3>3. c \in contract_log'[n] \/ contract_log' = contract_log
      BY DEF SovereignInv, SovereignTypeOK
    <3> QED
      BY <1>1, <3>2, <3>3 DEF Fine
  <2>3. k.status = "rejected" => \E m \in Node : c \in security_log'[m]
    BY DEF SovereignInv, SovereignTypeOK
  <2> QED
    BY <1>3, <2>1, <2>2, <2>3 DEF SignaturesLogged, Fine
<1>7. PendingCleared'
  BY <1>3 DEF SovereignInv, PendingCleared
<1> QED
  BY <1>4, <1>5, <1>6, <1>7 DEF SovereignInv

\* A refusal, at whatever point of an evaluation.
LEMMA Rejecting ==
  ASSUME SovereignInv, NEW n \in Node, NEW c \in Contract, NEW why \in Reason,
         Reject(n, c, contract[c], why), contract[c].status # "draft",
         UNCHANGED <<weight, engine, signals>>, asked' \subseteq asked
  PROVE  SovereignInv'
<1> DEFINE k == Rejected(contract[c], why)
<1>1. contract[c] \in ContractType
  BY DEF SovereignInv, SovereignTypeOK
<1>2. /\ Fine(c, k) /\ k.status # "draft" /\ k.cedes = contract[c].cedes
      /\ k.signature_party_a = contract[c].signature_party_a
      /\ k.signature_party_b = contract[c].signature_party_b
  BY <1>1, RejectedIs DEF Fine, Reason, SovereignInv, NoW0Ceded, SignaturesLogged
<1>3. /\ contract' = [contract EXCEPT ![c] = k]
      /\ security_log' = [security_log EXCEPT ![n] = @ \cup {c}]
      /\ contract_log' = contract_log
  BY DEF Reject
<1> HIDE DEF k
<1> QED
  BY <1>2, <1>3, Putting

\* A counter-signature, of a contract that cedes no canonical invariant.
LEMMA CounterSigning ==
  ASSUME SovereignInv, NEW n \in Node, NEW c \in Contract,
         CounterSign(n, c), contract[c].cedes \notin W0Name,
         UNCHANGED <<weight, engine, signals>>, asked' \subseteq asked
  PROVE  SovereignInv'
<1> DEFINE k == CounterSigned(n, contract[c])
<1>1. contract[c] \in ContractType
  BY DEF SovereignInv, SovereignTypeOK
<1>2. /\ Fine(c, k) /\ k.status \notin {"rejected", "draft"} /\ k.cedes = contract[c].cedes
      /\ k.signature_party_a = contract[c].signature_party_a
      /\ k.signature_party_b = n
  BY <1>1, CounterSignedIs, NodeAssumption DEF Fine, SovereignInv, SignaturesLogged
<1>3. /\ contract' = [contract EXCEPT ![c] = k]
      /\ contract_log' = [contract_log EXCEPT ![n] = @ \cup {c}]
      /\ security_log' = security_log
  BY DEF CounterSign
<1> HIDE DEF k
<1> QED
  BY <1>2, <1>3, Putting

LEMMA SovereignStep ==
  ASSUME SovereignInv, [SovereignNext]_sovereignVars
  PROVE  SovereignInv'
<1>1. ASSUME NEW n \in Node, NEW k \in WeightName, NEW p \in Protection \ {"absent"}, RegisterWeight(n, k, p)
      PROVE  SovereignInv'
  <2>1. weight' = [weight EXCEPT ![n][k] = p] /\ (k \in W0Name => p = "immutable")
    BY <1>1 DEF RegisterWeight, RegistrationAllowed
  <2>2. weight' \in [Node -> [WeightName -> Protection]]
    BY <2>1 DEF SovereignInv, SovereignTypeOK
  <2>3. BrakeStays' /\ Guarded'
    BY <1>1, <2>1, NameAssumption DEF RegisterWeight, SovereignInv, SovereignTypeOK, BrakeStays, Guarded
  <2> QED
    BY <1>1, <2>2, <2>3 DEF RegisterWeight, signals, books, SovereignInv, SovereignTypeOK,
       NoW0Ceded, SignaturesLogged, PendingCleared
<1>2. ASSUME NEW n \in Node, NEW e \in {"no_channel", "channel"}, BuildEngine(n, e)
      PROVE  SovereignInv'
  BY <1>2 DEF BuildEngine, signals, books, SovereignInv, SovereignTypeOK, BrakeStays, Guarded,
     NoW0Ceded, SignaturesLogged, PendingCleared
<1>3. ASSUME NEW n \in Node, NEW on \in BOOLEAN, SetVeto(n, on) \/ SetReview(n, on)
      PROVE  SovereignInv'
  <2>1. veto' \in [Node -> BOOLEAN] /\ review' \in [Node -> BOOLEAN]
    BY <1>3 DEF SetVeto, SetReview, SovereignInv, SovereignTypeOK
  <2>2. UNCHANGED <<weight, engine, contract, contract_log, asked, security_log>>
    BY <1>3 DEF SetVeto, SetReview, books
  <2> QED
    BY <2>1, <2>2 DEF SovereignInv, SovereignTypeOK, BrakeStays, Guarded, NoW0Ceded,
       SignaturesLogged, PendingCleared
<1>4. ASSUME NEW n \in Node, NEW c \in Contract, NEW terms \in WeightName \cup {NoName}, Initiate(n, c, terms)
      PROVE  SovereignInv'
  <2>1. /\ UNCHANGED <<weight, engine, signals, asked>>
        /\ contract[c].status = "draft"
    BY <1>4 DEF Initiate
  <2>2. CASE Reject(n, c, Fresh(n, terms), "veto")
    <3> DEFINE k == Rejected(Fresh(n, terms), "veto")
    <3>1. /\ Fine(c, k) /\ k.status # "draft"
          /\ k.signature_party_a = NoNode /\ k.signature_party_b = NoNode
      BY FreshIs, RejectedIs DEF Fine, Reason
    <3>2. /\ contract' = [contract EXCEPT ![c] = k]
          /\ security_log' = [security_log EXCEPT ![n] = @ \cup {c}]
          /\ contract_log' = contract_log
      BY <2>2 DEF Reject
    <3> HIDE DEF k
    <3> QED
      BY <2>1, <3>1, <3>2, Putting
  <2>3. CASE /\ contract' = [contract EXCEPT ![c] = Offered(n, terms)]
             /\ contract_log' = [contract_log EXCEPT ![n] = @ \cup {c}]
             /\ UNCHANGED security_log
    <3> DEFINE k == Offered(n, terms)
    <3>1. /\ Fine(c, k) /\ k.status = "pending"
          /\ k.signature_party_a = n /\ k.signature_party_b = NoNode
      BY FreshIs DEF Fine
    <3>2. /\ contract' = [contract EXCEPT ![c] = k]
          /\ contract_log' = [contract_log EXCEPT ![n] = @ \cup {c}]
          /\ security_log' = security_log
      BY <2>3
    <3> HIDE DEF k
    <3> QED
      BY <2>1, <3>1, <3>2, Putting
  <2> QED
    BY <1>4, <2>2, <2>3 DEF Initiate
<1>5. ASSUME NEW n \in Node, NEW c \in Contract, Evaluate(n, c)
      PROVE  SovereignInv'
  <2>1. UNCHANGED <<weight, engine, signals>> /\ contract[c].status # "draft"
    BY <1>5 DEF Evaluate
  <2>2. CASE asked' = asked
    <3>1. \/ \E why \in Reason : Reject(n, c, contract[c], why)
          \/ ~Violates(n, c) /\ CounterSign(n, c)
          \/ UNCHANGED books
      BY <1>5 DEF Evaluate, Reason
    <3>2. ~Violates(n, c) => contract[c].cedes \notin W0Name
      BY NameAssumption DEF Violates, SovereignInv, Guarded
    <3>3. CASE UNCHANGED books
      BY <2>1, <2>2, <3>3 DEF signals, books, SovereignInv, SovereignTypeOK, BrakeStays, Guarded,
         NoW0Ceded, SignaturesLogged, PendingCleared
    <3> QED
      BY <2>1, <2>2, <3>1, <3>2, <3>3, Rejecting, CounterSigning
  <2>3. CASE ~Violates(n, c) /\ asked' = asked \cup {<<n, c>>} /\ UNCHANGED books
    <3>1. contract[c].cedes \notin W0Name
      BY <2>3, NameAssumption DEF Violates, SovereignInv, Guarded
    <3>2. asked' \subseteq Node \X Contract
      BY <2>3 DEF SovereignInv, SovereignTypeOK
    <3>3. PendingCleared'
      BY <2>1, <2>3, <3>1 DEF books, SovereignInv, PendingCleared
    <3> QED
      BY <2>1, <2>3, <3>2, <3>3 DEF signals, books, SovereignInv, SovereignTypeOK, BrakeStays,
         Guarded, NoW0Ceded, SignaturesLogged
  <2> QED
    BY <1>5, <2>2, <2>3 DEF Evaluate
<1>7. ASSUME NEW n \in Node, NEW c \in Contract, Resolve(n, c)
      PROVE  SovereignInv'
  <2>1. /\ UNCHANGED <<weight, engine, signals>> /\ asked' \subseteq asked
        /\ contract[c].status # "draft" /\ contract[c].cedes \notin W0Name
        /\ CounterSign(n, c) \/ Reject(n, c, contract[c], "denied")
    BY <1>7 DEF Resolve, SovereignInv, PendingCleared
  <2> QED
    BY <2>1, Rejecting, CounterSigning DEF Reason
<1>6. CASE UNCHANGED sovereignVars
  BY <1>6 DEF sovereignVars, SovereignInv, SovereignTypeOK, BrakeStays, Guarded, NoW0Ceded,
     SignaturesLogged, PendingCleared
<1> QED
  BY <1>1, <1>2, <1>3, <1>4, <1>5, <1>6, <1>7 DEF SovereignNext

LEMMA SovereignStart == SovereignInit => SovereignInv
BY NameAssumption DEF SovereignInit, SovereignInv, SovereignTypeOK, ContractType, Draft, Protection,
   BrakeStays, Guarded, NoW0Ceded, SignaturesLogged, PendingCleared

LEMMA SovereignInvHolds == SovereignSpec => []SovereignInv
<1> QED
  BY SovereignStart, SovereignStep, PTL DEF SovereignSpec

-----------------------------------------------------------------------------
(* The theorems.                                                           *)

\* Every variable keeps its type.
THEOREM SovereignTypes == SovereignSpec => []SovereignTypeOK
<1>1. SovereignInv => SovereignTypeOK
  BY DEF SovereignInv
<1> QED
  BY <1>1, SovereignInvHolds, PTL

\* The constructor's check of the brake holds for the life of the engine.
THEOREM BrakeStaysHolds == SovereignSpec => []BrakeStays
<1>1. SovereignInv => BrakeStays
  BY DEF SovereignInv
<1> QED
  BY <1>1, SovereignInvHolds, PTL

\* Control of a canonical invariant is never ceded.
THEOREM NoW0CededHolds == SovereignSpec => []NoW0Ceded
<1>1. SovereignInv => NoW0Ceded
  BY DEF SovereignInv
<1> QED
  BY <1>1, SovereignInvHolds, PTL

\* What a contract's status says is backed by signatures and logs.
THEOREM StatusIsBackedHolds == SovereignSpec => []StatusIsBacked
<1>1. ASSUME SovereignInv, NEW c \in Contract
      PROVE  LET k == contract[c]
             IN /\ k.status = "active" =>
                     /\ k.signature_party_a = k.party_a /\ k.party_a \in Node
                     /\ k.signature_party_b \in Node
                     /\ c \in contract_log[k.signature_party_a] \cap contract_log[k.signature_party_b]
                /\ k.status = "rejected" =>
                     k.rejection_reason # "none" /\ \E n \in Node : c \in security_log[n]
  <2>1. contract[c] \in ContractType
    BY <1>1 DEF SovereignInv, SovereignTypeOK
  <2> QED
    BY <1>1, <2>1 DEF SovereignInv, SignaturesLogged, ContractType
<1>2. SovereignInv => StatusIsBacked
  BY <1>1 DEF StatusIsBacked
<1> QED
  BY <1>2, SovereignInvHolds, PTL

\* A node under veto initiates nothing, puts nothing to its approval channel
\* and signs only what was before it already.
THEOREM VetoStopsAllButPending == SovereignSpec => VetoHoldsButForPending
<1> DEFINE Held ==
      \A n \in Node : veto[n] =>
        /\ Pending(n)' \subseteq Pending(n)
        /\ contract_log'[n] \subseteq contract_log[n] \cup Pending(n)
        /\ \A c \in Contract :
             /\ contract'[c].signature_party_a = n => contract[c].signature_party_a = n
             /\ contract'[c].signature_party_b = n =>
                  contract[c].signature_party_b = n \/ c \in Pending(n) \ Pending(n)'
<1>1. ASSUME SovereignInv, SovereignNext PROVE Held
  <2>0. contract \in [Contract -> ContractType] /\ contract_log \in [Node -> SUBSET Contract]
    BY <1>1 DEF SovereignInv, SovereignTypeOK
  <2>1. ASSUME UNCHANGED <<contract, contract_log>>,
               \A m \in Node : veto[m] => Pending(m)' \subseteq Pending(m)
        PROVE  Held
    BY <2>1
  <2>2. ASSUME NEW c \in Contract, NEW k \in ContractType,
               contract' = [contract EXCEPT ![c] = k], contract_log' = contract_log,
               \A m \in Node : Pending(m)' \subseteq Pending(m),
               k.signature_party_a \in {NoNode, contract[c].signature_party_a},
               k.signature_party_b \in {NoNode, contract[c].signature_party_b}
        PROVE  Held
    <3>1. contract'[c] = k /\ \A d \in Contract \ {c} : contract'[d] = contract[d]
      BY <2>0, <2>2
    <3> QED
      BY <2>2, <3>1, NodeAssumption
  <2>3. ASSUME NEW n \in Node, NEW c \in Contract, NEW k \in ContractType,
               ~veto[n] \/ (c \in Pending(n) \ Pending(n)' /\ k.signature_party_a = contract[c].signature_party_a),
               contract' = [contract EXCEPT ![c] = k],
               contract_log' = [contract_log EXCEPT ![n] = @ \cup {c}],
               \A m \in Node : Pending(m)' \subseteq Pending(m),
               k.signature_party_a \in {NoNode, n, contract[c].signature_party_a},
               k.signature_party_b \in {NoNode, n, contract[c].signature_party_b}
        PROVE  Held
    <3>1. contract'[c] = k /\ \A d \in Contract \ {c} : contract'[d] = contract[d]
      BY <2>0, <2>3
    <3>2. \A m \in Node : contract_log'[m] = IF m = n THEN contract_log[n] \cup {c} ELSE contract_log[m]
      BY <2>0, <2>3
    <3>3. ASSUME NEW m \in Node, veto[m], m # n
          PROVE  /\ contract_log'[m] \subseteq contract_log[m]
                 /\ \A d \in Contract :
                      /\ contract'[d].signature_party_a = m => contract[d].signature_party_a = m
                      /\ contract'[d].signature_party_b = m => contract[d].signature_party_b = m
      BY <2>3, <3>1, <3>2, <3>3, NodeAssumption
    <3>4. ASSUME veto[n]
          PROVE  /\ contract_log'[n] \subseteq contract_log[n] \cup Pending(n)
                 /\ \A d \in Contract :
                      /\ contract'[d].signature_party_a = n => contract[d].signature_party_a = n
                      /\ contract'[d].signature_party_b = n =>
                           contract[d].signature_party_b = n \/ d \in Pending(n) \ Pending(n)'
      BY <2>3, <3>1, <3>2, <3>4, NodeAssumption
    <3> QED
      BY <2>3, <3>3, <3>4
  <2> HIDE DEF Held
  <2>4. ASSUME NEW n \in Node, NEW c \in Contract, NEW terms \in WeightName \cup {NoName}, Initiate(n, c, terms)
        PROVE  Held
    <3>0. \A m \in Node : Pending(m)' \subseteq Pending(m)
      BY <2>4 DEF Initiate, Pending
    <3>1. CASE Reject(n, c, Fresh(n, terms), "veto")
      <4> DEFINE k == Rejected(Fresh(n, terms), "veto")
      <4>1. k \in ContractType /\ k.signature_party_a = NoNode /\ k.signature_party_b = NoNode
        BY FreshIs, RejectedIs DEF Reason
      <4>2. contract' = [contract EXCEPT ![c] = k] /\ contract_log' = contract_log
        BY <3>1 DEF Reject
      <4> HIDE DEF k
      <4> QED
        BY <2>2, <3>0, <4>1, <4>2
    <3>2. CASE ~veto[n] /\ contract' = [contract EXCEPT ![c] = Offered(n, terms)]
               /\ contract_log' = [contract_log EXCEPT ![n] = @ \cup {c}]
      <4> DEFINE k == Offered(n, terms)
      <4>1. k \in ContractType /\ k.signature_party_a = n /\ k.signature_party_b = NoNode
        BY FreshIs
      <4>2. contract' = [contract EXCEPT ![c] = k]
        BY <3>2
      <4> HIDE DEF k
      <4> QED
        BY <2>3, <3>0, <3>2, <4>1, <4>2
    <3> QED
      BY <2>4, <3>1, <3>2 DEF Initiate, InitiationHalted
  <2>5. ASSUME NEW n \in Node, NEW c \in Contract, NEW why \in Reason, Reject(n, c, contract[c], why),
               \A m \in Node : Pending(m)' \subseteq Pending(m)
        PROVE  Held
    <3> DEFINE k == Rejected(contract[c], why)
    <3>1. /\ k \in ContractType
          /\ k.signature_party_a = contract[c].signature_party_a
          /\ k.signature_party_b = contract[c].signature_party_b
      BY <2>0, RejectedIs
    <3>2. contract' = [contract EXCEPT ![c] = k] /\ contract_log' = contract_log
      BY <2>5 DEF Reject
    <3> HIDE DEF k
    <3> QED
      BY <2>2, <2>5, <3>1, <3>2
  <2>6. ASSUME NEW n \in Node, NEW c \in Contract, CounterSign(n, c),
               ~veto[n] \/ c \in Pending(n) \ Pending(n)',
               \A m \in Node : Pending(m)' \subseteq Pending(m)
        PROVE  Held
    <3> DEFINE k == CounterSigned(n, contract[c])
    <3>1. /\ k \in ContractType
          /\ k.signature_party_a = contract[c].signature_party_a
          /\ k.signature_party_b = n
      BY <2>0, CounterSignedIs
    <3>2. /\ contract' = [contract EXCEPT ![c] = k]
          /\ contract_log' = [contract_log EXCEPT ![n] = @ \cup {c}]
      BY <2>6 DEF CounterSign
    <3> HIDE DEF k
    <3> QED
      BY <2>3, <2>6, <3>1, <3>2
  <2>7. ASSUME NEW n \in Node, NEW c \in Contract, Evaluate(n, c)
        PROVE  Held
    <3>1. CASE asked' = asked /\ ~(UNCHANGED books)
      <4>1. \/ \E why \in Reason : Reject(n, c, contract[c], why)
            \/ ~veto[n] /\ CounterSign(n, c)
        BY <2>7, <3>1 DEF Evaluate, Reason
      <4>2. \A m \in Node : Pending(m)' \subseteq Pending(m)
        BY <3>1 DEF Pending
      <4> QED
        BY <2>5, <2>6, <4>1, <4>2
    <3>2. CASE asked' = asked /\ UNCHANGED books
      <4>1. \A m \in Node : Pending(m)' \subseteq Pending(m)
        BY <3>2 DEF Pending
      <4> QED
        BY <2>1, <3>2, <4>1 DEF books
    <3>3. CASE ~veto[n] /\ asked' = asked \cup {<<n, c>>} /\ UNCHANGED books
      <4>1. \A m \in Node : veto[m] => Pending(m)' \subseteq Pending(m)
        BY <3>3 DEF Pending
      <4> QED
        BY <2>1, <3>3, <4>1 DEF books
    <3> QED
      BY <2>7, <3>1, <3>2, <3>3 DEF Evaluate
  <2>8. ASSUME NEW n \in Node, NEW c \in Contract, Resolve(n, c)
        PROVE  Held
    <3>1. /\ \A m \in Node : Pending(m)' \subseteq Pending(m)
          /\ c \in Pending(n) \ Pending(n)'
      BY <2>8 DEF Resolve, Pending
    <3>2. CounterSign(n, c) \/ Reject(n, c, contract[c], "denied")
      BY <2>8 DEF Resolve
    <3> QED
      BY <2>5, <2>6, <3>1, <3>2 DEF Reason
  <2>9. ASSUME NEW n \in Node,
               \/ \E k \in WeightName, p \in Protection \ {"absent"} : RegisterWeight(n, k, p)
               \/ \E e \in {"no_channel", "channel"} : BuildEngine(n, e)
               \/ \E on \in BOOLEAN : SetVeto(n, on) \/ SetReview(n, on)
        PROVE  Held
    <3>1. UNCHANGED <<contract, contract_log, asked>>
      BY <2>9 DEF RegisterWeight, BuildEngine, SetVeto, SetReview, books
    <3> QED
      BY <2>1, <3>1 DEF Pending
  <2> QED
    BY <1>1, <2>4, <2>7, <2>8, <2>9 DEF SovereignNext
<1>2. SovereignInv /\ [SovereignNext]_sovereignVars => [Held]_sovereignVars
  BY <1>1
<1>3. SovereignSpec => [][Held]_sovereignVars
  <2> HIDE DEF Held
  <2> QED
    BY SovereignInvHolds, <1>2, PTL DEF SovereignSpec
<1> QED
  BY <1>3 DEF VetoHoldsButForPending
=============================================================================
